------------------------- MODULE MCDomainVerification -------------------------
(* The configuration MCDomainVerification.cfg instantiates DomainVerification *)
(* for TLC: one store asks for two domains, and another store for the first.  *)
EXTENDS DomainVerification

CONSTANTS s1, s2, d1, d2, v1, v2, v3

Owners == [v \in Verification |-> IF v = v2 THEN s2 ELSE s1]
Names == [v \in Verification |-> IF v = v3 THEN d2 ELSE d1]
=============================================================================
