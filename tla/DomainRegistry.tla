---------------------------- MODULE DomainRegistry ----------------------------
(***************************************************************************)
(* What the table domain_verifications promises of custom domains: a domain  *)
(* is claimed by one verification at a time, whoever asks at once, and a     *)
(* verification that gave its domain up never has it again.                  *)
(*                                                                         *)
(*   modules/domain/domain.service.ts   addCustomDomain, removeCustomDomain *)
(*   db/schema.ts                       domain_verifications               *)
(***************************************************************************)
CONSTANTS
  Verification,   \* requests for a custom domain
  Domain,
  Name,           \* the domain each asks for
  Nobody          \* a domain that nobody claims

VARIABLES
  holder,   \* the verification that claims each domain
  spent     \* the verifications that gave their domain up

vars == <<holder, spent>>

Init ==
  /\ holder = [d \in Domain |-> Nobody]
  /\ spent = {}

Claim(v) ==
  /\ holder[Name[v]] = Nobody
  /\ v \notin spent
  /\ holder' = [holder EXCEPT ![Name[v]] = v]
  /\ UNCHANGED spent

Release(v) ==
  /\ holder[Name[v]] = v
  /\ holder' = [holder EXCEPT ![Name[v]] = Nobody]
  /\ spent' = spent \cup {v}

Next == \E v \in Verification : Claim(v) \/ Release(v)

Spec == Init /\ [][Next]_vars
=============================================================================
