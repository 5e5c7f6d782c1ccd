----------------------------- MODULE MCPlanLimits -----------------------------
(* The configuration MCPlanLimits.cfg instantiates PlanLimits for TLC.  The   *)
(* first plan allows more storage than the column holds; the second is what   *)
(* the super admin may shrink it to.                                          *)
EXTENDS PlanLimits

CONSTANTS c1, c2, c3, i1, i2, i3, a1, a2, a3, a4, r1, u1, u2, u3

\* Two acceptances and a rejection of one invitation, one each of the others.
Holders == [q \in {a1, a2, a3, a4, r1} |->
              IF q = a3 THEN i2 ELSE IF q = a4 THEN i3 ELSE i1]

\* The third invitation is for the address of the first.
Addresses == [i \in {i1, i2, i3} |-> IF i = i2 THEN i2 ELSE i1]

Bytes == [u \in {u1, u2, u3} |-> IF u = u2 THEN 2 ELSE 1]

TwoPlans == {[product |-> 2, staff |-> 2, storage |-> 4],
             [product |-> 1, staff |-> 2, storage |-> 2]}

\* Each quota on its own, and one request of every kind together.
FourLoads == {{c1, c2, c3}, {i1, i2, i3, a1, a2, a3, a4, r1}, {u1, u2, u3},
              {c1, i1, a1, r1, u1, u2}}
=============================================================================
