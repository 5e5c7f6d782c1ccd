------------------------------ MODULE MCReturns ------------------------------
(* The configuration MCReturns.cfg instantiates Returns for TLC: an order of  *)
(* two units of one item and one of another.                                  *)
EXTENDS Returns

CONSTANTS i1, i2

TwoAndOne == [i \in {i1, i2} |-> IF i = i1 THEN 2 ELSE 1]

Of(i, n) == [item |-> i, quantity |-> n]

\* One unit, both items, the same item on two lines.
ThreeBaskets == {<<Of(i1, 1)>>, <<Of(i2, 1), Of(i1, 1)>>, <<Of(i1, 1), Of(i1, 2)>>}
=============================================================================
