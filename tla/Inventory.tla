------------------------------ MODULE Inventory ------------------------------
(***************************************************************************)
(* What selling from stock promises: a sale takes everything in its basket   *)
(* in one instant or takes nothing, and never takes what is not there.       *)
(* PosSale implements this (apps/backend/src/modules/pos/pos.service.ts,     *)
(* createPosOrder).                                                          *)
(***************************************************************************)
EXTENDS Naturals

CONSTANTS Sale, Row,
          Quantities        \* what a merchant may enter as a row's stock

VARIABLES stock,            \* the quantity of every stock row
          sold,             \* the sales that went through
          demand            \* what each sale wants of every row

inventoryVars == <<stock, sold, demand>>

Init ==
  /\ stock \in [Row -> Quantities]
  /\ sold = {}
  /\ demand \in [Sale -> [Row -> Nat]]

Sell(s) ==
  /\ s \notin sold
  /\ \A w \in Row : demand[s][w] <= stock[w]
  /\ stock' = [w \in Row |-> stock[w] - demand[s][w]]
  /\ sold' = sold \cup {s}
  /\ UNCHANGED demand

SetStock(w) ==
  /\ \E n \in Quantities : stock' = [stock EXCEPT ![w] = n]
  /\ UNCHANGED <<sold, demand>>

Next ==
  \/ \E s \in Sale : Sell(s)
  \/ \E w \in Row : SetStock(w)

Spec == Init /\ [][Next]_inventoryVars
=============================================================================
