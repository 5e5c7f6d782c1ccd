---------------------------- MODULE PosSaleProofs ----------------------------
(***************************************************************************)
(* Point-of-sale orders never oversell, and sell whole baskets one at a time, *)
(* for every set of sales, rows and item lists and every size of the pool.   *)
(***************************************************************************)
EXTENDS PosSale, SumsProofs, SequenceTheorems, TLAPS

IInv == TypeOK /\ TakenIsCovered

\* The item a sale is about to decrement is one of its basket's.
LEMMA CurrentItemIsItem ==
  ASSUME TypeOK, NEW s \in Sale
  PROVE  CurrentItem(s) \in Item
<1>1. basket[s] \in Seq(Item)
  BY PosAssumption DEF TypeOK
<1> QED
  BY <1>1 DEF TypeOK, CurrentItem

\* Any throw inside the transaction leaves the stock covered.
LEMMA RollbackKeepsCover ==
  ASSUME IInv, NEW s \in Sale, Rollback(s)
  PROVE  IInv'
<1> USE DEF Rollback, Goto, EndTransaction, Nothing
<1>1. TypeOK'
  <2>1. 1 \in DOMAIN basket[s]
    BY PosAssumption DEF IInv, TypeOK
  <2>2. 0 \in 0 .. MaxRetries - 1
    BY PosAssumption
  <2> QED
    BY <2>1, <2>2 DEF IInv, TypeOK, Stage, Ended
<1>2. TakenIsCovered'
  BY PosAssumption DEF IInv, TypeOK, TakenIsCovered
<1> QED
  BY <1>1, <1>2 DEF IInv

\* The decrement: the guard of the UPDATE and the row's lock extend the cover.
LEMMA DecrementKeepsCover ==
  ASSUME IInv, NEW s \in Sale, Decrement(s)
  PROVE  IInv'
<1> DEFINE item == CurrentItem(s)
<1>1. item \in Item
  BY CurrentItemIsItem DEF IInv
<1>2. /\ pc[s] = "decrementing"
      /\ rowLock[item.row] \in {s, NoOne}
  BY DEF Decrement
<1>3. CASE Rollback(s)
  BY <1>3, RollbackKeepsCover
<1>4. CASE /\ taken[s][item.row] + item.quantity <= stock[item.row]
           /\ rowLock' = [rowLock EXCEPT ![item.row] = s]
           /\ taken' = [taken EXCEPT ![s][item.row] = @ + item.quantity]
           /\ IF next[s] = Len(basket[s])
                THEN Goto(s, "numbering") /\ UNCHANGED next
                ELSE next' = [next EXCEPT ![s] = @ + 1] /\ UNCHANGED pc
           /\ UNCHANGED <<stock, sold, basket, tries>>
  <2> HIDE DEF item
  <2>1. item.row \in Row /\ item.quantity \in Nat \ {0}
    BY <1>1 DEF Item
  <2>2. TypeOK'
    <3>1. pc' \in [Sale -> Stage]
      BY <1>4 DEF IInv, TypeOK, Goto, Stage, Transaction
    <3>2. /\ next' \in [Sale -> Nat]
          /\ \A t \in Sale : next'[t] \in DOMAIN basket'[t]
      <4>1. basket[s] \in Seq(Item)
        BY PosAssumption DEF IInv, TypeOK
      <4>2. next[s] \in 1 .. Len(basket[s])
        BY <4>1 DEF IInv, TypeOK
      <4>3. next[s] # Len(basket[s]) => next[s] + 1 \in DOMAIN basket[s]
        BY <4>1, <4>2
      <4>4. CASE next[s] = Len(basket[s])
        BY <1>4, <4>4 DEF IInv, TypeOK
      <4>5. CASE next[s] # Len(basket[s])
        <5>1. next' = [next EXCEPT ![s] = next[s] + 1] /\ basket' = basket
          BY <1>4, <4>5
        <5>2. next[s] + 1 \in Nat
          BY DEF IInv, TypeOK
        <5> QED
          BY <4>3, <4>5, <5>1, <5>2 DEF IInv, TypeOK
      <4> QED
        BY <4>4, <4>5
    <3>3. rowLock' \in [Row -> Sale \cup {NoOne}]
      BY <1>4 DEF IInv, TypeOK
    <3>4. taken' \in [Sale -> [Row -> Nat]]
      <4>1. [taken[s] EXCEPT ![item.row] = @ + item.quantity] \in [Row -> Nat]
        BY <2>1 DEF IInv, TypeOK
      <4> QED
        BY <1>4, <2>1, <4>1 DEF IInv, TypeOK
    <3> QED
      BY <1>4, <3>1, <3>2, <3>3, <3>4 DEF IInv, TypeOK
  <2>3. TakenIsCovered'
    BY <1>2, <1>4, <2>1, PosAssumption DEF IInv, TypeOK, TakenIsCovered
  <2> QED
    BY <2>2, <2>3 DEF IInv
<1> QED
  BY <1>3, <1>4 DEF Decrement

\* The commit: rows another sale holds are not this sale's to change.
LEMMA CommitKeepsCover ==
  ASSUME IInv, NEW s \in Sale, Commit(s)
  PROVE  IInv'
<1> USE DEF Commit, Goto, EndTransaction, Nothing
<1>1. \A w \in Row : stock[w] - taken[s][w] \in Nat
  BY DEF IInv, TypeOK, TakenIsCovered
<1>2. TypeOK'
  <2>1. 1 \in DOMAIN basket[s]
    BY PosAssumption DEF IInv, TypeOK
  <2>2. 0 \in 0 .. MaxRetries - 1
    BY PosAssumption
  <2>3. stock' \in [Row -> Nat]
    BY <1>1
  <2> QED
    BY <2>1, <2>2, <2>3 DEF IInv, TypeOK, Stage, Ended
<1>3. TakenIsCovered'
  <2> SUFFICES ASSUME NEW t \in Sale, NEW w \in Row, taken'[t][w] > 0
               PROVE  rowLock'[w] = t /\ taken'[t][w] <= stock'[w]
    BY DEF TakenIsCovered
  <2>1. t # s /\ taken'[t][w] = taken[t][w]
    BY DEF IInv, TypeOK
  <2>2. rowLock[w] = t /\ taken[t][w] <= stock[w]
    BY <2>1 DEF IInv, TakenIsCovered
  <2>3. taken[s][w] = 0
    BY <2>1, <2>2 DEF IInv, TypeOK, TakenIsCovered
  <2>4. stock'[w] = stock[w]
    BY <2>3 DEF IInv, TypeOK
  <2> QED
    BY <2>1, <2>2, <2>4 DEF IInv, TypeOK
<1> QED
  BY <1>2, <1>3 DEF IInv

\* The inductive invariant holds in every reachable state: what createPosOrder has
\* decremented is locked and covered.
THEOREM Invariance == Spec => []IInv
<1>1. Init => IInv
  <2> SUFFICES ASSUME Init PROVE IInv
    OBVIOUS
  <2>1. \A s \in Sale : 1 \in DOMAIN basket[s]
    BY PosAssumption DEF Init
  <2>2. 0 \in 0 .. MaxRetries - 1
    BY PosAssumption
  <2>3. stock \in [Row -> Nat]
    BY PosAssumption DEF Init
  <2> QED
    BY <2>1, <2>2, <2>3 DEF Init, IInv, TypeOK, TakenIsCovered, Nothing, Stage
<1>2. IInv /\ [Next]_vars => IInv'
  <2> SUFFICES ASSUME IInv, [Next]_vars
               PROVE  IInv'
    OBVIOUS
  <2>1. ASSUME NEW s \in Sale, Request(s) \/ Begin(s)
        PROVE  IInv'
    BY <2>1 DEF Request, Begin, Goto, saleVars, IInv, TypeOK, TakenIsCovered,
       Stage, Transaction
  <2>2. ASSUME NEW s \in Sale, CheckStock(s)
        PROVE  IInv'
    <3>1. CASE Rollback(s)
      BY <3>1, RollbackKeepsCover
    <3>2. CASE Goto(s, "decrementing") /\ UNCHANGED <<stock, sold, rowLock, basket, saleVars>>
      BY <3>2 DEF Goto, saleVars, IInv, TypeOK, TakenIsCovered, Stage, Transaction
    <3> QED
      BY <2>2, <3>1, <3>2 DEF CheckStock
  <2>3. ASSUME NEW s \in Sale, Decrement(s)
        PROVE  IInv'
    BY <2>3, DecrementKeepsCover
  <2>4. ASSUME NEW s \in Sale, PickNumber(s)
        PROVE  IInv'
    <3>1. 0 \in 0 .. MaxRetries - 1
      BY PosAssumption
    <3> QED
      BY <2>4, <3>1 DEF PickNumber, Goto, IInv, TypeOK, TakenIsCovered, Stage, Transaction
  <2>5. ASSUME NEW s \in Sale, NumberInUse(s)
        PROVE  IInv'
    <3>1. CASE Rollback(s)
      BY <3>1, RollbackKeepsCover
    <3>2. CASE /\ tries[s] + 1 # MaxRetries
               /\ tries' = [tries EXCEPT ![s] = @ + 1]
               /\ UNCHANGED <<stock, sold, rowLock, pc, basket, next, taken>>
      <4>1. tries[s] \in 0 .. MaxRetries - 1 /\ tries[s] + 1 # MaxRetries
        BY <3>2 DEF IInv, TypeOK
      <4>2. tries[s] + 1 \in 0 .. MaxRetries - 1
        <5> DEFINE n == tries[s]
        <5> HIDE DEF n
        <5>1. n \in 0 .. MaxRetries - 1 /\ n + 1 # MaxRetries
          BY <4>1 DEF n
        <5>2. n + 1 \in 0 .. MaxRetries - 1
          BY <5>1, PosAssumption
        <5> QED
          BY <5>2 DEF n
      <4> QED
        BY <3>2, <4>2 DEF IInv, TypeOK, TakenIsCovered
    <3> QED
      BY <2>5, <3>1, <3>2 DEF NumberInUse
  <2>6. ASSUME NEW s \in Sale, Commit(s)
        PROVE  IInv'
    BY <2>6, CommitKeepsCover
  <2>7. ASSUME NEW s \in Sale, RefuseOption(s) \/ DeadlockDetected(s) \/ Abort(s)
        PROVE  IInv'
    BY <2>7, RollbackKeepsCover DEF RefuseOption, DeadlockDetected, Abort
  <2>8. ASSUME NEW w \in Row, NEW n \in Quantities, SetStock(w, n)
        PROVE  IInv'
    BY <2>8, PosAssumption DEF SetStock, saleVars, IInv, TypeOK, TakenIsCovered
  <2>9. CASE UNCHANGED vars
    BY <2>9 DEF vars, saleVars, IInv, TypeOK, TakenIsCovered
  <2> QED
    BY <2>1, <2>2, <2>3, <2>4, <2>5, <2>6, <2>7, <2>8, <2>9 DEF Next, Step
<1> QED
  BY <1>1, <1>2, PTL DEF Spec

(* Stock is a natural number in every committed state, and all the rest of   *)
(* the state is what it should be.                                           *)
THEOREM TypeCorrect == Spec => []TypeOK
<1>1. IInv => TypeOK
  BY DEF IInv
<1> QED
  BY <1>1, Invariance, PTL

(* What a running sale has decremented is stock that is there and is locked  *)
(* for it: the commit cannot oversell.                                       *)
THEOREM NeverOversold == Spec => []TakenIsCovered
<1>1. IInv => TakenIsCovered
  BY DEF IInv
<1> QED
  BY <1>1, Invariance, PTL

-----------------------------------------------------------------------------
\* What a sale has decremented is the part of its basket it has gone through

\* The items a running sale has decremented.
Counted(s) ==
  {n \in DOMAIN basket[s] : \/ pc[s] = "decrementing" /\ n < next[s]
                            \/ pc[s] \in {"numbering", "numbered"}}

CountedOf(s, w) == Naming(basket[s], w) \cap Counted(s)

TakenIsCounted ==
  \A s \in Sale, w \in Row : taken[s][w] = SumOver(Amounts(basket[s]), CountedOf(s, w))

NextIsFirst ==
  \A s \in Sale : pc[s] \notin {"decrementing", "numbering", "numbered"} => next[s] = 1

SoldAreDone == sold = {s \in Sale : pc[s] = "done"}

DInv == TakenIsCounted /\ NextIsFirst /\ SoldAreDone

\* Baskets are finite and their items are amounts of rows.
LEMMA BasketAdds ==
  ASSUME TypeOK, NEW s \in Sale
  PROVE  /\ basket[s] \in Seq(Item)
         /\ IsFiniteSet(DOMAIN basket[s])
         /\ DOMAIN basket[s] \subseteq Nat
         /\ Counts(Amounts(basket[s]), DOMAIN basket[s])
<1>1. basket[s] \in Seq(Item)
  BY PosAssumption DEF TypeOK
<1>2. DOMAIN basket[s] = 1 .. Len(basket[s]) /\ Len(basket[s]) \in Nat
  BY <1>1
<1>3. IsFiniteSet(DOMAIN basket[s])
  BY <1>2, FS_Interval
<1>4. \A n \in DOMAIN basket[s] : basket[s][n] \in Item
  BY <1>1
<1> QED
  BY <1>1, <1>2, <1>3, <1>4 DEF Counts, Amounts, Item

\* A sale that is not decrementing or beyond has counted nothing.
LEMMA NothingCounted ==
  ASSUME NEW s \in Sale, NEW w \in Row, Counted(s) = {}
  PROVE  SumOver(Amounts(basket[s]), CountedOf(s, w)) = 0
<1>1. CountedOf(s, w) = {}
  BY DEF CountedOf
<1> QED
  BY <1>1, SumOfEmpty

\* What happens to one sale leaves what the others have counted alone.
LEMMA OthersCounted ==
  ASSUME IInv, DInv, NEW s \in Sale, basket' = basket,
         \A t \in Sale \ {s} : pc'[t] = pc[t] /\ next'[t] = next[t] /\ taken'[t] = taken[t],
         \A w \in Row : taken'[s][w] = SumOver(Amounts(basket[s]), CountedOf(s, w)')
  PROVE  TakenIsCounted'
<1> SUFFICES ASSUME NEW t \in Sale, NEW w \in Row
             PROVE  taken'[t][w] = SumOver(Amounts(basket'[t]), CountedOf(t, w)')
  BY DEF TakenIsCounted, Amounts, CountedOf
<1>1. CASE t = s
  BY <1>1
<1>2. CASE t # s
  <2>1. CountedOf(t, w)' = CountedOf(t, w)
    BY <1>2 DEF CountedOf, Counted, Naming
  <2> QED
    BY <1>2, <2>1 DEF DInv, TakenIsCounted
<1> QED
  BY <1>1, <1>2

\* Any throw inside the transaction forgets what was decremented.
LEMMA RollbackKeepsCount ==
  ASSUME IInv, DInv, NEW s \in Sale, Rollback(s), pc[s] # "done"
  PROVE  DInv'
<1> USE DEF Rollback, Goto, EndTransaction, Nothing, IInv, TypeOK
<1>1. Counted(s)' = {}
  BY DEF Counted
<1>2. \A w \in Row : SumOver(Amounts(basket[s]), CountedOf(s, w)') = 0
  <2> TAKE w \in Row
  <2>1. CountedOf(s, w)' = {}
    BY <1>1 DEF CountedOf
  <2> QED
    BY <2>1, SumOfEmpty
<1>3. TakenIsCounted'
  BY <1>2, OthersCounted
<1>4. NextIsFirst' /\ SoldAreDone'
  BY DEF DInv, NextIsFirst, SoldAreDone
<1> QED
  BY <1>3, <1>4 DEF DInv

\* The decrement counts one item more.
LEMMA DecrementCountsItem ==
  ASSUME IInv, DInv, NEW s \in Sale, Decrement(s)
  PROVE  DInv'
<1> DEFINE item == CurrentItem(s)
           k == next[s]
<1>1. CASE Rollback(s)
  BY <1>1, RollbackKeepsCount DEF Decrement
<1>2. CASE /\ rowLock' = [rowLock EXCEPT ![item.row] = s]
           /\ taken' = [taken EXCEPT ![s][item.row] = @ + item.quantity]
           /\ IF next[s] = Len(basket[s])
                THEN Goto(s, "numbering") /\ UNCHANGED next
                ELSE next' = [next EXCEPT ![s] = @ + 1] /\ UNCHANGED pc
           /\ UNCHANGED <<stock, sold, basket, tries>>
  <2>1. pc[s] = "decrementing" /\ k \in DOMAIN basket[s] /\ k \in Nat
    BY DEF Decrement, IInv, TypeOK
  <2>2. item \in Item /\ item = basket[s][k]
    BY CurrentItemIsItem DEF CurrentItem, IInv
  <2>3. item.row \in Row /\ item.quantity \in Nat
    BY <2>2 DEF Item
  <2>4. DOMAIN basket[s] = 1 .. Len(basket[s]) /\ Len(basket[s]) \in Nat
    BY BasketAdds DEF IInv
  <2>5. Counted(s) = {n \in DOMAIN basket[s] : n < k}
    BY <2>1 DEF Counted
  <2>6. Counted(s)' = Counted(s) \cup {k}
    <3>1. CASE next[s] = Len(basket[s])
      <4>1. pc'[s] = "numbering" /\ basket' = basket
        BY <1>2, <3>1 DEF Goto, IInv, TypeOK
      <4>2. Counted(s)' = DOMAIN basket[s]
        BY <4>1 DEF Counted
      <4> QED
        BY <2>1, <2>4, <2>5, <3>1, <4>2
    <3>2. CASE next[s] # Len(basket[s])
      <4>1. pc'[s] = "decrementing" /\ basket' = basket /\ next'[s] = k + 1
        BY <1>2, <2>1, <3>2 DEF IInv, TypeOK
      <4>2. Counted(s)' = {n \in DOMAIN basket[s] : n < k + 1}
        BY <4>1 DEF Counted
      <4> QED
        BY <2>1, <2>4, <2>5, <4>2
    <3> QED
      BY <3>1, <3>2
  <2>7. ASSUME NEW w \in Row
        PROVE  taken'[s][w] = SumOver(Amounts(basket[s]), CountedOf(s, w)')
    <3> DEFINE f == Amounts(basket[s])
               C == CountedOf(s, w)
    <3>1. /\ IsFiniteSet(C) /\ k \notin C /\ C \subseteq DOMAIN basket[s]
          /\ Counts(f, DOMAIN basket[s])
      BY <2>1, <2>5, BasketAdds, FS_Subset DEF CountedOf, IInv
    <3>2. taken[s][w] = SumOver(f, C)
      BY DEF DInv, TakenIsCounted
    <3>3. CountedOf(s, w)' = Naming(basket[s], w) \cap (Counted(s) \cup {k})
      BY <1>2, <2>6 DEF CountedOf
    <3>4. CASE w = item.row
      <4>1. CountedOf(s, w)' = C \cup {k}
        BY <2>1, <2>2, <3>3, <3>4 DEF Naming, CountedOf
      <4>2. Counts(f, C \cup {k})
        BY <2>1, <3>1 DEF Counts
      <4>3. SumOver(f, C \cup {k}) = SumOver(f, C) + f[k]
        BY <3>1, <4>2, SumAddsOne
      <4>4. f[k] = item.quantity
        BY <2>1, <2>2 DEF Amounts
      <4>5. taken'[s][w] = taken[s][w] + item.quantity
        BY <1>2, <2>3, <3>4 DEF IInv, TypeOK
      <4> QED
        BY <3>2, <4>1, <4>3, <4>4, <4>5
    <3>5. CASE w # item.row
      <4>1. CountedOf(s, w)' = C
        BY <2>1, <2>2, <3>3, <3>5 DEF Naming, CountedOf
      <4>2. taken'[s][w] = taken[s][w]
        BY <1>2, <2>3, <3>5 DEF IInv, TypeOK
      <4> QED
        BY <3>2, <4>1, <4>2
    <3> QED
      BY <3>4, <3>5
  <2>8. TakenIsCounted'
    <3>1. \A t \in Sale \ {s} : pc'[t] = pc[t] /\ next'[t] = next[t] /\ taken'[t] = taken[t]
      BY <1>2 DEF Goto, IInv, TypeOK
    <3> QED
      BY <1>2, <2>7, <3>1, OthersCounted
  <2>9. NextIsFirst' /\ SoldAreDone'
    BY <1>2, <2>1 DEF DInv, NextIsFirst, SoldAreDone, Goto, IInv, TypeOK
  <2> QED
    BY <2>8, <2>9 DEF DInv
<1> QED
  BY <1>1, <1>2 DEF Decrement

\* What a running sale has decremented is the sum of the items it has gone through,
\* row by row, and the sales that sold are those that are done (createPosOrder).
THEOREM CountInvariance == Spec => []DInv
<1>1. Init => DInv
  <2> SUFFICES ASSUME Init PROVE DInv
    OBVIOUS
  <2>1. ASSUME NEW s \in Sale, NEW w \in Row
        PROVE  taken[s][w] = SumOver(Amounts(basket[s]), CountedOf(s, w))
    <3>1. Counted(s) = {}
      BY DEF Init, Counted
    <3> QED
      BY <3>1, NothingCounted DEF Init, Nothing
  <2> QED
    BY <2>1 DEF Init, DInv, TakenIsCounted, NextIsFirst, SoldAreDone
<1>2. IInv /\ DInv /\ [Next]_vars => DInv'
  <2> SUFFICES ASSUME IInv, DInv, [Next]_vars
               PROVE  DInv'
    OBVIOUS
  <2> USE DEF saleVars
  \* Steps that move a sale on, and have it count what it had counted.
  <2>1. ASSUME NEW s \in Sale, UNCHANGED <<sold, basket, next, taken>>,
               NEW stage \in Stage, pc' = [pc EXCEPT ![s] = stage],
               pc[s] # "done", stage # "done", Counted(s)' = Counted(s),
               pc[s] \in {"decrementing", "numbering", "numbered"}
                 => stage \in {"decrementing", "numbering", "numbered"}
        PROVE  DInv'
    <3>1. \A w \in Row : taken'[s][w] = SumOver(Amounts(basket[s]), CountedOf(s, w)')
      BY <2>1 DEF CountedOf, DInv, TakenIsCounted
    <3>2. TakenIsCounted'
      BY <2>1, <3>1, OthersCounted DEF IInv, TypeOK
    <3>3. NextIsFirst' /\ SoldAreDone'
      BY <2>1 DEF DInv, NextIsFirst, SoldAreDone, IInv, TypeOK
    <3> QED
      BY <3>2, <3>3 DEF DInv
  <2>2. ASSUME NEW s \in Sale, Request(s) \/ Begin(s)
        PROVE  DInv'
    <3>1. Counted(s)' = Counted(s)
      BY <2>2 DEF Request, Begin, Goto, Counted, IInv, TypeOK
    <3> QED
      BY <2>1, <2>2, <3>1 DEF Request, Begin, Goto, Stage, Transaction, IInv, TypeOK
  <2>3. ASSUME NEW s \in Sale, CheckStock(s)
        PROVE  DInv'
    <3>1. CASE Rollback(s)
      BY <2>3, <3>1, RollbackKeepsCount DEF CheckStock
    <3>2. CASE Goto(s, "decrementing") /\ UNCHANGED <<stock, sold, rowLock, basket, saleVars>>
      <4>1. next[s] = 1 /\ pc[s] = "reading"
        BY <2>3 DEF CheckStock, DInv, NextIsFirst
      <4>2. \A n \in DOMAIN basket[s] : n \in Nat /\ n >= 1
        BY BasketAdds DEF IInv
      <4>3. Counted(s) = {} /\ Counted(s)' = {}
        BY <3>2, <4>1, <4>2 DEF Goto, Counted, IInv, TypeOK
      <4> QED
        BY <2>1, <3>2, <4>1, <4>3 DEF Goto, Stage, Transaction
    <3> QED
      BY <2>3, <3>1, <3>2 DEF CheckStock
  <2>4. ASSUME NEW s \in Sale, Decrement(s)
        PROVE  DInv'
    BY <2>4, DecrementCountsItem
  <2>5. ASSUME NEW s \in Sale, PickNumber(s)
        PROVE  DInv'
    <3>1. Counted(s)' = Counted(s)
      BY <2>5 DEF PickNumber, Goto, Counted, IInv, TypeOK
    <3> QED
      BY <2>1, <2>5, <3>1 DEF PickNumber, Goto, Stage, Transaction
  <2>6. ASSUME NEW s \in Sale, NumberInUse(s)
        PROVE  DInv'
    <3>1. CASE Rollback(s)
      BY <2>6, <3>1, RollbackKeepsCount DEF NumberInUse
    <3>2. CASE UNCHANGED <<stock, sold, rowLock, pc, basket, next, taken>>
      BY <3>2 DEF DInv, TakenIsCounted, CountedOf, Counted, NextIsFirst, SoldAreDone
    <3> QED
      BY <2>6, <3>1, <3>2 DEF NumberInUse
  <2>7. ASSUME NEW s \in Sale, RefuseOption(s) \/ DeadlockDetected(s) \/ Abort(s)
        PROVE  DInv'
    <3>1. pc[s] # "done" /\ Rollback(s)
      BY <2>7 DEF RefuseOption, DeadlockDetected, Abort, Transaction, OnCycle, Blocked, WaitsFor
    <3> QED
      BY <3>1, RollbackKeepsCount
  <2>8. ASSUME NEW s \in Sale, Commit(s)
        PROVE  DInv'
    <3> USE <2>8 DEF Commit, Goto, EndTransaction, Nothing, IInv, TypeOK
    <3>1. \A w \in Row : SumOver(Amounts(basket[s]), CountedOf(s, w)') = 0
      <4> TAKE w \in Row
      <4>1. CountedOf(s, w)' = {}
        BY DEF CountedOf, Counted
      <4> QED
        BY <4>1, SumOfEmpty
    <3>2. TakenIsCounted'
      BY <3>1, OthersCounted
    <3>3. NextIsFirst' /\ SoldAreDone'
      BY DEF DInv, NextIsFirst, SoldAreDone
    <3> QED
      BY <3>2, <3>3 DEF DInv
  <2>9. ASSUME NEW w \in Row, NEW n \in Quantities, SetStock(w, n)
        PROVE  DInv'
    BY <2>9 DEF SetStock, DInv, TakenIsCounted, CountedOf, Counted, NextIsFirst, SoldAreDone
  <2>10. CASE UNCHANGED vars
    BY <2>10 DEF vars, DInv, TakenIsCounted, CountedOf, Counted, NextIsFirst, SoldAreDone
  <2> QED
    BY <2>2, <2>3, <2>4, <2>5, <2>6, <2>7, <2>8, <2>9, <2>10 DEF Next, Step
<1> QED
  BY <1>1, <1>2, Invariance, PTL DEF Spec

(* Sales implement the inventory: a commit takes the whole basket, summed    *)
(* over the items that name a row, in one step and from stock that is there. *)
(* Decrements, waits, lost deadlocks and failures half way are invisible.    *)
THEOREM PosSaleImplementsInventory == Spec => ImplementsInventory
<1> DEFINE demand == [s \in Sale |-> Demand(basket[s])]
<1>1. TypeOK => demand \in [Sale -> [Row -> Nat]]
  <2> SUFFICES ASSUME TypeOK, NEW s \in Sale, NEW w \in Row
               PROVE  SumOver(Amounts(basket[s]), Naming(basket[s], w)) \in Nat
    BY DEF Demand
  <2>1. IsFiniteSet(Naming(basket[s], w)) /\ Counts(Amounts(basket[s]), Naming(basket[s], w))
    BY BasketAdds, FS_Subset DEF Naming, Counts
  <2> QED
    BY <2>1, SumIsNat
<1>2. Init /\ TypeOK => Shop!Init
  BY <1>1 DEF Init, Shop!Init
<1>3. IInv /\ DInv /\ [Next]_vars => [Shop!Next]_<<stock, sold, demand>>
  <2> SUFFICES ASSUME IInv, DInv, [Next]_vars
               PROVE  Shop!Next \/ UNCHANGED <<stock, sold, demand>>
    OBVIOUS
  <2>1. ASSUME NEW s \in Sale, Commit(s)
        PROVE  Shop!Next
    <3>1. \A w \in Row : demand[s][w] = taken[s][w]
      <4> TAKE w \in Row
      <4>1. CountedOf(s, w) = Naming(basket[s], w)
        BY <2>1 DEF Commit, CountedOf, Counted, Naming
      <4> QED
        BY <4>1 DEF DInv, TakenIsCounted, Demand
    <3>2. s \notin sold
      BY <2>1 DEF Commit, DInv, SoldAreDone
    <3>3. \A w \in Row : taken[s][w] <= stock[w]
      BY DEF IInv, TypeOK, TakenIsCovered
    <3>4. demand' = demand
      BY <2>1 DEF Commit
    <3>5. stock' = [w \in Row |-> stock[w] - demand[s][w]]
      BY <2>1, <3>1 DEF Commit
    <3>6. sold' = sold \cup {s}
      BY <2>1 DEF Commit
    <3> HIDE DEF demand
    <3>7. Shop!Sell(s)
      BY <3>1, <3>2, <3>3, <3>4, <3>5, <3>6 DEF Shop!Sell, demand
    <3> QED
      BY <3>7 DEF Shop!Next
  <2>2. ASSUME NEW w \in Row, NEW n \in Quantities, SetStock(w, n)
        PROVE  Shop!Next
    BY <2>2 DEF SetStock, Shop!Next, Shop!SetStock
  <2>3. ASSUME NEW s \in Sale,
               \/ Request(s) \/ Begin(s) \/ CheckStock(s) \/ Decrement(s) \/ PickNumber(s)
               \/ NumberInUse(s) \/ RefuseOption(s) \/ DeadlockDetected(s) \/ Abort(s)
        PROVE  UNCHANGED <<stock, sold, basket>>
    BY <2>3 DEF Request, Begin, CheckStock, Decrement, PickNumber, NumberInUse, RefuseOption,
       DeadlockDetected, Abort, Rollback
  <2>4. UNCHANGED <<stock, sold, basket>> => UNCHANGED <<stock, sold, demand>>
    OBVIOUS
  <2> QED
    BY <2>1, <2>2, <2>3, <2>4 DEF Next, Step, vars
<1> QED
  BY <1>2, <1>3, Invariance, CountInvariance, TypeCorrect, PTL
     DEF Spec, ImplementsInventory, Shop!Spec, Shop!inventoryVars
=============================================================================
