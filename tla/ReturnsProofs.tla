---------------------------- MODULE ReturnsProofs ----------------------------
(***************************************************************************)
(* Returns, for every set of requests, editors and items and every size of   *)
(* the pool: a refunded return was received and inspected, only a stale      *)
(* editor leaves the table of transitions, and more than was bought is only  *)
(* returned by requests that overlapped or a basket that repeats an item.    *)
(***************************************************************************)
EXTENDS Returns, SumsProofs, SequenceTheorems, TLAPS

StagesOfKind ==
  /\ \A q \in Request : pc[q] \in RequestStage
  /\ \A m \in Editor : pc[m] \in EditorStage

\* There is no return before its transaction commits.
NoneBeforeCommit ==
  \A q \in Request : pc[q] \in {"idle"} \cup InTransaction => status[q] = "none"

\* What an editor saw was earned when it looked, and stamps are never taken back:
\* the step it decided on adds to what the return has been through.
EditorSawIt ==
  \A m \in Editor : pc[m] = "checked" =>
    /\ edit[m].return \in Existing
    /\ edit[m].to \in ValidTransitions[edit[m].from]
    /\ edit[m].from \in Stamp => edit[m].from \in stamps[edit[m].return]

IInv == TypeOK /\ StagesOfKind /\ NoneBeforeCommit /\ EditorSawIt /\ StatusWasEarned

\* The table as its entries.
LEMMA Table ==
  ASSUME NEW s \in ReturnStatus
  PROVE  /\ ValidTransitions[s] \subseteq ReturnStatus
         /\ "received" \in ValidTransitions[s] => s = "approved"
         /\ "inspected" \in ValidTransitions[s] => s = "received"
         /\ "refunded" \in ValidTransitions[s] => s = "inspected"
BY DEF ValidTransitions, ReturnStatus

LEMMA InitEstablishes == Init => IInv
<1> SUFFICES ASSUME Init PROVE IInv
  OBVIOUS
<1> USE DEF Init
<1>1. TypeOK
  BY DEF TypeOK, OrderStatus, RequestStage, Edit, NoEdit, ReturnStatus
<1>2. StagesOfKind /\ NoneBeforeCommit
  BY DEF StagesOfKind, RequestStage, EditorStage, NoneBeforeCommit
<1>3. EditorSawIt /\ StatusWasEarned
  BY DEF EditorSawIt, StatusWasEarned, Stamp
<1> QED
  BY <1>1, <1>2, <1>3 DEF IInv

\* Steps of createReturn.
LEMMA RequestKeeps ==
  ASSUME IInv, NEW q \in Request, Begin(q) \/ RequestStep(q) \/ Abort(q)
  PROVE  IInv'
<1> USE DEF RequestStep, Goto, rows, form
<1>1. PICK s \in InTransaction \cup Ended :
        /\ pc' = [pc EXCEPT ![q] = s]
        /\ UNCHANGED <<order, stamps, form, edit>>
        /\ UNCHANGED status \/ (s = "done" /\ status' = [status EXCEPT ![q] = "requested"])
        /\ pc[q] \in {"idle"} \cup InTransaction
  BY DEF Begin, ReadOrder, SumReturned, InsertReturn, Abort, InTransaction, Ended
<1>2. seen' \in [Request -> SUBSET Request]
  BY DEF IInv, TypeOK, Begin, ReadOrder, SumReturned, InsertReturn, Abort, Existing
<1>3. \A x \in Request \cup Editor : pc'[x] = IF x = q THEN s ELSE pc[x]
  BY <1>1 DEF IInv, TypeOK
<1>4. TypeOK'
  BY <1>1, <1>2 DEF IInv, TypeOK, RequestStage, ReturnStatus
<1>5. StagesOfKind' /\ EditorSawIt'
  <2>1. Existing \subseteq Existing'
    BY <1>1 DEF IInv, TypeOK, Existing
  <2>2. StagesOfKind'
    BY <1>3, ReturnsAssumption DEF IInv, StagesOfKind, RequestStage
  <2>3. EditorSawIt'
    BY <1>1, <1>3, <2>1, ReturnsAssumption DEF IInv, EditorSawIt
  <2> QED
    BY <2>2, <2>3
<1>6. NoneBeforeCommit'
  BY <1>1, <1>3 DEF IInv, TypeOK, NoneBeforeCommit, InTransaction, Ended
<1>7. StatusWasEarned'
  BY <1>1 DEF IInv, TypeOK, StatusWasEarned, Stamp
<1> QED
  BY <1>4, <1>5, <1>6, <1>7 DEF IInv

\* The look at a return before its status is changed.
LEMMA CheckKeeps ==
  ASSUME IInv, NEW m \in Editor, CheckTransition(m)
  PROVE  IInv'
<1> USE DEF Goto, form
<1>1. PICK q \in Existing : \E s \in ValidTransitions[status[q]] :
        /\ edit' = [edit EXCEPT ![m] = [return |-> q, from |-> status[q], to |-> s]]
        /\ pc' = [pc EXCEPT ![m] = "checked"]
        /\ UNCHANGED <<order, status, stamps, form, seen>>
  BY DEF CheckTransition, rows
<1>0. PICK s \in ValidTransitions[status[q]] :
        /\ edit' = [edit EXCEPT ![m] = [return |-> q, from |-> status[q], to |-> s]]
        /\ pc' = [pc EXCEPT ![m] = "checked"]
        /\ UNCHANGED <<order, status, stamps, form, seen>>
  BY <1>1
<1>2. q \in Request /\ status[q] \in ReturnStatus
  BY DEF IInv, TypeOK, Existing
<1>3. s \in ReturnStatus
  BY <1>2, Table
<1>4. /\ edit' \in [Editor -> Edit]
      /\ \A n \in Editor : edit'[n] = IF n = m THEN [return |-> q, from |-> status[q], to |-> s]
                                      ELSE edit[n]
  BY <1>0, <1>2, <1>3 DEF IInv, TypeOK, Edit
<1>5. \A x \in Request \cup Editor : pc'[x] = IF x = m THEN "checked" ELSE pc[x]
  BY <1>0 DEF IInv, TypeOK
<1>6. TypeOK'
  BY <1>0, <1>4 DEF IInv, TypeOK, EditorStage
<1>7. StagesOfKind' /\ NoneBeforeCommit'
  BY <1>0, <1>5, ReturnsAssumption DEF IInv, StagesOfKind, NoneBeforeCommit, EditorStage
<1>8. EditorSawIt'
  BY <1>0, <1>2, <1>4, <1>5 DEF IInv, EditorSawIt, StatusWasEarned, Existing
<1>9. StatusWasEarned'
  BY <1>0 DEF IInv, StatusWasEarned
<1> QED
  BY <1>6, <1>7, <1>8, <1>9 DEF IInv

\* The late write of a status: it stamps the return with what its editor's step adds.
LEMMA WriteKeeps ==
  ASSUME IInv, NEW m \in Editor, WriteStatus(m)
  PROVE  IInv'
<1> DEFINE q == edit[m].return
           s == edit[m].to
<1>1. /\ q \in Request /\ status[q] # "none" /\ s \in ValidTransitions[edit[m].from] /\ edit[m].from \in ReturnStatus
      /\ edit[m].from \in Stamp => edit[m].from \in stamps[q]
  BY DEF IInv, EditorSawIt, WriteStatus, TypeOK, Edit, Existing
<1>2. s \in ReturnStatus
  BY <1>1, Table
<1>3. /\ status' = [status EXCEPT ![q] = s]
      /\ stamps' = [stamps EXCEPT ![q] = @ \cup ({s} \cap Stamp)]
      /\ edit' = [edit EXCEPT ![m] = NoEdit]
      /\ pc' = [pc EXCEPT ![m] = "idle"]
      /\ UNCHANGED <<order, form, seen>>
  BY DEF WriteStatus, Goto
<1>4. \A x \in Request \cup Editor : pc'[x] = IF x = m THEN "idle" ELSE pc[x]
  BY <1>3 DEF IInv, TypeOK
<1>5. \A r \in Request : /\ status'[r] = IF r = q THEN s ELSE status[r]
                         /\ stamps'[r] = IF r = q THEN stamps[r] \cup ({s} \cap Stamp) ELSE stamps[r]
  BY <1>3 DEF IInv, TypeOK
<1>6. TypeOK'
  <2>1. NoEdit \in Edit
    BY DEF NoEdit, Edit, ReturnStatus
  <2>2. stamps' \in [Request -> SUBSET Stamp]
    BY <1>1, <1>3 DEF IInv, TypeOK
  <2> QED
    BY <1>1, <1>2, <1>3, <2>1, <2>2 DEF IInv, TypeOK, EditorStage, form
<1>7. StagesOfKind'
  BY <1>4, ReturnsAssumption DEF IInv, StagesOfKind, EditorStage
<1>8. NoneBeforeCommit'
  <2> SUFFICES ASSUME NEW r \in Request, pc'[r] \in {"idle"} \cup InTransaction
               PROVE  status'[r] = "none"
    BY DEF NoneBeforeCommit
  <2>1. pc[r] \in {"idle"} \cup InTransaction /\ status[r] = "none"
    BY <1>4, ReturnsAssumption DEF IInv, NoneBeforeCommit
  <2> QED
    BY <1>1, <1>5, <2>1
<1>9. EditorSawIt'
  <2> SUFFICES ASSUME NEW n \in Editor, pc'[n] = "checked"
               PROVE  /\ edit'[n].return \in Existing'
                      /\ edit'[n].to \in ValidTransitions[edit'[n].from]
                      /\ edit'[n].from \in Stamp => edit'[n].from \in stamps'[edit'[n].return]
    BY DEF EditorSawIt
  <2>1. n # m /\ pc[n] = "checked" /\ edit'[n] = edit[n]
    BY <1>3, <1>4 DEF IInv, TypeOK
  <2>2. Existing \subseteq Existing'
    BY <1>2, <1>5 DEF Existing, ReturnStatus
  <2> QED
    BY <1>5, <2>1, <2>2 DEF IInv, EditorSawIt, Existing
<1>10. StatusWasEarned'
  <2> SUFFICES ASSUME NEW r \in Request
               PROVE  /\ status'[r] \in Stamp => status'[r] \in stamps'[r]
                      /\ \A e \in stamps'[r] : Earlier[e] \subseteq stamps'[r]
    BY DEF StatusWasEarned
  <2>1. CASE r # q
    BY <1>5, <2>1 DEF IInv, StatusWasEarned
  <2>2. CASE r = q
    <3>1. status'[r] = s /\ stamps'[r] = stamps[q] \cup ({s} \cap Stamp)
      BY <1>5, <2>2
    <3>2. stamps[q] \subseteq Stamp /\ \A e \in stamps[q] : Earlier[e] \subseteq stamps[q]
      BY <1>1 DEF IInv, TypeOK, StatusWasEarned
    <3>3. s \in Stamp => Earlier[s] \subseteq stamps[q]
      BY <1>1, <3>2, Table DEF Earlier, Stamp
    <3> QED
      BY <3>1, <3>2, <3>3
  <2> QED
    BY <2>1, <2>2
<1> QED
  BY <1>6, <1>7, <1>8, <1>9, <1>10 DEF IInv

LEMMA StepKeeps == IInv /\ [Next]_vars => IInv'
<1> SUFFICES ASSUME IInv, [Next]_vars PROVE IInv'
  OBVIOUS
<1>1. CASE UNCHANGED vars
  BY <1>1 DEF vars, rows, form, IInv, TypeOK, StagesOfKind, NoneBeforeCommit, EditorSawIt,
              StatusWasEarned, Existing
<1>2. ASSUME NEW s \in OrderStatus, SetOrderStatus(s) PROVE IInv'
  BY <1>2 DEF SetOrderStatus, form, IInv, TypeOK, StagesOfKind, NoneBeforeCommit, EditorSawIt,
              StatusWasEarned, Existing
<1> QED
  BY <1>1, <1>2, RequestKeeps, CheckKeeps, WriteKeeps DEF Next

LEMMA Invariance == Spec => []IInv
BY InitEstablishes, StepKeeps, PTL DEF Spec

\* Every variable has its type in every reachable state.
THEOREM TypeCorrect == Spec => []TypeOK
<1>1. IInv => TypeOK
  BY DEF IInv
<1> QED
  BY <1>1, Invariance, PTL

\* Whatever was refunded was received and inspected before, although updateStatus
\* writes what it decided on an older row.
THEOREM RefundsAreEarned == Spec => []StatusWasEarned
<1>1. IInv => StatusWasEarned
  BY DEF IInv
<1> QED
  BY <1>1, Invariance, PTL

\* The table of updateStatus is left only by an editor whose row is stale.
THEOREM OnlyStaleEditorsLeaveTheTable == Spec => StepsFollowTable
<1>1. IInv /\ [Next]_vars =>
        [\A q \in Request : status[q] # "none" /\ status'[q] # status[q] =>
           \/ status'[q] \in ValidTransitions[status[q]]
           \/ \E m \in Editor : edit[m].return = q /\ edit[m].from # status[q]]_vars
  <2> SUFFICES ASSUME IInv, Next, NEW q \in Request, status[q] # "none", status'[q] # status[q]
               PROVE  \/ status'[q] \in ValidTransitions[status[q]]
                      \/ \E m \in Editor : edit[m].return = q /\ edit[m].from # status[q]
    OBVIOUS
  <2>1. ASSUME NEW r \in Request, Begin(r) \/ RequestStep(r) \/ Abort(r)
        PROVE  FALSE
    BY <2>1 DEF Begin, RequestStep, ReadOrder, SumReturned, InsertReturn, Abort, rows,
                IInv, TypeOK, NoneBeforeCommit, InTransaction
  <2>2. ASSUME NEW m \in Editor, WriteStatus(m)
        PROVE  \/ status'[q] \in ValidTransitions[status[q]]
               \/ \E n \in Editor : edit[n].return = q /\ edit[n].from # status[q]
    <3>1. edit[m].return = q /\ status'[q] = edit[m].to
      BY <2>2 DEF WriteStatus, IInv, TypeOK
    <3>2. edit[m].to \in ValidTransitions[edit[m].from]
      BY <2>2 DEF WriteStatus, IInv, EditorSawIt
    <3> QED
      BY <3>1, <3>2
  <2>3. ASSUME NEW m \in Editor, CheckTransition(m)
        PROVE  FALSE
    BY <2>3 DEF CheckTransition, rows
  <2>4. ASSUME NEW s \in OrderStatus, SetOrderStatus(s)
        PROVE  FALSE
    BY <2>4 DEF SetOrderStatus
  <2> QED
    BY <2>1, <2>2, <2>3, <2>4 DEF Next
<1> QED
  BY <1>1, Invariance, PTL DEF Spec, StepsFollowTable

-----------------------------------------------------------------------------
\* What is returned in all

\* A request adds up returns that exist and stay.
SeenExist == \A q \in Request : seen[q] \subseteq Existing

\* What a request validated is still so, since what it saw never changes.
ValidatedWithin == \A q \in Request : pc[q] = "validated" => WithinBought(q, seen[q])

SInv == SeenExist /\ ValidatedWithin /\ OverReturnNeedsOverlap

LEMMA BasketsAreFinite ==
  ASSUME TypeOK, NEW q \in Request
  PROVE  /\ IsFiniteSet(DOMAIN basket[q])
         /\ \A n \in DOMAIN basket[q] : basket[q][n] \in Line
<1>1. basket[q] \in Seq(Line)
  BY ReturnsAssumption DEF TypeOK
<1>2. DOMAIN basket[q] = 1 .. Len(basket[q]) /\ Len(basket[q]) \in Nat
  BY <1>1
<1>3. IsFiniteSet(1 .. Len(basket[q]))
  BY <1>2, FS_Interval
<1>4. \A n \in 1 .. Len(basket[q]) : basket[q][n] \in Line
  BY <1>1, ElementOfSeq
<1> QED
  BY <1>2, <1>3, <1>4

LEMMA AskedIsNat ==
  ASSUME TypeOK, NEW q \in Request, NEW i
  PROVE  Asked(q, i) \in Nat
<1> DEFINE f == [n \in DOMAIN basket[q] |-> basket[q][n].quantity]
           N == {n \in DOMAIN basket[q] : basket[q][n].item = i}
<1>1. IsFiniteSet(N) /\ Counts(f, N)
  BY BasketsAreFinite, FS_Subset DEF Counts, Line
<1> QED
  BY <1>1, SumIsNat DEF Asked

\* A basket that asks for an item without repeating it has one line of it.
LEMMA AskedInOneLine ==
  ASSUME TypeOK, NEW q \in Request, NEW i, Asked(q, i) > 0, ~Repeats(q, i)
  PROVE  \E n \in DOMAIN basket[q] :
           basket[q][n].item = i /\ Asked(q, i) = basket[q][n].quantity
<1> DEFINE f == [n \in DOMAIN basket[q] |-> basket[q][n].quantity]
           N == {n \in DOMAIN basket[q] : basket[q][n].item = i}
<1>1. N # {}
  BY SumOfEmpty DEF Asked
<1>2. PICK n \in DOMAIN basket[q] : basket[q][n].item = i
  BY <1>1
<1>3. N = {n}
  BY <1>2 DEF Repeats
<1>4. f[n] = basket[q][n].quantity /\ f[n] \in Nat
  BY BasketsAreFinite DEF Line
<1>5. Asked(q, i) = f[n]
  BY <1>3, <1>4, SumOfOne DEF Asked
<1> QED
  BY <1>2, <1>4, <1>5

\* One return more adds what its basket asks for.
LEMMA ReturnedAddsOne ==
  ASSUME TypeOK, NEW R \in SUBSET Request, NEW q \in Request, q \notin R, NEW i
  PROVE  /\ Returned(R, i) \in Nat
         /\ Returned(R \cup {q}, i) = Returned(R, i) + Asked(q, i)
<1> DEFINE A == [r \in Request |-> Asked(r, i)]
<1>1. IsFiniteSet(R) /\ Counts(A, R \cup {q}) /\ Counts(A, R)
  BY AskedIsNat, ReturnsAssumption, FS_Subset DEF Counts
<1>2. SumOver(A, R \cup {q}) = SumOver(A, R) + A[q] /\ SumOver(A, R) \in Nat
  BY <1>1, SumAddsOne, SumIsNat
<1> QED
  BY <1>2 DEF Returned

\* Returns without the item can be left out.
LEMMA ReturnedIgnoresOthers ==
  ASSUME TypeOK, NEW R \in SUBSET Request, NEW T \in SUBSET R, NEW i,
         \A r \in R : Asked(r, i) > 0 => r \in T
  PROVE  Returned(R, i) = Returned(T, i)
<1> DEFINE A == [r \in Request |-> Asked(r, i)]
<1>1. IsFiniteSet(R) /\ Counts(A, R)
  BY AskedIsNat, ReturnsAssumption, FS_Subset DEF Counts
<1>2. \A r \in R \ T : A[r] = 0
  BY AskedIsNat
<1>3. SumOver(A, R) = SumOver(A, T)
  BY <1>1, <1>2, SumIgnoresZeros
<1> QED
  BY <1>3 DEF Returned

\* Baskets are fixed, so what was asked for and added up stays the same.
LEMMA SumsStay ==
  ASSUME basket' = basket
  PROVE  /\ \A q, i : Asked(q, i)' = Asked(q, i) /\ (Repeats(q, i))' = Repeats(q, i)
         /\ \A R, i : (Returned(R, i))' = Returned(R, i)
         /\ \A q, R : (WithinBought(q, R))' = WithinBought(q, R)
BY DEF Asked, Repeats, Returned, WithinBought

\* The return being inserted is the last one, so whoever asked for the item too
\* and was not seen is one it overlapped with.
LEMMA InsertKeepsBought ==
  ASSUME IInv, SInv, NEW q \in Request, InsertReturn(q)
  PROVE  OverReturnNeedsOverlap'
<1>1. /\ pc[q] = "validated" /\ basket' = basket /\ seen' = seen
      /\ status' = [status EXCEPT ![q] = "requested"]
  BY DEF InsertReturn, form
<1>2. q \notin Existing /\ Existing' = Existing \cup {q} /\ Existing \subseteq Request
  BY <1>1 DEF IInv, TypeOK, NoneBeforeCommit, InTransaction, Existing
<1> SUFFICES ASSUME NEW i \in Item, Returned(Existing', i) > Bought[i]
             PROVE  \E r, s \in Existing' :
                      /\ Asked(r, i) > 0 /\ Asked(s, i) > 0
                      /\ IF r = s THEN Repeats(r, i) ELSE Overlapped(r, s)
  BY <1>1, SumsStay DEF OverReturnNeedsOverlap, Overlapped
<1>3. TypeOK
  BY DEF IInv
<1>4. /\ Returned(Existing', i) = Returned(Existing, i) + Asked(q, i)
      /\ Asked(q, i) \in Nat /\ Returned(Existing, i) \in Nat /\ Bought[i] \in Nat
  BY <1>2, <1>3, ReturnedAddsOne, AskedIsNat, ReturnsAssumption
<1>5. CASE Returned(Existing, i) > Bought[i]
  BY <1>2, <1>5 DEF SInv, OverReturnNeedsOverlap
<1>6. CASE ~(Returned(Existing, i) > Bought[i])
  <2>1. Asked(q, i) > 0
    BY <1>4, <1>6
  <2> SUFFICES ASSUME ~Repeats(q, i),
                      \A r \in Existing : Asked(r, i) > 0 => ~Overlapped(q, r)
               PROVE  FALSE
    BY <1>2, <2>1
  <2>2. \A r \in Existing : q \notin seen[r]
    BY <1>2 DEF SInv, SeenExist
  <2>3. \A r \in Existing : Asked(r, i) > 0 => r \in seen[q]
    BY <2>2 DEF Overlapped
  <2>4. Returned(Existing, i) = Returned(seen[q], i)
    BY <1>2, <1>3, <2>3, ReturnedIgnoresOthers DEF SInv, SeenExist
  <2>5. PICK n \in DOMAIN basket[q] :
          basket[q][n].item = i /\ Asked(q, i) = basket[q][n].quantity
    BY <1>3, <2>1, AskedInOneLine
  <2>6. WithinBought(q, seen[q])
    BY <1>1 DEF SInv, ValidatedWithin
  <2>7. Returned(seen[q], i) + Asked(q, i) <= Bought[i]
    BY <2>5, <2>6 DEF WithinBought
  <2> QED
    BY <1>4, <2>4, <2>7
<1> QED
  BY <1>5, <1>6

\* Every other step leaves the set of returns, and what they saw, as it is.
LEMMA OthersKeepBought ==
  ASSUME SInv, basket' = basket, Existing' = Existing, \A r \in Existing : seen'[r] = seen[r]
  PROVE  OverReturnNeedsOverlap'
BY SumsStay DEF SInv, OverReturnNeedsOverlap, Overlapped

LEMMA BoughtStepKeeps == IInv /\ SInv /\ [Next]_vars => SInv'
<1> USE DEF form
<1> SUFFICES ASSUME IInv, SInv, [Next]_vars PROVE SInv'
  OBVIOUS
<1>1. CASE UNCHANGED vars
  <2>1. UNCHANGED <<form, seen, status, pc>>
    BY <1>1 DEF vars, rows
  <2> QED
    BY <2>1, SumsStay, OthersKeepBought DEF SInv, SeenExist, ValidatedWithin, Existing
<1>2. ASSUME NEW q \in Request, Begin(q) \/ ReadOrder(q) \/ Abort(q) PROVE SInv'
  <2>1. /\ UNCHANGED <<rows, form, seen>>
        /\ \A r \in Request : pc'[r] = "validated" => pc[r] = "validated"
    BY <1>2 DEF Begin, ReadOrder, Abort, Goto, IInv, TypeOK
  <2> QED
    BY <2>1, SumsStay, OthersKeepBought DEF rows, SInv, SeenExist, ValidatedWithin, Existing
<1>3. ASSUME NEW q \in Request, SumReturned(q) PROVE SInv'
  <2>1. /\ UNCHANGED <<rows, form>>
        /\ \A r \in Request : seen'[r] = IF r = q THEN Existing ELSE seen[r]
        /\ \A r \in Request : pc'[r] = "validated" =>
             IF r = q THEN WithinBought(q, Existing) ELSE pc[r] = "validated"
        /\ pc[q] = "ordered"
    BY <1>3 DEF SumReturned, Goto, IInv, TypeOK
  <2>2. Existing' = Existing /\ q \notin Existing /\ Existing \subseteq Request
    BY <2>1 DEF rows, Existing, IInv, NoneBeforeCommit, InTransaction
  <2>3. ValidatedWithin'
    BY <2>1, SumsStay DEF SInv, ValidatedWithin
  <2> QED
    BY <2>1, <2>2, <2>3, OthersKeepBought DEF SInv, SeenExist
<1>4. ASSUME NEW q \in Request, InsertReturn(q) PROVE SInv'
  <2>1. /\ UNCHANGED <<form, seen>> /\ Existing \subseteq Existing'
        /\ \A r \in Request : pc'[r] = "validated" => pc[r] = "validated"
    BY <1>4 DEF InsertReturn, Goto, IInv, TypeOK, Existing
  <2> QED
    BY <1>4, <2>1, SumsStay, InsertKeepsBought DEF SInv, SeenExist, ValidatedWithin
<1>5. ASSUME NEW m \in Editor, CheckTransition(m) \/ WriteStatus(m) PROVE SInv'
  <2>1. /\ UNCHANGED <<form, seen>>
        /\ \A r \in Request : pc'[r] = "validated" => pc[r] = "validated"
    BY <1>5 DEF CheckTransition, WriteStatus, Goto, IInv, TypeOK
  <2>2. Existing' = Existing
    <3>1. CASE CheckTransition(m)
      BY <3>1 DEF CheckTransition, rows, Existing
    <3>2. CASE WriteStatus(m)
      <4>1. /\ edit[m].return \in Existing /\ edit[m].from \in ReturnStatus
            /\ edit[m].to \in ValidTransitions[edit[m].from]
        BY <3>2 DEF WriteStatus, IInv, EditorSawIt, TypeOK, Edit
      <4>2. edit[m].to # "none"
        BY <4>1, Table DEF ReturnStatus
      <4> QED
        BY <3>2, <4>1, <4>2 DEF WriteStatus, IInv, TypeOK, Existing
    <3> QED
      BY <1>5, <3>1, <3>2
  <2> QED
    BY <2>1, <2>2, SumsStay, OthersKeepBought DEF SInv, SeenExist, ValidatedWithin
<1>6. ASSUME NEW s \in OrderStatus, SetOrderStatus(s) PROVE SInv'
  <2>1. UNCHANGED <<form, seen, status, pc>>
    BY <1>6 DEF SetOrderStatus
  <2> QED
    BY <2>1, SumsStay, OthersKeepBought DEF SInv, SeenExist, ValidatedWithin, Existing
<1> QED
  BY <1>1, <1>2, <1>3, <1>4, <1>5, <1>6 DEF Next, RequestStep

\* More of an item is returned than was bought only if two of its returns did not
\* see each other or one of them names the item twice: what createReturn adds up
\* is enough for requests one after the other.
THEOREM OverReturnsOverlap == Spec => []OverReturnNeedsOverlap
<1>1. Init => SInv
  <2> SUFFICES ASSUME Init PROVE SInv
    OBVIOUS
  <2>1. Existing = {} /\ (\A q \in Request : seen[q] = {} /\ pc[q] = "idle")
    BY DEF Init, Existing
  <2>2. \A i \in Item : Returned(Existing, i) = 0 /\ Bought[i] \in Nat
    BY <2>1, SumOfEmpty, ReturnsAssumption DEF Returned
  <2> QED
    BY <2>1, <2>2 DEF SInv, SeenExist, ValidatedWithin, OverReturnNeedsOverlap
<1>2. SInv => OverReturnNeedsOverlap
  BY DEF SInv
<1> QED
  BY <1>1, <1>2, BoughtStepKeeps, Invariance, PTL DEF Spec
=============================================================================
