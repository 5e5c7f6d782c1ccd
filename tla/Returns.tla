------------------------------- MODULE Returns -------------------------------
(***************************************************************************)
(* The returns of one order: customers ask for them, merchants decide.       *)
(*                                                                         *)
(*   modules/return/return.service.ts   createReturn, updateStatus         *)
(*   modules/return/return.repo.ts      create, createItem, updateStatus   *)
(*   modules/order/order.service.ts     updateStatus, of the order         *)
(*   db/index.ts                        the postgres.js pool               *)
(*                                                                         *)
(* createReturn runs inside db.transaction but looks the order up on another *)
(* connection.  It locks nothing: what it sums up may have grown by the time *)
(* it commits.  OrderLifecycle has the detail of the order's own status.     *)
(***************************************************************************)
EXTENDS Naturals, FiniteSets, Sequences, Sums

CONSTANTS
  Request,       \* POST /customer/returns, each handled once; also its return
  Editor,        \* merchant sessions changing the status of returns
  Item,          \* the order's items
  Bought,        \* the quantity of each item
  Baskets,       \* item lists a customer may send
  PoolSizes,     \* values of DB_POOL_SIZE, the max of the pool in db/index.ts
  Nobody         \* no return

Line == [item : Item, quantity : Nat \ {0}]
OrderStatus == {"shipped", "delivered", "cancelled"}
ReturnStatus == {"requested", "approved", "received", "inspected",
                 "refunded", "rejected", "cancelled"}

ASSUME ReturnsAssumption ==
  /\ IsFiniteSet(Request)
  /\ Request \cap Editor = {}
  /\ Nobody \notin Request
  /\ Bought \in [Item -> Nat \ {0}]
  /\ Baskets \subseteq Seq(Line) \ {<<>>}
  /\ PoolSizes \subseteq Nat \ {0}

VARIABLES
  order,      \* the status of the order, as createReturn reads it
  status,     \* of the committed return of each request, "none" without one
  stamps,     \* which of receivedAt, inspectedAt, refundedAt are set
  pc,         \* where each request and each editor is
  basket,     \* what each request will ask for, fixed from the start
  pool,       \* the connections of the pool, fixed from the start
  seen,       \* the returns each request has added up
  edit        \* the return each editor looked at, its status then, the new one

rows == <<order, status, stamps>>
form == <<basket, pool>>
vars == <<rows, pc, form, seen, edit>>

Stamp == {"received", "inspected", "refunded"}
Edit == [return : Request \cup {Nobody}, from : ReturnStatus, to : ReturnStatus]
NoEdit == [return |-> Nobody, from |-> "requested", to |-> "requested"]

InTransaction == {"begun", "ordered", "validated"}
Ended == {"done", "failed"}
RequestStage == {"idle"} \cup InTransaction \cup Ended
EditorStage == {"idle", "checked"}

-----------------------------------------------------------------------------
\* Helpers

Goto(x, stage) == pc' = [pc EXCEPT ![x] = stage]

\* Broken: the connection of the lookup is kept as well.
FreeConnectionOfTwo ==
  2 * Cardinality({q \in Request : pc[q] \in InTransaction}) < pool

\* A transaction keeps its connection until it ends.
FreeConnection == Cardinality({q \in Request : pc[q] \in InTransaction}) < pool

Existing == {q \in Request : status[q] # "none"}

Asked(q, i) ==
  SumOver([n \in DOMAIN basket[q] |-> basket[q][n].quantity],
          {n \in DOMAIN basket[q] : basket[q][n].item = i})

Returned(returns, i) == SumOver([q \in Request |-> Asked(q, i)], returns)

\* Broken: the returns made so far are left out.
WithinBoughtAlone(q, returns) ==
  \A n \in DOMAIN basket[q] : basket[q][n].quantity <= Bought[basket[q][n].item]

\* C3: every line on its own, against all returns whatever their status.
WithinBought(q, returns) ==
  \A n \in DOMAIN basket[q] :
    LET line == basket[q][n] IN
      Returned(returns, line.item) + line.quantity <= Bought[line.item]

\* Broken: an approved return is inspected without having been received.
ShorterTransitions ==
  [s \in ReturnStatus |->
     IF s = "requested" THEN {"approved", "rejected", "cancelled"}
     ELSE IF s = "approved" THEN {"received", "inspected", "cancelled"}
     ELSE IF s = "received" THEN {"inspected"}
     ELSE IF s = "inspected" THEN {"refunded", "rejected"}
     ELSE {}]

ValidTransitions ==
  [s \in ReturnStatus |->
     IF s = "requested" THEN {"approved", "rejected", "cancelled"}
     ELSE IF s = "approved" THEN {"received", "cancelled"}
     ELSE IF s = "received" THEN {"inspected"}
     ELSE IF s = "inspected" THEN {"refunded", "rejected"}
     ELSE {}]

-----------------------------------------------------------------------------
Init ==
  /\ order \in {"shipped", "delivered"}
  /\ status = [q \in Request |-> "none"]
  /\ stamps = [q \in Request |-> {}]
  /\ pc = [x \in Request \cup Editor |-> "idle"]
  /\ basket \in [Request -> Baskets]
  /\ pool \in PoolSizes
  /\ seen = [q \in Request |-> {}]
  /\ edit = [m \in Editor |-> NoEdit]

-----------------------------------------------------------------------------
\* createReturn

Begin(q) ==
  /\ pc[q] = "idle"
  /\ FreeConnection
  /\ Goto(q, "begun")
  /\ UNCHANGED <<rows, form, seen, edit>>

\* orderRepo.findById is not given the transaction and needs a connection too.
ReadOrder(q) ==
  /\ pc[q] = "begun"
  /\ FreeConnection
  /\ Goto(q, IF order = "delivered" THEN "ordered" ELSE "failed")
  /\ UNCHANGED <<rows, form, seen, edit>>

\* The order's returns and the items of each, which never change.
SumReturned(q) ==
  /\ pc[q] = "ordered"
  /\ seen' = [seen EXCEPT ![q] = Existing]
  /\ Goto(q, IF WithinBought(q, Existing) THEN "validated" ELSE "failed")
  /\ UNCHANGED <<rows, form, edit>>

\* The inserts of the return and its items, and COMMIT.
InsertReturn(q) ==
  /\ pc[q] = "validated"
  /\ status' = [status EXCEPT ![q] = "requested"]
  /\ Goto(q, "done")
  /\ UNCHANGED <<order, stamps, form, seen, edit>>

\* The request is cut short, and its transaction with it.
Abort(q) ==
  /\ pc[q] \in InTransaction
  /\ Goto(q, "failed")
  /\ UNCHANGED <<rows, form, seen, edit>>

-----------------------------------------------------------------------------
\* updateStatus

\* Broken: the table is not consulted.
CheckNothing(m) ==
  /\ pc[m] = "idle"
  /\ FreeConnection
  /\ \E q \in Existing, s \in ReturnStatus :
       edit' = [edit EXCEPT ![m] = [return |-> q, from |-> status[q], to |-> s]]
  /\ Goto(m, "checked")
  /\ UNCHANGED <<rows, form, seen>>

\* findById and the table of transitions; one it does not allow is answered
\* with RETURN_INVALID_STATUS and nothing happens.
CheckTransition(m) ==
  /\ pc[m] = "idle"
  /\ FreeConnection
  /\ \E q \in Existing : \E s \in ValidTransitions[status[q]] :
       edit' = [edit EXCEPT ![m] = [return |-> q, from |-> status[q], to |-> s]]
  /\ Goto(m, "checked")
  /\ UNCHANGED <<rows, form, seen>>

\* Broken: every status reached gets a timestamp.
WriteStatusStamped(m) ==
  /\ pc[m] = "checked"
  /\ FreeConnection
  /\ status' = [status EXCEPT ![edit[m].return] = edit[m].to]
  /\ stamps' = [stamps EXCEPT ![edit[m].return] = @ \cup {edit[m].to}]
  /\ edit' = [edit EXCEPT ![m] = NoEdit]
  /\ Goto(m, "idle")
  /\ UNCHANGED <<order, form, seen>>

\* UPDATE returns SET status WHERE id: whatever the status is by now.
WriteStatus(m) ==
  /\ pc[m] = "checked"
  /\ FreeConnection
  /\ status' = [status EXCEPT ![edit[m].return] = edit[m].to]
  /\ stamps' = [stamps EXCEPT ![edit[m].return] = @ \cup ({edit[m].to} \cap Stamp)]
  /\ edit' = [edit EXCEPT ![m] = NoEdit]
  /\ Goto(m, "idle")
  /\ UNCHANGED <<order, form, seen>>

\* The merchant changes the order's status; a delivered order is fulfilled and
\* is not cancelled, a cancelled one stays so.
SetOrderStatus(s) ==
  /\ order # "cancelled"
  /\ ~(s = "cancelled" /\ order = "delivered")
  /\ order' = s
  /\ UNCHANGED <<status, stamps, pc, form, seen, edit>>

-----------------------------------------------------------------------------
RequestStep(q) == ReadOrder(q) \/ SumReturned(q) \/ InsertReturn(q)

Next ==
  \/ \E q \in Request : Begin(q) \/ RequestStep(q) \/ Abort(q)
  \/ \E m \in Editor : CheckTransition(m) \/ WriteStatus(m)
  \/ \E s \in OrderStatus : SetOrderStatus(s)

Spec == Init /\ [][Next]_vars

\* A request that has its connection goes on.  Merchants may never act.
FairSpec == Spec /\ \A q \in Request : WF_vars(RequestStep(q))
-----------------------------------------------------------------------------
\* Correctness

TypeOK ==
  /\ order \in OrderStatus
  /\ status \in [Request -> ReturnStatus \cup {"none"}]
  /\ stamps \in [Request -> SUBSET Stamp]
  /\ pc \in [Request \cup Editor -> RequestStage \cup EditorStage]
  /\ basket \in [Request -> Baskets] /\ pool \in PoolSizes
  /\ seen \in [Request -> SUBSET Request]
  /\ edit \in [Editor -> Edit]

Repeats(q, i) ==
  \E m, n \in DOMAIN basket[q] : m # n /\ basket[q][m].item = i /\ basket[q][n].item = i

Overlapped(q, r) == q \notin seen[r] /\ r \notin seen[q]

(* What createReturn validates, as far as it holds: more of an item is       *)
(* returned than was bought only if two of its returns were made without     *)
(* seeing each other, or one of them names the item twice.                   *)
OverReturnNeedsOverlap ==
  \A i \in Item : Returned(Existing, i) > Bought[i] =>
    \E q, r \in Existing :
      /\ Asked(q, i) > 0 /\ Asked(r, i) > 0
      /\ IF q = r THEN Repeats(q, i) ELSE Overlapped(q, r)

Earlier == [received |-> {}, inspected |-> {"received"},
            refunded |-> {"received", "inspected"}]

(* A return that says received, inspected or refunded has been, and whatever *)
(* was refunded was received and inspected first, however late the statuses  *)
(* decided on older rows are written.                                        *)
StatusWasEarned ==
  \A q \in Request :
    /\ status[q] \in Stamp => status[q] \in stamps[q]
    /\ \A s \in stamps[q] : Earlier[s] \subseteq stamps[q]

(* A status leaves the table of transitions, a decided return included, only *)
(* by the hand of an editor who looked at the return before its last change. *)
StepsFollowTable ==
  [][\A q \in Request : status[q] # "none" /\ status'[q] # status[q] =>
       \/ status'[q] \in ValidTransitions[status[q]]
       \/ \E m \in Editor : edit[m].return = q /\ edit[m].from # status[q]]_vars

\* Every connection is held by a request that waits for its second one.
Exhausted == Cardinality({q \in Request : pc[q] = "begun"}) >= pool

(* A request that holds a connection is answered, however full the pool is,  *)
(* unless all who hold one come to wait for a second: one that has looked    *)
(* its order up lets the others on.                                          *)
ReturnsEndUnlessExhausted ==
  \A q \in Request : pc[q] \in InTransaction ~> pc[q] \in Ended \/ Exhausted
=============================================================================
