------------------------------- MODULE PosSale -------------------------------
(***************************************************************************)
(* Point-of-sale orders over shared stock and a shared connection pool.      *)
(*                                                                         *)
(*   modules/pos/pos.service.ts   createPosOrder                           *)
(*   modules/pos/pos.repo.ts      decrementInventory, generateOrderNumber, *)
(*                                createOrder                              *)
(*   db/index.ts                  the postgres.js pool                     *)
(*                                                                         *)
(* A sale runs inside db.transaction, which reserves a pooled connection     *)
(* until it ends, and waits for one while all are taken.  A stock row is a   *)
(* product or a variant option: createPosOrder treats them alike.            *)
(***************************************************************************)
EXTENDS Naturals, FiniteSets, Sequences, Sums

CONSTANTS
  Sale,          \* POST /pos/orders requests, each handled once
  Row,           \* products and variant options
  Options,       \* the rows that are variant options
  Baskets,       \* item lists a cashier may send, in the order sent
  Quantities,    \* what a merchant may enter as a row's quantity
  NoOne,         \* a row lock nobody holds
  PoolSize,      \* max of the pool in db/index.ts
  MaxRetries     \* MAX_RETRIES of generateOrderNumber

Item == [row : Row, quantity : Nat \ {0}]

ASSUME PosAssumption ==
  /\ IsFiniteSet(Sale)
  /\ NoOne \notin Sale
  /\ Options \subseteq Row
  /\ Baskets \subseteq Seq(Item) \ {<<>>}
  /\ Quantities \subseteq Nat
  /\ PoolSize \in Nat \ {0}
  /\ MaxRetries \in Nat \ {0}

VARIABLES
  stock,    \* committed quantity of every row
  sold,     \* sales whose order is committed
  rowLock,  \* the transaction that updated the row and has not ended
  pc,       \* where each sale is
  basket,   \* what each sale will ask for, fixed from the start
  next,     \* the item each sale decrements next
  taken,    \* its decrements so far, not yet committed
  tries     \* order numbers it found in use so far

saleVars == <<next, taken, tries>>
vars == <<stock, sold, rowLock, pc, basket, saleVars>>

Transaction == {"reading", "decrementing", "numbering", "numbered"}
Ended == {"done", "failed"}
Stage == {"idle", "waiting"} \cup Transaction \cup Ended

Nothing == [w \in Row |-> 0]

-----------------------------------------------------------------------------
\* Helpers

\* postgres.js hands a reserved connection to no other query.
FreeConnection ==
  Cardinality({s \in Sale : pc[s] \in Transaction}) < PoolSize

CurrentItem(s) == basket[s][next[s]]

WaitsFor(s, t) ==
  /\ pc[s] = "decrementing"
  /\ s # t
  /\ rowLock[CurrentItem(s).row] = t

Blocked == {s \in Sale : \E t \in Sale : WaitsFor(s, t)}

\* A sale waits for one row at a time, so blocked sales that are all waited for
\* among themselves form cycles.
OnCycle(s) ==
  \E cycle \in SUBSET Blocked :
    s \in cycle /\ \A t \in cycle : \E u \in cycle : WaitsFor(u, t)

Goto(s, stage) == pc' = [pc EXCEPT ![s] = stage]

EndTransaction(s) ==
  /\ rowLock' = [w \in Row |-> IF rowLock[w] = s THEN NoOne ELSE rowLock[w]]
  /\ next' = [next EXCEPT ![s] = 1]
  /\ taken' = [taken EXCEPT ![s] = Nothing]
  /\ tries' = [tries EXCEPT ![s] = 0]

\* A throw inside db.transaction.
Rollback(s) ==
  /\ Goto(s, "failed")
  /\ EndTransaction(s)
  /\ UNCHANGED <<stock, sold, basket>>

-----------------------------------------------------------------------------
Init ==
  /\ stock \in [Row -> Quantities]
  /\ sold = {}
  /\ rowLock = [w \in Row |-> NoOne]
  /\ pc = [s \in Sale |-> "idle"]
  /\ basket \in [Sale -> Baskets]
  /\ next = [s \in Sale |-> 1]
  /\ taken = [s \in Sale |-> Nothing]
  /\ tries = [s \in Sale |-> 0]

\* POST /api/v1/merchant/pos/orders: db.transaction asks for a connection.
Request(s) ==
  /\ pc[s] = "idle"
  /\ Goto(s, "waiting")
  /\ UNCHANGED <<stock, sold, rowLock, basket, saleVars>>

Begin(s) ==
  /\ pc[s] = "waiting"
  /\ FreeConnection
  /\ Goto(s, "reading")
  /\ UNCHANGED <<stock, sold, rowLock, basket, saleVars>>

\* One query reads the store's products; every item is then compared, on its
\* own, with what that query returned.
CheckStock(s) ==
  /\ pc[s] = "reading"
  /\ IF \A i \in DOMAIN basket[s] : basket[s][i].quantity <= stock[basket[s][i].row]
       THEN /\ Goto(s, "decrementing")
            /\ UNCHANGED <<stock, sold, rowLock, basket, saleVars>>
       ELSE Rollback(s)

\* Broken: the UPDATE trusts CheckStock and has no WHERE quantity >= $qty.
DecrementUnguarded(s) ==
  /\ pc[s] = "decrementing"
  /\ LET item == CurrentItem(s) IN
       /\ rowLock[item.row] \in {s, NoOne}
       /\ rowLock' = [rowLock EXCEPT ![item.row] = s]
       /\ taken' = [taken EXCEPT ![s][item.row] = @ + item.quantity]
       /\ IF next[s] = Len(basket[s])
            THEN Goto(s, "numbering") /\ UNCHANGED next
            ELSE next' = [next EXCEPT ![s] = @ + 1] /\ UNCHANGED pc
       /\ UNCHANGED <<stock, sold, basket, tries>>

\* Broken: the UPDATE runs with db, not tx, and is committed at once.
DecrementAtOnce(s) ==
  /\ pc[s] = "decrementing"
  /\ LET item == CurrentItem(s) IN
       /\ rowLock[item.row] = NoOne
       /\ IF item.quantity <= stock[item.row]
            THEN /\ stock' = [stock EXCEPT ![item.row] = @ - item.quantity]
                 /\ IF next[s] = Len(basket[s])
                      THEN Goto(s, "numbering") /\ UNCHANGED next
                      ELSE next' = [next EXCEPT ![s] = @ + 1] /\ UNCHANGED pc
                 /\ UNCHANGED <<sold, rowLock, basket, taken, tries>>
            ELSE Rollback(s)

\* decrementInventory on the next item: UPDATE ... WHERE quantity >= $qty,
\* once the row's lock is free.  No row updated means INSUFFICIENT_INVENTORY.
Decrement(s) ==
  /\ pc[s] = "decrementing"
  /\ LET item == CurrentItem(s) IN
       /\ rowLock[item.row] \in {s, NoOne}
       /\ IF taken[s][item.row] + item.quantity <= stock[item.row]
            THEN /\ rowLock' = [rowLock EXCEPT ![item.row] = s]
                 /\ taken' = [taken EXCEPT ![s][item.row] = @ + item.quantity]
                 /\ IF next[s] = Len(basket[s])
                      THEN Goto(s, "numbering") /\ UNCHANGED next
                      ELSE next' = [next EXCEPT ![s] = @ + 1] /\ UNCHANGED pc
                 /\ UNCHANGED <<stock, sold, basket, tries>>
            ELSE Rollback(s)

\* generateOrderNumber looks the number up with db, not tx: the query needs a
\* second connection while the transaction keeps its own.
PickNumber(s) ==
  /\ pc[s] = "numbering"
  /\ FreeConnection
  /\ Goto(s, "numbered")
  /\ tries' = [tries EXCEPT ![s] = 0]
  /\ UNCHANGED <<stock, sold, rowLock, basket, next, taken>>

\* Broken: the last number is not recognised as the last.
NumberInUseOffByOne(s) ==
  /\ pc[s] = "numbering"
  /\ FreeConnection
  /\ IF tries[s] = MaxRetries
       THEN Rollback(s)
       ELSE /\ tries' = [tries EXCEPT ![s] = @ + 1]
            /\ UNCHANGED <<stock, sold, rowLock, pc, basket, next, taken>>

\* Broken: the count of attempts starts over instead of ending the loop.
NumberInUseForEver(s) ==
  /\ pc[s] = "numbering"
  /\ FreeConnection
  /\ tries' = [tries EXCEPT ![s] = (@ + 1) % MaxRetries]
  /\ UNCHANGED <<stock, sold, rowLock, pc, basket, next, taken>>

\* ... and finds it in use.  After MaxRetries numbers it throws.
NumberInUse(s) ==
  /\ pc[s] = "numbering"
  /\ FreeConnection
  /\ IF tries[s] + 1 = MaxRetries
       THEN Rollback(s)
       ELSE /\ tries' = [tries EXCEPT ![s] = @ + 1]
            /\ UNCHANGED <<stock, sold, rowLock, pc, basket, next, taken>>

HasOption(s) == \E n \in DOMAIN basket[s] : basket[s][n].row \in Options

\* The order is inserted, 'completed' and 'paid', then its items.  The id of a
\* variant option goes into order_items.variant_id, whose foreign key wants a
\* variant combination: PostgreSQL refuses it.
RefuseOption(s) ==
  /\ pc[s] = "numbered"
  /\ HasOption(s)
  /\ Rollback(s)

\* Items that are plain products are inserted, and the transaction commits.
Commit(s) ==
  /\ pc[s] = "numbered"
  /\ ~HasOption(s)
  /\ stock' = [w \in Row |-> stock[w] - taken[s][w]]
  /\ sold' = sold \cup {s}
  /\ Goto(s, "done")
  /\ EndTransaction(s)
  /\ UNCHANGED basket

\* PostgreSQL finds a cycle of row locks and cancels one of its transactions.
DeadlockDetected(s) ==
  /\ OnCycle(s)
  /\ Rollback(s)

\* A lost connection, a crash of the process, a product that is not there, or
\* the unique index on order_number.
Abort(s) ==
  /\ pc[s] \in {"waiting"} \cup Transaction
  /\ Rollback(s)

\* productService.update, product import and order cancellation: one UPDATE of
\* the row, which waits for its lock.
SetStock(w, n) ==
  /\ rowLock[w] = NoOne
  /\ stock' = [stock EXCEPT ![w] = n]
  /\ UNCHANGED <<sold, rowLock, pc, basket, saleVars>>

-----------------------------------------------------------------------------
Step(s) ==
  \/ Begin(s)
  \/ CheckStock(s)
  \/ Decrement(s)
  \/ PickNumber(s)
  \/ NumberInUse(s)
  \/ RefuseOption(s)
  \/ Commit(s)
  \/ DeadlockDetected(s)

Next ==
  \/ \E s \in Sale : Request(s) \/ Step(s) \/ Abort(s)
  \/ \E w \in Row, n \in Quantities : SetStock(w, n)

Spec == Init /\ [][Next]_vars

\* Node, the pool's queue (first come, first served) and PostgreSQL keep a sale
\* going; cashiers and merchants may stop at any time, and nothing need abort.
FairSpec == Spec /\ \A s \in Sale : WF_vars(Step(s))

-----------------------------------------------------------------------------
\* Correctness

TypeOK ==
  /\ stock \in [Row -> Nat]
  /\ sold \subseteq Sale
  /\ rowLock \in [Row -> Sale \cup {NoOne}]
  /\ pc \in [Sale -> Stage]
  /\ basket \in [Sale -> Baskets]
  /\ next \in [Sale -> Nat]
  /\ \A s \in Sale : next[s] \in DOMAIN basket[s]
  /\ taken \in [Sale -> [Row -> Nat]]
  /\ tries \in [Sale -> 0 .. MaxRetries - 1]

(* The decrements a running sale has made are covered by stock no other sale *)
(* and no merchant can touch: whatever it still has to decrement, committing *)
(* it cannot take a row below zero, although stock was read once at the start*)
(* and an item list may name a row twice.                                    *)
TakenIsCovered ==
  \A s \in Sale, w \in Row :
    taken[s][w] > 0 => rowLock[w] = s /\ taken[s][w] <= stock[w]

Amounts(items) == [n \in DOMAIN items |-> items[n].quantity]

Naming(items, w) == {n \in DOMAIN items : items[n].row = w}

\* What a basket asks of every row, however many items name it.
Demand(items) == [w \in Row |-> SumOver(Amounts(items), Naming(items, w))]

Shop == INSTANCE Inventory WITH demand <- [s \in Sale |-> Demand(basket[s])]

(* Decrementing item by item, waiting for locks, failing half way and losing *)
(* deadlocks, sales together still sell whole baskets one at a time.         *)
ImplementsInventory == Shop!Spec

(* Sales that name the same rows in opposite orders, or that crowd the pool, *)
(* never block each other for ever: a cashier always gets an answer.         *)
EverySaleEnds == \A s \in Sale : pc[s] # "idle" ~> pc[s] \in Ended
=============================================================================
