-------------------------------- MODULE Carts --------------------------------
(***************************************************************************)
(* The carts of one customer and of the browsers around: what requests do to *)
(* them, what a login makes of them, and the reminder of a cart left behind. *)
(*                                                                         *)
(*   modules/cart/cart.route.public.ts          POST, PATCH, DELETE items  *)
(*   modules/cart/cart.service.ts               addItem, mergeCartOnLogin  *)
(*   modules/auth/auth.route.session.ts         POST /login                *)
(*   modules/order/order.repo.ts                deleteCartItems            *)
(*   jobs/abandonedCartCron.ts                  runAbandonedCartCron       *)
(*   services/abandonedCartProcessor.service.ts                            *)
(*                                                                         *)
(* Only the writes of a merge are a transaction, and nothing that is read is *)
(* locked.  A Key is a product with its options, in the order they were sent: *)
(* POST tells orders apart, a merge sorts the options first (DedupKey).       *)
(* Every price is one, so the total of a line should equal its quantity.      *)
(* Rows are numbered as they are inserted; one of quantity 0 has been        *)
(* deleted, with or without its cart.                                        *)
(***************************************************************************)
EXTENDS Naturals, Sequences, FiniteSets, SequencesExt, Sums

CONSTANTS
  Request,      \* requests of browsers, each handled once
  Browser,      \* browsers, each with its own cartId cookie
  Key,          \* products with their options, in an order
  DedupKey,     \* what a merge makes of each: the options in one order
  Ops,          \* what a request may ask for
  Starts,       \* carts, rows and cookies to start from, and runs of the cron made
  Instance,     \* server instances that run the cron
  MaxCarts,     \* bound on the carts ever made
  MaxRuns,      \* bound on the runs of the cron
  RequestAttempts, CronAttempts,  \* of a reminder: 5 and 3 in the code
  MaxBreaks     \* bound on jobs that throw, lose their worker or are removed

CartId == 1 .. MaxCarts
Op == [kind : {"add", "set", "remove", "login", "order"}, browser : Browser,
       key : Key, quantity : Nat \ {0}]
CartRow == [holder : {"guest", "customer", "deleted"}, items : Nat, amount : Nat]
Line == [cart : CartId, key : Key, quantity : Nat, total : Nat]
Start == [carts : Seq(CartRow), rows : Seq(Line), cookie : [Browser -> {0} \cup CartId],
          runs : 0 .. MaxRuns]

ASSUME CartsAssumption ==
  /\ IsFiniteSet(Request) /\ IsFiniteSet(Key)
  /\ DedupKey \in [Key -> Key]
  /\ Ops \subseteq Op
  /\ Starts \subseteq Start
  /\ \A s \in Starts :
       /\ Len(s.carts) <= MaxCarts
       /\ Cardinality({c \in DOMAIN s.carts : s.carts[c].holder = "customer"}) <= 1
  /\ RequestAttempts \in Nat \ {0} /\ CronAttempts \in Nat \ {0}
  /\ MaxCarts \in Nat /\ MaxRuns \in Nat /\ MaxBreaks \in Nat

VARIABLES
  start,      \* what the run started from
  carts,      \* the carts, in the order they were made
  rows,       \* the cart_items, in the order they were inserted
  cookie,     \* the cartId cookie of every browser, 0 without one
  pc, op,     \* where each request is, and what it asks for
  cart,       \* the cart each request works on; for a login, the guest cart
  own,        \* the customer's cart each login found, 0 for none
  found,      \* rows a request read: their ids, with the quantity then
  match,      \* of each merge key, the row a merge adds to, and the guest's it adds
  sum,        \* the totals each request computed
  met,        \* history: the pairs of requests that were in flight together
  job,        \* the reminder job of every cart
  left,       \* the attempts it has left
  stalled,    \* a worker died with it
  mails,      \* the reminders sent of every cart
  cron,       \* the carts each instance still has to enqueue, if it runs
  runs,       \* runs of the cron so far
  lock,       \* cron:abandoned-cart:lock exists
  breaks      \* attempts that threw or lost their worker, and jobs removed, so far

tables == <<carts, rows>>
work == <<cart, own, found, match, sum>>
jobs == <<job, left, stalled>>
reminders == <<jobs, mails, cron, runs, lock, breaks>>
vars == <<start, tables, cookie, pc, op, work, met, reminders>>

Ended == {"done", "failed", "cut"}
InFlight == {q \in Request : pc[q] \notin Ended \cup {"idle"}}
Idle == [id \in {} |-> 0]
NoSum == [items |-> 0, amount |-> 0]

-----------------------------------------------------------------------------
\* Helpers

Goto(q, stage) == pc' = [pc EXCEPT ![q] = stage]

Begin(q) == /\ pc[q] = "idle"
            /\ met' = met \cup {{q, r} : r \in InFlight}

Exists(c) == c \in DOMAIN carts /\ carts[c].holder # "deleted"

RowsOf(rs, c) == {n \in DOMAIN rs : rs[n].cart = c /\ rs[n].quantity > 0}
Find(c, k) == {n \in RowsOf(rows, c) : rows[n].key = k}
MergeKey(n) == DedupKey[rows[n].key]

Quantities(rs) == [n \in DOMAIN rs |-> rs[n].quantity]
Totals(rs) == [n \in DOMAIN rs |-> rs[n].total]

SumOf(rs, c) == [items |-> SumOver(Quantities(rs), RowsOf(rs, c)),
                 amount |-> SumOver(Totals(rs), RowsOf(rs, c))]

Totalled(c, s) ==
  IF Exists(c) THEN [carts EXCEPT ![c].items = s.items, ![c].amount = s.amount] ELSE carts

Filled(n, quantity) ==
  IF rows[n].quantity = 0 THEN rows
  ELSE [rows EXCEPT ![n].quantity = quantity, ![n].total = quantity]

Erased(ns) ==
  [n \in DOMAIN rows |->
     IF n \in ns THEN [rows[n] EXCEPT !.quantity = 0, !.total = 0] ELSE rows[n]]

\* A run starts from what requests that did not overlap leave: totals are those
\* of the items.
ASSUME StartsAgree ==
  \A s \in Starts :
    /\ \A c \in DOMAIN s.carts :
         /\ s.carts[c].holder # "deleted"
         /\ [items |-> s.carts[c].items, amount |-> s.carts[c].amount] = SumOf(s.rows, c)
    /\ \A n \in DOMAIN s.rows :
         s.rows[n].cart \in DOMAIN s.carts /\ s.rows[n].total = s.rows[n].quantity
    /\ \A b \in Browser : s.cookie[b] \in {0} \cup DOMAIN s.carts

\* A merge being committed has locked the rows it adds to, and through them or
\* through the foreign keys of the rows it inserted the cart they are in.
LockedRows == UNION {{match[l][k].row : k \in DOMAIN match[l]} :
                      l \in {r \in Request : pc[r] = "merging"}}
LockedCart(c) == \E l \in Request : pc[l] = "merging" /\ own[l] = c

-----------------------------------------------------------------------------
Init ==
  /\ start \in Starts
  /\ carts = start.carts /\ rows = start.rows /\ cookie = start.cookie
  /\ pc = [q \in Request |-> "idle"]
  /\ op \in [Request -> Ops]
  /\ cart = [q \in Request |-> 0]
  /\ own = [q \in Request |-> 0]
  /\ found = [q \in Request |-> Idle]
  /\ match = [q \in Request |-> Idle]
  /\ sum = [q \in Request |-> NoSum]
  /\ met = {}
  /\ job = [c \in CartId |-> "none"]
  /\ left = [c \in CartId |-> 0]
  /\ stalled = [c \in CartId |-> FALSE]
  /\ mails = [c \in CartId |-> 0]
  /\ cron = [i \in Instance |-> [on |-> FALSE, todo |-> {}]]
  /\ runs = start.runs /\ lock = FALSE /\ breaks = 0

-----------------------------------------------------------------------------
\* Items

\* The cookie names a cart that exists.
RouteToCart(q) ==
  /\ op[q].kind \in {"add", "set", "remove"}
  /\ Exists(cookie[op[q].browser])
  /\ Begin(q)
  /\ cart' = [cart EXCEPT ![q] = cookie[op[q].browser]]
  /\ Goto(q, "routed")
  /\ UNCHANGED <<start, tables, cookie, op, own, found, match, sum, reminders>>

\* It does not: POST makes a guest cart.
RouteToNewCart(q) ==
  /\ op[q].kind = "add"
  /\ ~Exists(cookie[op[q].browser])
  /\ Len(carts) < MaxCarts
  /\ Begin(q)
  /\ carts' = Append(carts, [holder |-> "guest", items |-> 0, amount |-> 0])
  /\ cart' = [cart EXCEPT ![q] = Len(carts')]
  /\ Goto(q, "routed")
  /\ UNCHANGED <<start, rows, cookie, op, own, found, match, sum, reminders>>

\* CART_NOT_FOUND
RouteNowhere(q) ==
  /\ op[q].kind \in {"set", "remove"}
  /\ ~Exists(cookie[op[q].browser])
  /\ Begin(q)
  /\ Goto(q, "failed")
  /\ UNCHANGED <<start, tables, cookie, op, work, reminders>>

\* findCartItemsByProductId, findCartItemById, or the id a DELETE names.
ReadLine(q) ==
  /\ pc[q] = "routed"
  /\ LET ns == Find(cart[q], op[q].key) IN
       \/ \E n \in ns : /\ found' = [found EXCEPT ![q] = [id \in {n} |-> rows[n].quantity]]
                        /\ Goto(q, "read")
       \/ /\ ns = {}
          /\ Goto(q, IF op[q].kind = "set" THEN "failed" ELSE "read")
          /\ UNCHANGED found
  /\ UNCHANGED <<start, tables, cookie, op, cart, own, match, sum, met, reminders>>

\* The UPDATE or DELETE of a row by its id, which changes nothing once it is gone.
WriteLine(q) ==
  /\ pc[q] = "read"
  /\ \E n \in DOMAIN found[q] :
       /\ n \notin LockedRows
       /\ rows' = IF op[q].kind = "remove" THEN Erased({n})
                  ELSE IF op[q].kind = "set" THEN Filled(n, op[q].quantity)
                  ELSE Filled(n, found[q][n] + op[q].quantity)
  /\ Goto(q, "written")
  /\ UNCHANGED <<start, carts, cookie, op, work, met, reminders>>

\* The INSERT, which its foreign key refuses once the cart is gone.
InsertLine(q) ==
  /\ pc[q] = "read" /\ found[q] = Idle
  /\ \/ /\ op[q].kind = "add" /\ Exists(cart[q])
        /\ rows' = Append(rows, [cart |-> cart[q], key |-> op[q].key,
                                 quantity |-> op[q].quantity, total |-> op[q].quantity])
        /\ Goto(q, "written")
     \/ /\ op[q].kind = "add" /\ ~Exists(cart[q])
        /\ Goto(q, "failed")
        /\ UNCHANGED rows
     \/ /\ op[q].kind = "remove"
        /\ Goto(q, "written")
        /\ UNCHANGED rows
  /\ UNCHANGED <<start, carts, cookie, op, work, met, reminders>>

\* recalculateCartTotalsInDb: if its UPDATE waits for the row of the cart, the
\* sums of its snapshot are what it writes.
SumLines(q) ==
  /\ pc[q] = "written"
  /\ sum' = [sum EXCEPT ![q] = SumOf(rows, cart[q])]
  /\ Goto(q, "summed")
  /\ UNCHANGED <<start, tables, cookie, op, cart, own, found, match, met, reminders>>

\* Broken: the totals are changed by what the request names.
WriteTotalsByDelta(q) ==
  /\ pc[q] = "summed"
  /\ LET c == cart[q]
         After(n) == IF op[q].kind = "remove" THEN n - op[q].quantity ELSE n + op[q].quantity IN
       carts' = Totalled(c, [items |-> After(carts[c].items), amount |-> After(carts[c].amount)])
  /\ Goto(q, "replying")
  /\ UNCHANGED <<start, rows, cookie, op, work, met, reminders>>

WriteTotals(q) ==
  /\ pc[q] = "summed"
  /\ carts' = Totalled(cart[q], sum[q])
  /\ Goto(q, "replying")
  /\ UNCHANGED <<start, rows, cookie, op, work, met, reminders>>

\* Broken: a job is added whether or not there is one of its id.
EnqueueAgain(c, attempts) ==
  /\ job' = [job EXCEPT ![c] = "waiting"]
  /\ left' = [left EXCEPT ![c] = attempts]
  /\ stalled' = [stalled EXCEPT ![c] = FALSE]

\* queue.add with jobId ac-<cart>: ignored while a job of the id is kept.
Enqueue(c, attempts) ==
  IF job[c] = "none"
  THEN /\ job' = [job EXCEPT ![c] = "waiting"]
       /\ left' = [left EXCEPT ![c] = attempts]
       /\ stalled' = [stalled EXCEPT ![c] = FALSE]
  ELSE UNCHANGED jobs

\* The reply, with the cookie of a new cart.  A customer's request schedules the
\* reminder of the cart, a guest's and a DELETE do not.
Reply(q) ==
  /\ pc[q] = "replying"
  /\ LET c == IF op[q].kind = "login" THEN own[q] ELSE cart[q] IN
       \/ op[q].kind # "remove" /\ Enqueue(c, RequestAttempts)
       \/ op[q].kind # "login" /\ UNCHANGED jobs
  /\ cookie' = IF op[q].kind = "login" THEN cookie
               ELSE [cookie EXCEPT ![op[q].browser] = cart[q]]
  /\ Goto(q, "done")
  /\ UNCHANGED <<start, tables, op, work, met, mails, cron, runs, lock, breaks>>

-----------------------------------------------------------------------------
\* mergeCartOnLogin

ReadGuest(q) ==
  /\ op[q].kind = "login"
  /\ Begin(q)
  /\ LET c == cookie[op[q].browser] IN
       /\ cart' = [cart EXCEPT ![q] = c]
       /\ found' = [found EXCEPT ![q] = [n \in RowsOf(rows, c) |-> rows[n].quantity]]
       /\ Goto(q, IF Exists(c) THEN "guest read" ELSE "done")
  /\ UNCHANGED <<start, tables, cookie, op, own, match, sum, reminders>>

\* Broken: the guest cart is given to the customer without looking for another.
ReadOwnNever(q) ==
  /\ pc[q] = "guest read"
  /\ Goto(q, "assigning")
  /\ UNCHANGED <<start, tables, cookie, op, work, met, reminders>>

\* findCartByCustomerId: any cart of the customer's, if there is one.
ReadOwn(q) ==
  /\ pc[q] = "guest read"
  /\ LET mine == {c \in DOMAIN carts : carts[c].holder = "customer"} IN
       \/ /\ mine = {}
          /\ Goto(q, "assigning")
          /\ UNCHANGED own
       \/ \E c \in mine :
            /\ own' = [own EXCEPT ![q] = c]
            /\ Goto(q, IF found[q] = Idle THEN "discarding" ELSE "own read")
  /\ UNCHANGED <<start, tables, cookie, op, cart, found, match, sum, met, reminders>>

AssignCart(q) ==
  /\ pc[q] = "assigning"
  /\ carts' = IF Exists(cart[q]) THEN [carts EXCEPT ![cart[q]].holder = "customer"] ELSE carts
  /\ Goto(q, "done")
  /\ UNCHANGED <<start, rows, cookie, op, work, met, reminders>>

\* existingByKey: of several rows of the customer's with one merge key the last one
\* read is taken.  Of several guest rows aimed at it UPDATE ... FROM takes one.
MatchLines(q) ==
  /\ pc[q] = "own read"
  /\ LET mine == RowsOf(rows, own[q])
         common == {MergeKey(g) : g \in DOMAIN found[q]} \cap {MergeKey(n) : n \in mine} IN
       \E m \in [common -> mine], from \in [common -> DOMAIN found[q]] :
         /\ \A k \in common : MergeKey(m[k]) = k /\ MergeKey(from[k]) = k
         /\ match' = [match EXCEPT ![q] =
              [k \in common |->
                 [row |-> m[k], quantity |-> rows[m[k]].quantity, from |-> from[k]]]]
  /\ Goto(q, "matched")
  /\ UNCHANGED <<start, tables, cookie, op, cart, own, found, sum, met, reminders>>

\* The rows after the merge.  A matched row is raised by the guest's quantity but
\* gets the total computed from what was read; rows without a match are inserted.
Hit(q, n) == /\ rows[n].quantity > 0
             /\ MergeKey(n) \in DOMAIN match[q]
             /\ match[q][MergeKey(n)].row = n

FromGuest(q, k) == found[q][match[q][k].from]

\* Broken: only the quantity is raised.
RaisedQuantity(q) ==
  [n \in DOMAIN rows |->
     IF Hit(q, n) THEN [rows[n] EXCEPT !.quantity = @ + FromGuest(q, MergeKey(n))] ELSE rows[n]]

Raised(q) ==
  [n \in DOMAIN rows |->
     IF Hit(q, n) THEN LET more == FromGuest(q, MergeKey(n)) IN
                       [rows[n] EXCEPT !.quantity = @ + more,
                                       !.total = match[q][MergeKey(n)].quantity + more]
     ELSE rows[n]]

Unmatched(q) == {g \in DOMAIN found[q] : MergeKey(g) \notin DOMAIN match[q]}

Inserted(q) ==
  LET gs == SetToSeq(Unmatched(q)) IN
    [i \in DOMAIN gs |-> [cart |-> own[q], key |-> rows[gs[i]].key,
                          quantity |-> found[q][gs[i]], total |-> found[q][gs[i]]]]

\* Broken: the guest cart is deleted before its items are merged.
SumMergedLate(q) ==
  /\ pc[q] = "matched"
  /\ {match[q][k].row : k \in DOMAIN match[q]} \cap LockedRows = {}
  /\ sum' = [sum EXCEPT ![q] = SumOf(Raised(q) \o Inserted(q), own[q])]
  /\ rows' = Erased(RowsOf(rows, cart[q]))
  /\ Goto(q, IF Inserted(q) # <<>> /\ ~Exists(own[q]) THEN "failed" ELSE "merging")
  /\ UNCHANGED <<start, carts, cookie, op, cart, own, found, match, met, reminders>>

\* The transaction up to its sums, which nobody else sees yet.
SumMerged(q) ==
  /\ pc[q] = "matched"
  /\ {match[q][k].row : k \in DOMAIN match[q]} \cap LockedRows = {}
  /\ sum' = [sum EXCEPT ![q] = SumOf(Raised(q) \o Inserted(q), own[q])]
  /\ Goto(q, IF Inserted(q) # <<>> /\ ~Exists(own[q]) THEN "failed" ELSE "merging")
  /\ UNCHANGED <<start, tables, cookie, op, cart, own, found, match, met, reminders>>

\* updateCartTotals and COMMIT.
CommitMerge(q) ==
  /\ pc[q] = "merging"
  /\ rows' = Raised(q) \o Inserted(q)
  /\ carts' = Totalled(own[q], sum[q])
  /\ Goto(q, "merged")
  /\ UNCHANGED <<start, cookie, op, work, met, reminders>>

\* Broken: only an empty guest cart is deleted.
KeepGuest(q) ==
  /\ pc[q] \in {"merged", "discarding"} /\ ~LockedCart(cart[q])
  /\ Goto(q, IF pc[q] = "merged" THEN "replying" ELSE "done")
  /\ UNCHANGED <<start, tables, cookie, op, work, met, reminders>>

\* deleteCart takes the items with it, whatever was put there since they were read.
DeleteGuest(q) ==
  /\ pc[q] \in {"merged", "discarding"} /\ ~LockedCart(cart[q])
  /\ carts' = IF Exists(cart[q])
              THEN [carts EXCEPT ![cart[q]] = [holder |-> "deleted", items |-> 0, amount |-> 0]]
              ELSE carts
  /\ rows' = Erased(RowsOf(rows, cart[q]))
  /\ Goto(q, IF pc[q] = "merged" THEN "replying" ELSE "done")
  /\ UNCHANGED <<start, cookie, op, work, met, reminders>>

-----------------------------------------------------------------------------
\* The transaction of an order empties the cart it names; Checkout has the rest.
PlaceOrder(q) ==
  /\ op[q].kind = "order"
  /\ Begin(q)
  /\ LET c == cookie[op[q].browser] IN
       /\ Exists(c)
       /\ RowsOf(rows, c) \cap LockedRows = {}
       /\ rows' = Erased(RowsOf(rows, c))
       /\ carts' = Totalled(c, NoSum)
       /\ cart' = [cart EXCEPT ![q] = c]
  /\ Goto(q, "done")
  /\ UNCHANGED <<start, cookie, op, own, found, match, sum, reminders>>

\* The process dies in the middle; a transaction is rolled back.
Cut(q) ==
  /\ q \in InFlight
  /\ Goto(q, "cut")
  /\ UNCHANGED <<start, tables, cookie, op, work, met, reminders>>

-----------------------------------------------------------------------------
\* The reminder

Off == [on |-> FALSE, todo |-> {}]

\* SET NX, and the SELECT: of the customer's carts with items those last touched
\* one to two hours ago, which may be any of them.
CronStart(i) ==
  /\ ~cron[i].on /\ ~lock
  /\ runs < MaxRuns
  /\ lock' = TRUE /\ runs' = runs + 1
  /\ \E todo \in SUBSET {c \in DOMAIN carts : carts[c].holder = "customer" /\ carts[c].items > 0} :
       cron' = [cron EXCEPT ![i] = [on |-> TRUE, todo |-> todo]]
  /\ UNCHANGED <<start, tables, cookie, pc, op, work, met, jobs, mails, breaks>>

CronEnqueue(i) ==
  /\ \E c \in cron[i].todo :
       /\ Enqueue(c, CronAttempts)
       /\ cron' = [cron EXCEPT ![i].todo = @ \ {c}]
  /\ UNCHANGED <<start, tables, cookie, pc, op, work, met, mails, runs, lock, breaks>>

\* The lock is deleted, whoever holds it by now.
CronEnd(i) ==
  /\ cron[i].on /\ cron[i].todo = {}
  /\ cron' = [cron EXCEPT ![i] = Off]
  /\ lock' = FALSE
  /\ UNCHANGED <<start, tables, cookie, pc, op, work, met, jobs, mails, runs, breaks>>

CronDies(i) ==
  /\ cron[i].on
  /\ cron' = [cron EXCEPT ![i] = Off]
  /\ UNCHANGED <<start, tables, cookie, pc, op, work, met, jobs, mails, runs, lock, breaks>>

LockExpires ==
  /\ lock
  /\ lock' = FALSE
  /\ UNCHANGED <<start, tables, cookie, pc, op, work, met, jobs, mails, cron, runs, breaks>>

\* The worker reads the cart, then its items, and queues the mail last.
RunJob(c) ==
  /\ job[c] = "waiting"
  /\ job' = [job EXCEPT ![c] = IF Exists(c) /\ carts[c].items > 0 THEN "active" ELSE "completed"]
  /\ UNCHANGED <<start, tables, cookie, pc, op, work, met>>
  /\ UNCHANGED <<left, stalled, mails, cron, runs, lock, breaks>>

SendReminder(c) ==
  /\ job[c] = "active"
  /\ LET gone == RowsOf(rows, c) = {} IN
       /\ job' = [job EXCEPT ![c] = IF gone THEN "completed" ELSE "mailed"]
       /\ mails' = IF gone THEN mails ELSE [mails EXCEPT ![c] = @ + 1]
  /\ UNCHANGED <<start, tables, cookie, pc, op, work, met>>
  /\ UNCHANGED <<left, stalled, cron, runs, lock, breaks>>

\* BullMQ keeps an ended job, and its id.
CompleteJob(c) ==
  /\ job[c] = "mailed"
  /\ job' = [job EXCEPT ![c] = "completed"]
  /\ UNCHANGED <<start, tables, cookie, pc, op, work, met>>
  /\ UNCHANGED <<left, stalled, mails, cron, runs, lock, breaks>>

\* The processor throws: a read fails, or Redis after the mail was queued.
Fail(c) ==
  /\ job[c] \in {"active", "mailed"}
  /\ breaks < MaxBreaks
  /\ breaks' = breaks + 1
  /\ job' = [job EXCEPT ![c] = IF left[c] > 1 THEN "waiting" ELSE "failed"]
  /\ left' = [left EXCEPT ![c] = @ - 1]
  /\ UNCHANGED <<start, tables, cookie, pc, op, work, met>>
  /\ UNCHANGED <<stalled, mails, cron, runs, lock>>

\* The worker dies; BullMQ finds the job stalled and gives it to another one, once.
Stall(c) ==
  /\ job[c] \in {"active", "mailed"}
  /\ breaks < MaxBreaks
  /\ breaks' = breaks + 1
  /\ job' = [job EXCEPT ![c] = IF stalled[c] THEN "failed" ELSE "waiting"]
  /\ stalled' = [stalled EXCEPT ![c] = TRUE]
  /\ UNCHANGED <<start, tables, cookie, pc, op, work, met>>
  /\ UNCHANGED <<left, mails, cron, runs, lock>>

\* removeOnComplete and removeOnFail: the job is old, or many ended after it.
Forget(c) ==
  /\ job[c] \in {"completed", "failed"}
  /\ breaks < MaxBreaks
  /\ breaks' = breaks + 1
  /\ job' = [job EXCEPT ![c] = "none"]
  /\ UNCHANGED <<start, tables, cookie, pc, op, work, met>>
  /\ UNCHANGED <<left, stalled, mails, cron, runs, lock>>

-----------------------------------------------------------------------------
Route(q) == RouteToCart(q) \/ RouteToNewCart(q) \/ RouteNowhere(q)
ItemStep(q) == ReadLine(q) \/ WriteLine(q) \/ InsertLine(q) \/ SumLines(q) \/ WriteTotals(q)
LoginStep(q) == \/ ReadOwn(q) \/ AssignCart(q) \/ MatchLines(q)
                \/ SumMerged(q) \/ CommitMerge(q) \/ DeleteGuest(q)
WorkerStep(c) == \/ RunJob(c) \/ SendReminder(c) \/ CompleteJob(c)
                 \/ Fail(c) \/ Stall(c)

Next ==
  \/ \E q \in Request : Route(q) \/ ItemStep(q) \/ ReadGuest(q) \/ LoginStep(q)
                          \/ Reply(q) \/ PlaceOrder(q) \/ Cut(q)
  \/ \E i \in Instance : CronStart(i) \/ CronEnqueue(i) \/ CronEnd(i) \/ CronDies(i)
  \/ LockExpires
  \/ \E c \in CartId : WorkerStep(c) \/ Forget(c)

Spec == Init /\ [][Next]_vars
-----------------------------------------------------------------------------
\* Correctness

TypeOK ==
  /\ start \in Starts /\ op \in [Request -> Ops]
  /\ carts \in Seq(CartRow) /\ Len(carts) <= MaxCarts
  /\ rows \in Seq(Line)
  /\ cookie \in [Browser -> {0} \cup CartId]
  /\ cart \in [Request -> {0} \cup CartId] /\ own \in [Request -> {0} \cup CartId]
  /\ \A q \in Request : /\ DOMAIN found[q] \subseteq DOMAIN rows
                        /\ \A k \in DOMAIN match[q] : /\ match[q][k].row \in DOMAIN rows
                                                      /\ match[q][k].from \in DOMAIN found[q]
  /\ sum \in [Request -> [items : Nat, amount : Nat]]
  /\ job \in [CartId -> {"none", "waiting", "active", "mailed", "completed", "failed"}]
  /\ left \in [CartId -> 0 .. RequestAttempts + CronAttempts] /\ stalled \in [CartId -> BOOLEAN]
  /\ mails \in [CartId -> Nat]
  /\ cron \in [Instance -> [on : BOOLEAN, todo : SUBSET CartId]]
  /\ runs \in 0 .. MaxRuns /\ lock \in BOOLEAN /\ breaks \in 0 .. MaxBreaks

Begun == {q \in Request : pc[q] \notin {"idle", "failed"}}
Kind(k) == {q \in Request : op[q].kind = k}

\* A login with the cookie of the customer's own cart, kept over a logout.
Again(q) == q \in Kind("login") /\ cart[q] # 0 /\ cart[q] = own[q]

\* Of what a merge takes for one product with its options.
Quantity(rs, k) == SumOver(Quantities(rs), {n \in DOMAIN rs : DedupKey[rs[n].key] = k})
Asked(k, qs) == SumOver([q \in Request |-> op[q].quantity], {q \in qs : DedupKey[op[q].key] = k})

\* Several guest rows of a login are aimed at one row of the customer's.
Twins(q, k) ==
  /\ k \in DOMAIN match[q]
  /\ \E g, h \in DOMAIN found[q] : g # h /\ MergeKey(g) = k /\ MergeKey(h) = k

\* Only items added and logins, one after the other.
OnlyAddsAndLogins ==
  /\ met = {}
  /\ Begun \subseteq Kind("add") \cup Kind("login")
  /\ \A q \in Begun : ~Again(q)

(* What customers put into carts stays in some cart, through any number of   *)
(* logins, even if one dies anywhere in its merge.  Items are lost only by a  *)
(* login that finds several rows which differ in the order of their options   *)
(* in the guest's cart, and a row to add them to in the customer's.           *)
ItemsSurviveLogin ==
  OnlyAddsAndLogins =>
    \A k \in Key :
      (\A q \in Kind("login") : ~Twins(q, k)) =>
        Quantity(rows, k) >= Quantity(start.rows, k)
                               + Asked(k, {q \in Kind("add") : pc[q] = "done"})

(* And it is there once, unless a login died: the guest cart is merged again *)
(* if it was not deleted.                                                    *)
ItemsAddedOnce ==
  OnlyAddsAndLogins /\ (\A q \in Kind("login") : pc[q] \notin {"merged", "cut"}) =>
    \A k \in Key : Quantity(rows, k) <= Quantity(start.rows, k)
                     + Asked(k, Begun \cap Kind("add"))

(* The totals of a cart are those of its items once the requests that worked *)
(* on it are over, unless two of them overlapped or one died.                *)
TotalsAgree ==
  \A c \in DOMAIN carts :
    LET qs == {q \in Begun : c \in {cart[q], own[q]}} IN
      (\A q, r \in qs : pc[q] = "done" /\ {q, r} \notin met) =>
        [items |-> carts[c].items, amount |-> carts[c].amount] = SumOf(rows, c)

(* The total of a line is its price times its quantity, unless a login       *)
(* overlapped a request on the same cart: it adds the quantity to what is    *)
(* there and writes a total computed from what was.                          *)
LineTotalsAgree ==
  \A n \in DOMAIN rows : rows[n].quantity # rows[n].total =>
    \E l, r \in Request : /\ l # r /\ {l, r} \in met
                          /\ l \in Kind("login") /\ own[l] = rows[n].cart
                          /\ rows[n].cart \in {cart[r], own[r]}

(* A customer has one cart, unless two logins overlapped: nothing but the    *)
(* look at the customer's cart keeps a second one from being assigned.       *)
OneCart ==
  Cardinality({c \in DOMAIN carts : carts[c].holder = "customer"}) > 1 =>
    \E l, m \in Kind("login") : l # m /\ {l, m} \in met

(* A customer is reminded of a cart once, however often and on however many  *)
(* instances the cron runs, whatever becomes of its lock and however often    *)
(* the cart is touched, but for one reminder more with every attempt that     *)
(* breaks off and every job the queue removes.                                *)
ReminderOnce == \A c \in CartId : mails[c] <= 1 + breaks
=============================================================================
