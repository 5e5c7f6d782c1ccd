----------------------------- MODULE CartsProofs -----------------------------
(***************************************************************************)
(* Carts, for every number of carts, requests, instances, runs of the cron,  *)
(* attempts and jobs that break off: a customer is reminded of a cart once   *)
(* more at most for every such attempt and every job removed, and has one    *)
(* cart unless two logins overlapped; the totals of lines and carts are those *)
(* of their items unless requests overlapped or one died; and while requests *)
(* come one after the other, logins add no items twice, and lose none but of  *)
(* two guest rows aimed at one.                                              *)
(***************************************************************************)
EXTENDS Carts, SumsProofs, SequenceTheorems, TLAPS

-----------------------------------------------------------------------------
\* The reminder

JobStage == {"none", "waiting", "active", "mailed", "completed", "failed"}

(* A job that is still to mail has mailed only in attempts that broke off;   *)
(* one that has mailed refuses another of its id until it is removed.        *)
MailedAlready(c) == IF job[c] \in {"mailed", "completed"} THEN 1 ELSE 0

RInv ==
  /\ job \in [CartId -> JobStage]
  /\ mails \in [CartId -> Nat]
  /\ breaks \in Nat
  /\ \A c \in CartId : mails[c] <= MailedAlready(c) + breaks

LEMMA EnqueueKeeps ==
  ASSUME RInv, NEW c, NEW n, Enqueue(c, n), UNCHANGED <<mails, breaks>>
  PROVE  RInv'
<1>1. job' \in [CartId -> JobStage]
  BY DEF RInv, JobStage, Enqueue, jobs
<1>2. ASSUME NEW d \in CartId
      PROVE  MailedAlready(d)' = MailedAlready(d)
  BY DEF RInv, Enqueue, MailedAlready, jobs
<1> QED
  BY <1>1, <1>2 DEF RInv

\* What a job comes to by a step of its own.
LEMMA JobMoves ==
  ASSUME NEW c, WorkerStep(c) \/ Forget(c)
  PROVE  \E j \in JobStage : job' = [job EXCEPT ![c] = j]
<1>1. CASE RunJob(c) \/ SendReminder(c) \/ CompleteJob(c)
  BY <1>1 DEF RunJob, SendReminder, CompleteJob, JobStage
<1>2. CASE Fail(c)
  BY <1>2 DEF Fail, JobStage
<1>3. CASE Stall(c)
  BY <1>3 DEF Stall, JobStage
<1>4. CASE Forget(c)
  BY <1>4 DEF Forget, JobStage
<1> QED
  BY <1>1, <1>2, <1>3, <1>4 DEF WorkerStep

\* The worker's steps, its death, and the job's removal.
LEMMA WorkerKeeps ==
  ASSUME RInv, NEW c \in CartId, WorkerStep(c) \/ Forget(c)
  PROVE  RInv'
<1>1. PICK j \in JobStage : job' = [job EXCEPT ![c] = j]
  BY JobMoves
<1>2. breaks' \in Nat /\ breaks <= breaks'
  BY DEF RInv, WorkerStep, RunJob, SendReminder, CompleteJob, Fail, Stall, Forget
<1>3. mails' \in [CartId -> Nat] /\ \A d \in CartId : d # c => mails'[d] = mails[d]
  BY DEF RInv, WorkerStep, RunJob, SendReminder, CompleteJob, Fail, Stall, Forget
<1>4. job' \in [CartId -> JobStage]
  BY <1>1 DEF RInv
<1>5. mails'[c] <= (IF j \in {"mailed", "completed"} THEN 1 ELSE 0) + breaks'
  <2>1. mails[c] <= MailedAlready(c) + breaks /\ mails[c] \in Nat /\ breaks \in Nat
    BY DEF RInv
  <2>2. job'[c] = j
    BY <1>1 DEF RInv
  <2>3. CASE RunJob(c)
    BY <2>1, <2>2, <2>3 DEF RunJob, MailedAlready
  <2>4. CASE SendReminder(c)
    BY <2>1, <2>2, <2>4 DEF SendReminder, MailedAlready, RInv
  <2>5. CASE CompleteJob(c)
    BY <2>1, <2>2, <2>5 DEF CompleteJob, MailedAlready
  <2>6. CASE Fail(c) \/ Stall(c) \/ Forget(c)
    <3>1. mails' = mails /\ breaks' = breaks + 1
      BY <2>6 DEF Fail, Stall, Forget
    <3> QED
      BY <2>1, <3>1 DEF MailedAlready
  <2> QED
    BY <2>3, <2>4, <2>5, <2>6 DEF WorkerStep
<1>6. \A d \in CartId : mails'[d] <= MailedAlready(d)' + breaks'
  <2> SUFFICES ASSUME NEW d \in CartId
               PROVE  mails'[d] <= (IF job'[d] \in {"mailed", "completed"} THEN 1 ELSE 0) + breaks'
    BY DEF MailedAlready
  <2>1. CASE d = c
    BY <1>1, <1>5, <2>1 DEF RInv
  <2>2. CASE d # c
    <3>1. job'[d] = job[d] /\ mails'[d] = mails[d]
      BY <1>1, <1>3, <2>2 DEF RInv
    <3>2. mails[d] <= (IF job[d] \in {"mailed", "completed"} THEN 1 ELSE 0) + breaks
      BY DEF RInv, MailedAlready
    <3> QED
      BY <1>2, <3>1, <3>2 DEF RInv
  <2> QED
    BY <2>1, <2>2
<1> QED
  BY <1>2, <1>3, <1>4, <1>6 DEF RInv

LEMMA ReminderStepKeeps == RInv /\ [Next]_vars => RInv'
<1> SUFFICES ASSUME RInv, [Next]_vars PROVE RInv'
  OBVIOUS
<1>1. ASSUME UNCHANGED <<job, mails, breaks>> PROVE RInv'
  BY <1>1 DEF RInv, MailedAlready
<1>2. ASSUME NEW q \in Request, Reply(q) PROVE RInv'
  <2>1. /\ UNCHANGED <<mails, breaks>>
        /\ UNCHANGED job \/ \E c \in {own[q], cart[q]} : Enqueue(c, RequestAttempts)
    BY <1>2 DEF Reply, jobs
  <2> QED
    BY <1>1, <2>1, EnqueueKeeps
<1>3. ASSUME NEW i \in Instance, CronEnqueue(i) PROVE RInv'
  <2>1. UNCHANGED <<mails, breaks>> /\ \E c : Enqueue(c, CronAttempts)
    BY <1>3 DEF CronEnqueue
  <2> QED
    BY <2>1, EnqueueKeeps
<1>4. ASSUME NEW q \in Request, Route(q) \/ ReadGuest(q) \/ PlaceOrder(q) \/ Cut(q)
      PROVE  UNCHANGED reminders
  BY <1>4 DEF Route, RouteToCart, RouteToNewCart, RouteNowhere, ReadGuest, PlaceOrder, Cut
<1>5. ASSUME NEW q \in Request, ItemStep(q)
      PROVE  UNCHANGED reminders
  BY <1>5 DEF ItemStep, ReadLine, WriteLine, InsertLine, SumLines, WriteTotals
<1>6. ASSUME NEW q \in Request, LoginStep(q)
      PROVE  UNCHANGED reminders
  BY <1>6 DEF LoginStep, ReadOwn, AssignCart, MatchLines, SumMerged, CommitMerge, DeleteGuest
<1>7. ASSUME NEW i \in Instance, CronStart(i) \/ CronEnd(i) \/ CronDies(i)
      PROVE  UNCHANGED <<job, mails, breaks>>
  BY <1>7 DEF CronStart, CronEnd, CronDies, jobs
<1>8. LockExpires => UNCHANGED <<job, mails, breaks>>
  BY DEF LockExpires, jobs
<1>9. UNCHANGED vars => UNCHANGED reminders
  BY DEF vars
<1>10. UNCHANGED reminders => UNCHANGED <<job, mails, breaks>>
  BY DEF reminders, jobs
<1> QED
  BY <1>1, <1>2, <1>3, <1>4, <1>5, <1>6, <1>7, <1>8, <1>9, <1>10, WorkerKeeps DEF Next

\* One reminder more than one of a cart takes an attempt that threw or lost its
\* worker, or a job the queue removed: another run of the cron, another instance, or
\* a cart touched again make none (runAbandonedCartCron, scheduleAbandonedCartRecovery).
THEOREM RemindedOnce == Spec => []ReminderOnce
<1>1. Init => RInv
  BY DEF Init, RInv, MailedAlready, JobStage
<1>2. RInv => ReminderOnce
  BY DEF RInv, MailedAlready, ReminderOnce
<1> QED
  BY <1>1, <1>2, ReminderStepKeeps, PTL DEF Spec

-----------------------------------------------------------------------------
\* The carts of the customer

Holder == {"guest", "customer", "deleted"}
Mine(cs) == {c \in DOMAIN cs : cs[c].holder = "customer"}

\* The carts are a sequence of records, whatever their totals are.
WellFormed(cs) ==
  \E N : \E n \in Nat : cs \in [1 .. n -> [holder : Holder, items : N, amount : N]]

LEMMA MineIsFinite ==
  ASSUME NEW cs, WellFormed(cs)
  PROVE  IsFiniteSet(Mine(cs))
<1>0. PICK N : \E n \in Nat : cs \in [1 .. n -> [holder : Holder, items : N, amount : N]]
  BY DEF WellFormed
<1>1. PICK n \in Nat : cs \in [1 .. n -> [holder : Holder, items : N, amount : N]]
  BY <1>0
<1>2. IsFiniteSet(1 .. n)
  BY FS_Interval
<1>3. Mine(cs) \subseteq 1 .. n
  BY <1>1 DEF Mine
<1> QED
  BY <1>2, <1>3, FS_Subset

LEMMA TotalledKeepsHolders ==
  ASSUME WellFormed(carts), NEW c, NEW s
  PROVE  WellFormed(Totalled(c, s)) /\ Mine(Totalled(c, s)) = Mine(carts)
<1>0. PICK N : \E n \in Nat : carts \in [1 .. n -> [holder : Holder, items : N, amount : N]]
  BY DEF WellFormed
<1>1. PICK n \in Nat : carts \in [1 .. n -> [holder : Holder, items : N, amount : N]]
  BY <1>0
<1>2. CASE ~Exists(c)
  BY <1>2 DEF Totalled
<1>3. CASE Exists(c)
  <2> DEFINE M == N \cup {s.items, s.amount}
             new == [carts EXCEPT ![c].items = s.items, ![c].amount = s.amount]
  <2>1. c \in 1 .. n
    BY <1>1, <1>3 DEF Exists
  <2>2. new \in [1 .. n -> [holder : Holder, items : M, amount : M]]
    BY <1>1, <2>1
  <2>3. \A d \in 1 .. n : new[d].holder = carts[d].holder
    BY <1>1, <2>1
  <2>4. Totalled(c, s) = new
    BY <1>3 DEF Totalled
  <2> HIDE DEF new, M
  <2>5. WellFormed(new)
    BY <2>2 DEF WellFormed
  <2>6. Mine(new) = Mine(carts)
    BY <1>1, <2>2, <2>3 DEF Mine
  <2> QED
    BY <2>4, <2>5, <2>6
<1> QED
  BY <1>2, <1>3

LEMMA DeleteKeepsHolders ==
  ASSUME WellFormed(carts), NEW c, Exists(c)
  PROVE  LET new == [carts EXCEPT ![c] = [holder |-> "deleted", items |-> 0, amount |-> 0]] IN
           WellFormed(new) /\ Mine(new) \subseteq Mine(carts)
<1> DEFINE new == [carts EXCEPT ![c] = [holder |-> "deleted", items |-> 0, amount |-> 0]]
<1>0. PICK N : \E n \in Nat : carts \in [1 .. n -> [holder : Holder, items : N, amount : N]]
  BY DEF WellFormed
<1>1. PICK n \in Nat : carts \in [1 .. n -> [holder : Holder, items : N, amount : N]]
  BY <1>0
<1> DEFINE M == N \cup {0}
<1>2. c \in 1 .. n
  BY <1>1 DEF Exists
<1>3. new \in [1 .. n -> [holder : Holder, items : M, amount : M]]
  BY <1>1, <1>2 DEF Holder
<1>4. \A d \in 1 .. n : new[d] = carts[d] \/ new[d].holder = "deleted"
  BY <1>1, <1>2
<1> HIDE DEF new, M
<1>5. WellFormed(new)
  BY <1>3 DEF WellFormed
<1>6. Mine(new) \subseteq Mine(carts)
  BY <1>1, <1>3, <1>4 DEF Mine
<1> QED
  BY <1>5, <1>6 DEF new

LEMMA AssignKeepsHolders ==
  ASSUME WellFormed(carts), NEW c, Exists(c)
  PROVE  LET new == [carts EXCEPT ![c].holder = "customer"] IN
           WellFormed(new) /\ Mine(new) \subseteq Mine(carts) \cup {c}
<1> DEFINE new == [carts EXCEPT ![c].holder = "customer"]
<1>0. PICK N : \E n \in Nat : carts \in [1 .. n -> [holder : Holder, items : N, amount : N]]
  BY DEF WellFormed
<1>1. PICK n \in Nat : carts \in [1 .. n -> [holder : Holder, items : N, amount : N]]
  BY <1>0
<1>2. c \in 1 .. n
  BY <1>1 DEF Exists
<1>3. new \in [1 .. n -> [holder : Holder, items : N, amount : N]]
  BY <1>1, <1>2 DEF Holder
<1>4. \A d \in 1 .. n : d = c \/ new[d] = carts[d]
  BY <1>1, <1>2
<1> HIDE DEF new
<1>5. WellFormed(new)
  BY <1>3 DEF WellFormed
<1>6. Mine(new) \subseteq Mine(carts) \cup {c}
  BY <1>1, <1>3, <1>4 DEF Mine
<1> QED
  BY <1>5, <1>6 DEF new

LEMMA AppendKeepsHolders ==
  ASSUME WellFormed(carts)
  PROVE  LET new == Append(carts, [holder |-> "guest", items |-> 0, amount |-> 0]) IN
           WellFormed(new) /\ Mine(new) \subseteq Mine(carts)
<1> DEFINE r == [holder |-> "guest", items |-> 0, amount |-> 0]
           new == Append(carts, r)
<1>0. PICK N : \E n \in Nat : carts \in [1 .. n -> [holder : Holder, items : N, amount : N]]
  BY DEF WellFormed
<1>1. PICK n \in Nat : carts \in [1 .. n -> [holder : Holder, items : N, amount : N]]
  BY <1>0
<1> DEFINE R == [holder : Holder, items : N \cup {0}, amount : N \cup {0}]
<1>2. carts \in [1 .. n -> R] /\ r \in R
  BY <1>1 DEF Holder
<1> HIDE DEF r, R
<1>3. carts \in Seq(R) /\ Len(carts) = n
  BY <1>2
<1>4. new \in [1 .. n + 1 -> R] /\ n + 1 \in Nat
  <2>1. new \in Seq(R) /\ Len(new) = n + 1
    BY <1>2, <1>3
  <2> HIDE DEF new
  <2>2. new \in [1 .. Len(new) -> R]
    BY <2>1, LenProperties
  <2> QED
    BY <2>1, <2>2
<1>5. new[n + 1] = r /\ \A d \in 1 .. n : new[d] = carts[d]
  BY <1>2, <1>3
<1> HIDE DEF new
<1>6. WellFormed(new)
  BY <1>4 DEF WellFormed, R
<1>7. Mine(new) \subseteq Mine(carts)
  BY <1>1, <1>4, <1>5 DEF Mine, r
<1> QED
  BY <1>6, <1>7 DEF new, r

Stage == {"idle", "routed", "read", "written", "summed", "replying", "guest read", "assigning",
          "own read", "matched", "merging", "merged", "discarding"} \cup Ended

\* Two requests that are in flight have met.
FlightsMeet == \A q, r \in InFlight : q # r => {q, r} \in met

\* Which stages are a login's.
LoginStages ==
  \A q \in Request :
    pc[q] \in {"guest read", "assigning", "own read", "matched", "merging", "merged",
               "discarding"} => op[q].kind = "login"

\* A login that found no cart of the customer's, when there is one by now, was in
\* flight with the login that assigned it.
FoundNone ==
  \A q \in Request : pc[q] = "assigning" /\ Mine(carts) # {} =>
    \E l \in Kind("login") : l # q /\ {l, q} \in met

CInv ==
  /\ pc \in [Request -> Stage]
  /\ WellFormed(carts)
  /\ FlightsMeet /\ LoginStages /\ FoundNone /\ OneCart

\* A request that begins meets those in flight; one that goes on has met them.
LEMMA MovesMeet ==
  ASSUME CInv, NEW q \in Request, NEW s \in Stage, pc' = [pc EXCEPT ![q] = s], UNCHANGED op,
         Begin(q) \/ (q \in InFlight /\ UNCHANGED met)
  PROVE  /\ pc' \in [Request -> Stage]
         /\ FlightsMeet'
         /\ met \subseteq met'
         /\ Kind("login")' = Kind("login")
<1>1. /\ pc' \in [Request -> Stage]
      /\ \A r \in Request : pc'[r] = IF r = q THEN s ELSE pc[r]
  BY DEF CInv, Goto
<1>2. InFlight' \subseteq InFlight \cup {q}
  BY <1>1 DEF InFlight
<1>3. CASE Begin(q)
  <2>1. met' = met \cup {{q, r} : r \in InFlight}
    BY <1>3 DEF Begin
  <2>2. ASSUME NEW a \in InFlight', NEW b \in InFlight', a # b
        PROVE  {a, b} \in met'
    <3>1. CASE a = q
      <4>1. b \in InFlight
        BY <1>2, <2>2, <3>1
      <4> QED
        BY <2>1, <3>1, <4>1
    <3>2. CASE b = q
      <4>1. a \in InFlight /\ {a, b} = {q, a}
        BY <1>2, <2>2, <3>2
      <4> QED
        BY <2>1, <4>1
    <3>3. CASE a # q /\ b # q
      BY <1>2, <2>1, <2>2, <3>3 DEF CInv, FlightsMeet
    <3> QED
      BY <3>1, <3>2, <3>3
  <2> QED
    BY <1>1, <2>1, <2>2 DEF FlightsMeet, Kind
<1>4. CASE q \in InFlight /\ UNCHANGED met
  BY <1>1, <1>2, <1>4 DEF CInv, FlightsMeet, Kind
<1> QED
  BY <1>3, <1>4

LEMMA AtLeast == \A m, n \in Nat : m > 1 /\ m <= n => n > 1
OBVIOUS

LEMMA AtMostOne == \A m \in Nat : m <= 1 => ~(m > 1)
OBVIOUS

\* A step that gives the customer no cart and leads no request to "assigning" but
\* one that finds no cart.
LEMMA NoNewCartKeeps ==
  ASSUME CInv, NEW q \in Request, NEW s \in Stage, pc' = [pc EXCEPT ![q] = s], UNCHANGED op,
         Begin(q) \/ (q \in InFlight /\ UNCHANGED met),
         WellFormed(carts'), Mine(carts') \subseteq Mine(carts),
         s = "assigning" => Mine(carts) = {},
         s \in {"guest read", "assigning", "own read", "matched", "merging", "merged",
                "discarding"} => op[q].kind = "login"
  PROVE  CInv'
<1>1. /\ pc' \in [Request -> Stage]
      /\ FlightsMeet'
      /\ met \subseteq met'
      /\ Kind("login")' = Kind("login")
  BY MovesMeet
<1>2. \A r \in Request : pc'[r] = IF r = q THEN s ELSE pc[r]
  BY DEF CInv, Goto
<1>3. LoginStages'
  BY <1>2 DEF CInv, LoginStages
<1>4. FoundNone'
  <2> SUFFICES ASSUME NEW r \in Request, pc'[r] = "assigning", Mine(carts') # {}
               PROVE  \E l \in Kind("login") : l # r /\ {l, r} \in met'
    BY <1>1 DEF FoundNone
  <2>1. Mine(carts) # {}
    OBVIOUS
  <2>2. r # q /\ pc[r] = "assigning"
    BY <1>2, <2>1
  <2> QED
    BY <1>1, <2>1, <2>2 DEF CInv, FoundNone
<1>5. OneCart'
  <2> SUFFICES ASSUME Cardinality(Mine(carts')) > 1
               PROVE  \E l, m \in Kind("login") : l # m /\ {l, m} \in met'
    BY <1>1 DEF OneCart, Mine
  <2>1. IsFiniteSet(Mine(carts))
    BY MineIsFinite DEF CInv
  <2>2. /\ Cardinality(Mine(carts')) <= Cardinality(Mine(carts))
        /\ Cardinality(Mine(carts')) \in Nat /\ Cardinality(Mine(carts)) \in Nat
    BY <2>1, FS_Subset, FS_CardinalityType
  <2>3. Cardinality(Mine(carts)) > 1
    BY <2>2, AtLeast, Zenon
  <2> QED
    BY <1>1, <2>3 DEF CInv, OneCart, Mine
<1> QED
  BY <1>1, <1>3, <1>4, <1>5 DEF CInv

\* A login that found no cart makes the guest cart the customer's.
LEMMA AssignKeeps ==
  ASSUME CInv, NEW q \in Request, AssignCart(q)
  PROVE  CInv'
<1> USE DEF Goto, Stage, Ended
<1>1. /\ pc[q] = "assigning" /\ Goto(q, "done") /\ UNCHANGED <<op, met>>
      /\ q \in InFlight /\ op[q].kind = "login"
      /\ carts' = IF Exists(cart[q]) THEN [carts EXCEPT ![cart[q]].holder = "customer"] ELSE carts
  BY DEF AssignCart, InFlight, Ended, CInv, LoginStages, work
<1>2. /\ pc' \in [Request -> Stage]
      /\ FlightsMeet'
      /\ met' = met
      /\ Kind("login")' = Kind("login")
  BY <1>1, MovesMeet
<1>3. \A r \in Request : pc'[r] = IF r = q THEN "done" ELSE pc[r]
  BY <1>1 DEF CInv, Goto
<1>4. WellFormed(carts') /\ Mine(carts') \subseteq Mine(carts) \cup {cart[q]}
  <2>1. CASE Exists(cart[q])
    <3>1. WellFormed(carts)
      BY DEF CInv
    <3> QED
      BY <1>1, <2>1, <3>1, AssignKeepsHolders
  <2>2. CASE ~Exists(cart[q])
    BY <1>1, <2>2 DEF CInv
  <2> QED
    BY <2>1, <2>2
<1>5. LoginStages'
  BY <1>1, <1>3 DEF CInv, LoginStages
<1>6. FoundNone'
  <2> SUFFICES ASSUME NEW r \in Request, pc'[r] = "assigning"
               PROVE  \E l \in Kind("login") : l # r /\ {l, r} \in met'
    BY <1>2 DEF FoundNone
  <2>1. r # q /\ r \in InFlight
    BY <1>3 DEF InFlight, Ended
  <2>2. {q, r} \in met /\ q \in Kind("login")
    BY <1>1, <2>1 DEF CInv, FlightsMeet, Kind
  <2> QED
    BY <1>2, <2>1, <2>2
<1>7. OneCart'
  <2> SUFFICES ASSUME Cardinality(Mine(carts')) > 1
               PROVE  \E l, m \in Kind("login") : l # m /\ {l, m} \in met'
    BY <1>2 DEF OneCart, Mine
  <2>1. CASE Mine(carts) = {}
    <3>1. Mine(carts') \subseteq {cart[q]}
      BY <1>4, <2>1
    <3>2. IsFiniteSet({cart[q]}) /\ Cardinality({cart[q]}) = 1
      BY FS_Singleton
    <3>3. Cardinality(Mine(carts')) \in Nat /\ Cardinality(Mine(carts')) <= 1
      BY <3>1, <3>2, FS_Subset, FS_CardinalityType, Zenon
    <3>4. ~(Cardinality(Mine(carts')) > 1)
      BY <3>3, AtMostOne, Zenon
    <3> QED
      BY <3>4, Zenon
  <2>2. CASE Mine(carts) # {}
    <3>1. PICK l \in Kind("login") : l # q /\ {l, q} \in met
      BY <1>1, <2>2 DEF CInv, FoundNone
    <3> QED
      BY <1>1, <1>2, <3>1 DEF Kind
  <2> QED
    BY <2>1, <2>2
<1> QED
  BY <1>2, <1>4, <1>5, <1>6, <1>7 DEF CInv

\* What a request or an order does to items and totals leaves the holders alone.
LEMMA ItemsKeepHolders ==
  ASSUME CInv, NEW q \in Request,
         \/ Route(q) \/ ItemStep(q) \/ ReadGuest(q) \/ Reply(q) \/ PlaceOrder(q) \/ Cut(q)
  PROVE  CInv'
<1> USE DEF Goto, Stage, Ended, work, tables
<1>0. WellFormed(carts)
  BY DEF CInv
<1>1. ASSUME NEW s \in Stage, pc' = [pc EXCEPT ![q] = s], UNCHANGED op,
             Begin(q) \/ (q \in InFlight /\ UNCHANGED met),
             UNCHANGED carts \/ \E c, t : carts' = Totalled(c, t),
             s = "guest read" => op[q].kind = "login",
             s \notin {"assigning", "own read", "matched", "merging", "merged", "discarding"}
      PROVE  CInv'
  <2>1. WellFormed(carts') /\ Mine(carts') \subseteq Mine(carts)
    BY <1>0, <1>1, TotalledKeepsHolders
  <2> QED
    BY <1>1, <2>1, NoNewCartKeeps
<1>2. CASE Route(q)
  <2>1. CASE RouteToNewCart(q)
    <3>1. carts' = Append(carts, [holder |-> "guest", items |-> 0, amount |-> 0])
      BY <2>1 DEF RouteToNewCart
    <3>2. WellFormed(carts') /\ Mine(carts') \subseteq Mine(carts)
      BY <1>0, <3>1, AppendKeepsHolders
    <3>3. Goto(q, "routed") /\ Begin(q) /\ UNCHANGED op
      BY <2>1 DEF RouteToNewCart
    <3> QED
      BY <3>2, <3>3, NoNewCartKeeps
  <2>2. CASE RouteToCart(q)
    <3>1. Goto(q, "routed") /\ Begin(q) /\ UNCHANGED <<op, carts>>
      BY <2>2 DEF RouteToCart
    <3> QED
      BY <1>1, <3>1
  <2>3. CASE RouteNowhere(q)
    <3>1. Goto(q, "failed") /\ Begin(q) /\ UNCHANGED <<op, carts>>
      BY <2>3 DEF RouteNowhere
    <3> QED
      BY <1>1, <3>1
  <2> QED
    BY <1>2, <2>1, <2>2, <2>3 DEF Route
<1>3. CASE ItemStep(q)
  <2>1. /\ \E s \in {"failed", "read", "written", "summed", "replying"} : Goto(q, s)
        /\ q \in InFlight /\ UNCHANGED <<op, met>>
        /\ UNCHANGED carts \/ \E c, t : carts' = Totalled(c, t)
    BY <1>3 DEF ItemStep, ReadLine, WriteLine, InsertLine, SumLines, WriteTotals, InFlight, Ended
  <2> QED
    BY <1>1, <2>1
<1>4. CASE ReadGuest(q)
  <2>1. /\ \E s \in {"guest read", "done"} : Goto(q, s)
        /\ Begin(q) /\ op[q].kind = "login" /\ UNCHANGED <<op, carts>>
    BY <1>4 DEF ReadGuest
  <2> QED
    BY <1>1, <2>1
<1>5. CASE Reply(q) \/ Cut(q)
  <2>1. /\ \E s \in {"done", "cut"} : Goto(q, s)
        /\ q \in InFlight /\ UNCHANGED <<op, met, carts>>
    BY <1>5 DEF Reply, Cut, InFlight, Ended
  <2> QED
    BY <1>1, <2>1
<1>6. CASE PlaceOrder(q)
  <2>1. /\ Goto(q, "done") /\ Begin(q) /\ UNCHANGED op
        /\ \E c, t : carts' = Totalled(c, t)
    BY <1>6 DEF PlaceOrder
  <2> QED
    BY <1>1, <2>1
<1> QED
  BY <1>2, <1>3, <1>4, <1>5, <1>6

LEMMA LoginKeeps ==
  ASSUME CInv, NEW q \in Request, LoginStep(q)
  PROVE  CInv'
<1> USE DEF Goto, Stage, Ended, work, tables
<1>0. WellFormed(carts)
  BY DEF CInv
<1>1. ASSUME NEW s \in Stage, pc' = [pc EXCEPT ![q] = s], UNCHANGED <<op, met>>,
             pc[q] \in {"guest read", "own read", "matched", "merging", "merged", "discarding"},
             s = "assigning" => Mine(carts) = {},
             WellFormed(carts') /\ Mine(carts') \subseteq Mine(carts)
      PROVE  CInv'
  <2>1. q \in InFlight /\ op[q].kind = "login"
    BY <1>1 DEF CInv, LoginStages, InFlight, Ended
  <2> QED
    BY <1>1, <2>1, NoNewCartKeeps
<1>2. CASE ReadOwn(q)
  <2>1. /\ pc[q] = "guest read" /\ UNCHANGED <<op, met, carts>>
        /\ \E s \in {"assigning", "discarding", "own read"} :
             Goto(q, s) /\ (s = "assigning" => Mine(carts) = {})
    BY <1>2 DEF ReadOwn, Mine
  <2> QED
    BY <1>0, <1>1, <2>1
<1>3. CASE MatchLines(q)
  <2>1. pc[q] = "own read" /\ Goto(q, "matched") /\ UNCHANGED <<op, met, carts>>
    BY <1>3 DEF MatchLines
  <2> QED
    BY <1>0, <1>1, <2>1
<1>4. CASE SumMerged(q)
  <2>1. /\ pc[q] = "matched" /\ UNCHANGED <<op, met, carts>>
        /\ \E s \in {"failed", "merging"} : Goto(q, s)
    BY <1>4 DEF SumMerged
  <2> QED
    BY <1>0, <1>1, <2>1
<1>5. CASE CommitMerge(q)
  <2>1. /\ pc[q] = "merging" /\ Goto(q, "merged") /\ UNCHANGED <<op, met>>
        /\ carts' = Totalled(own[q], sum[q])
    BY <1>5 DEF CommitMerge
  <2> QED
    BY <1>0, <1>1, <2>1, TotalledKeepsHolders
<1>6. CASE DeleteGuest(q)
  <2>1. /\ pc[q] \in {"merged", "discarding"} /\ UNCHANGED <<op, met>>
        /\ \E s \in {"replying", "done"} : Goto(q, s)
    BY <1>6 DEF DeleteGuest
  <2>2. WellFormed(carts') /\ Mine(carts') \subseteq Mine(carts)
    <3>1. CASE Exists(cart[q])
      BY <1>0, <1>6, <3>1, DeleteKeepsHolders DEF DeleteGuest
    <3>2. CASE ~Exists(cart[q])
      BY <1>0, <1>6, <3>2 DEF DeleteGuest
    <3> QED
      BY <3>1, <3>2
  <2> QED
    BY <1>1, <2>1, <2>2
<1> QED
  BY <1>2, <1>3, <1>4, <1>5, <1>6, AssignKeeps DEF LoginStep

LEMMA StartCarts == Init => CInv
<1> SUFFICES ASSUME Init PROVE CInv
  OBVIOUS
<1>1. /\ carts \in Seq(CartRow) /\ Cardinality(Mine(carts)) <= 1
      /\ pc = [q \in Request |-> "idle"]
  BY CartsAssumption DEF Init, Start, Mine
<1>2. WellFormed(carts)
  <2>1. carts \in [1 .. Len(carts) -> CartRow] /\ Len(carts) \in Nat
    BY <1>1, LenProperties
  <2> QED
    BY <2>1 DEF WellFormed, CartRow, Holder
<1>3. FlightsMeet /\ LoginStages /\ FoundNone
  BY <1>1 DEF FlightsMeet, LoginStages, FoundNone, InFlight, Ended
<1>4. OneCart
  <2>1. Cardinality(Mine(carts)) \in Nat
    BY <1>2, MineIsFinite, FS_CardinalityType
  <2>2. ~(Cardinality(Mine(carts)) > 1)
    BY <1>1, <2>1, AtMostOne, Zenon
  <2> QED
    BY <2>2 DEF OneCart, Mine
<1> QED
  BY <1>1, <1>2, <1>3, <1>4 DEF CInv, Stage

LEMMA CartsKept == CInv /\ [Next]_vars => CInv'
<1> SUFFICES ASSUME CInv, [Next]_vars PROVE CInv'
  OBVIOUS
<1>1. ASSUME UNCHANGED <<carts, pc, op, met>> PROVE CInv'
  BY <1>1 DEF CInv, FlightsMeet, LoginStages, FoundNone, OneCart, InFlight, Kind
<1>2. ASSUME NEW i \in Instance, CronStart(i) \/ CronEnqueue(i) \/ CronEnd(i) \/ CronDies(i)
      PROVE  UNCHANGED <<carts, pc, op, met>>
  BY <1>2 DEF CronStart, CronEnqueue, CronEnd, CronDies, tables
<1>3. ASSUME NEW c \in CartId, WorkerStep(c) \/ Forget(c)
      PROVE  UNCHANGED <<carts, pc, op, met>>
  BY <1>3 DEF WorkerStep, RunJob, SendReminder, CompleteJob, Fail, Stall, Forget, tables
<1>4. LockExpires \/ UNCHANGED vars => UNCHANGED <<carts, pc, op, met>>
  BY DEF LockExpires, vars, tables
<1> QED
  BY <1>1, <1>2, <1>3, <1>4, ItemsKeepHolders, LoginKeeps DEF Next

\* A customer has more carts than one only by two logins at once: the look at the
\* customer's cart and the assignment of the guest's are two statements
\* (mergeCartOnLogin).
THEOREM SecondCartNeedsTwoLogins == Spec => []OneCart
<1>1. CInv => OneCart
  BY DEF CInv
<1> QED
  BY <1>1, StartCarts, CartsKept, PTL DEF Spec

-----------------------------------------------------------------------------
\* The tables, and what each request has read of them

SumType == [items : Nat, amount : Nat]
NoCart == {0}

ItemTypes ==
  /\ start \in Starts /\ op \in [Request -> Ops] /\ pc \in [Request -> Stage]
  /\ carts \in Seq(CartRow) /\ Len(carts) <= MaxCarts
  /\ rows \in Seq(Line)
  /\ \A n \in DOMAIN rows : rows[n].cart \in DOMAIN carts
  /\ cookie \in [Browser -> NoCart \cup DOMAIN carts]
  /\ cart \in [Request -> NoCart \cup DOMAIN carts]
  /\ own \in [Request -> NoCart \cup DOMAIN carts]
  /\ found = [q \in Request |-> found[q]]
  /\ match = [q \in Request |-> match[q]]
  /\ sum \in [Request -> SumType]

JobTypes ==
  /\ job \in [CartId -> JobStage]
  /\ left \in [CartId -> 0 .. RequestAttempts + CronAttempts]
  /\ stalled \in [CartId -> BOOLEAN]
  /\ \A c \in CartId : job[c] \in {"waiting", "active", "mailed"} => left[c] > 0

ReminderTypes ==
  /\ JobTypes
  /\ mails \in [CartId -> Nat]
  /\ cron \in [Instance -> [on : BOOLEAN, todo : SUBSET CartId]]
  /\ runs \in 0 .. MaxRuns /\ lock \in BOOLEAN /\ breaks \in 0 .. MaxBreaks

\* A request has read rows of the cart it works on.
FoundOK(q) ==
  /\ found[q] \in [DOMAIN found[q] -> Nat \ {0}]
  /\ \A n \in DOMAIN found[q] : n \in DOMAIN rows /\ rows[n].cart = cart[q]

\* A merge adds what it found of a merge key to a row of the customer's cart of that key.
MatchOK(q) ==
  /\ match[q] \in [DOMAIN match[q] -> [row : Nat, quantity : Nat \ {0}, from : Nat]]
  /\ \A k \in DOMAIN match[q] :
       /\ match[q][k].row \in DOMAIN rows
       /\ rows[match[q][k].row].cart = own[q]
       /\ MergeKey(match[q][k].row) = k
       /\ match[q][k].from \in DOMAIN found[q] /\ MergeKey(match[q][k].from) = k

\* What a request has not come to yet.
StageOK(q) ==
  /\ pc[q] = "idle" => cart[q] = 0
  /\ pc[q] \in {"idle", "routed"} => found[q] = Idle
  /\ pc[q] \in {"idle", "routed", "read", "written", "summed", "guest read", "assigning"} => own[q] = 0
  /\ pc[q] \in {"own read", "matched", "merging", "merged"} => own[q] # 0
  /\ pc[q] \in {"idle", "routed", "guest read", "own read"} => match[q] = Idle

TInv ==
  /\ ItemTypes /\ ReminderTypes
  /\ \A q \in Request : FoundOK(q) /\ MatchOK(q) /\ StageOK(q)

LEMMA CartIdsKnown ==
  ASSUME NEW cs, cs \in Seq(CartRow), Len(cs) <= MaxCarts
  PROVE  DOMAIN cs = 1 .. Len(cs) /\ Len(cs) \in Nat /\ DOMAIN cs \subseteq CartId
<1>1. DOMAIN cs = 1 .. Len(cs) /\ Len(cs) \in Nat
  BY LenProperties
<1> QED
  BY <1>1, CartsAssumption DEF CartId

LEMMA TInvTypes == TInv => TypeOK
<1> SUFFICES ASSUME TInv PROVE TypeOK
  OBVIOUS
<1>1. DOMAIN carts \subseteq CartId
  BY CartIdsKnown DEF TInv, ItemTypes
<1> QED
  BY <1>1 DEF TInv, TypeOK, ItemTypes, ReminderTypes, JobTypes, JobStage, FoundOK, MatchOK, SumType, NoCart

\* Rows are added and changed, and never change their cart or key.
Kept(new, cs) ==
  /\ new \in Seq(Line)
  /\ \A n \in DOMAIN rows : n \in DOMAIN new /\ new[n].cart = rows[n].cart /\ new[n].key = rows[n].key
  /\ \A n \in DOMAIN new : new[n].cart \in DOMAIN cs

LEMMA RowsAre ==
  ASSUME ItemTypes
  PROVE  /\ Len(rows) \in Nat /\ DOMAIN rows = 1 .. Len(rows)
         /\ rows \in [1 .. Len(rows) -> Line]
         /\ Kept(rows, carts)
<1>1. rows \in Seq(Line)
  BY DEF ItemTypes
<1> QED
  BY <1>1, LenProperties DEF ItemTypes, Kept

\* A function from 1 .. n is a sequence.
LEMMA SeqFromFunction ==
  ASSUME NEW S, NEW n \in Nat, NEW f \in [1 .. n -> S]
  PROVE  f \in Seq(S) /\ Len(f) = n /\ DOMAIN f = 1 .. n
OBVIOUS

LEMMA ErasedKept ==
  ASSUME ItemTypes, NEW ns
  PROVE  /\ Kept(Erased(ns), carts) /\ DOMAIN Erased(ns) = DOMAIN rows
         /\ \A n \in DOMAIN rows : n \notin ns => Erased(ns)[n] = rows[n]
         /\ \A n \in DOMAIN rows : n \in ns => Erased(ns)[n].quantity = 0 /\ Erased(ns)[n].total = 0
<1>1. Len(rows) \in Nat /\ DOMAIN rows = 1 .. Len(rows) /\ rows \in [1 .. Len(rows) -> Line]
  BY RowsAre
<1>2. /\ DOMAIN Erased(ns) = DOMAIN rows
      /\ \A n \in DOMAIN rows : Erased(ns)[n] = IF n \in ns THEN [rows[n] EXCEPT !.quantity = 0, !.total = 0]
                                                ELSE rows[n]
  BY DEF Erased
<1>3. ASSUME NEW n \in DOMAIN rows
      PROVE  Erased(ns)[n] \in Line
  <2>1. rows[n] \in Line
    BY <1>1
  <2>2. [rows[n] EXCEPT !.quantity = 0, !.total = 0] \in Line
    BY <2>1 DEF Line
  <2> QED
    BY <1>2, <2>1, <2>2
<1>4. Erased(ns) \in [1 .. Len(rows) -> Line]
  BY <1>1, <1>2, <1>3 DEF Erased
<1>5. Erased(ns) \in Seq(Line)
  BY <1>1, <1>4, SeqFromFunction
<1>6. \A n \in DOMAIN rows : Erased(ns)[n].cart = rows[n].cart /\ Erased(ns)[n].key = rows[n].key
  BY <1>1, <1>2 DEF Line
<1>7. \A n \in DOMAIN rows : n \in ns => Erased(ns)[n].quantity = 0 /\ Erased(ns)[n].total = 0
  BY <1>1, <1>2 DEF Line
<1> QED
  BY <1>2, <1>5, <1>6, <1>7 DEF Kept, ItemTypes

LEMMA FilledKept ==
  ASSUME ItemTypes, NEW n \in DOMAIN rows, NEW quantity \in Nat
  PROVE  /\ Kept(Filled(n, quantity), carts) /\ DOMAIN Filled(n, quantity) = DOMAIN rows
         /\ \A m \in DOMAIN rows : m # n => Filled(n, quantity)[m] = rows[m]
         /\ Filled(n, quantity)[n].quantity = (IF rows[n].quantity = 0 THEN 0 ELSE quantity)
         /\ Filled(n, quantity)[n].total = (IF rows[n].quantity = 0 THEN rows[n].total ELSE quantity)
<1>1. Len(rows) \in Nat /\ DOMAIN rows = 1 .. Len(rows) /\ rows \in [1 .. Len(rows) -> Line]
  BY RowsAre
<1>2. CASE rows[n].quantity = 0
  BY <1>2, RowsAre DEF Filled
<1>3. CASE rows[n].quantity # 0
  <2> DEFINE new == [rows EXCEPT ![n].quantity = quantity, ![n].total = quantity]
  <2>1. new \in [1 .. Len(rows) -> Line]
    BY <1>1 DEF Line
  <2>2. \A m \in DOMAIN rows : m # n => new[m] = rows[m]
    BY <1>1
  <2>3. /\ new[n].cart = rows[n].cart /\ new[n].key = rows[n].key
        /\ new[n].quantity = quantity /\ new[n].total = quantity
    BY <1>1 DEF Line
  <2>4. Filled(n, quantity) = new
    BY <1>3 DEF Filled
  <2> HIDE DEF new
  <2>5. new \in Seq(Line) /\ DOMAIN new = DOMAIN rows
    BY <1>1, <2>1, SeqFromFunction
  <2>6. Kept(new, carts)
    BY <2>2, <2>3, <2>5 DEF Kept, ItemTypes
  <2> QED
    BY <1>3, <2>2, <2>3, <2>4, <2>5, <2>6
<1> QED
  BY <1>2, <1>3

LEMMA AppendKept ==
  ASSUME ItemTypes, NEW r \in Line, r.cart \in DOMAIN carts
  PROVE  /\ Kept(Append(rows, r), carts)
         /\ DOMAIN Append(rows, r) = DOMAIN rows \cup {Len(rows) + 1} /\ Len(rows) + 1 \notin DOMAIN rows
         /\ \A n \in DOMAIN rows : Append(rows, r)[n] = rows[n]
         /\ Append(rows, r)[Len(rows) + 1] = r
<1>1. Len(rows) \in Nat /\ DOMAIN rows = 1 .. Len(rows) /\ rows \in Seq(Line)
  BY RowsAre DEF ItemTypes
<1> DEFINE new == Append(rows, r)
<1>2. /\ new \in Seq(Line) /\ Len(new) = Len(rows) + 1
      /\ \A i \in 1 .. Len(rows) : new[i] = rows[i]
      /\ new[Len(rows) + 1] = r
  BY <1>1, AppendProperties
<1> HIDE DEF new
<1>3. DOMAIN new = 1 .. Len(rows) + 1
  BY <1>2, LenProperties
<1>4. DOMAIN new = DOMAIN rows \cup {Len(rows) + 1} /\ Len(rows) + 1 \notin DOMAIN rows
  BY <1>1, <1>3
<1>5. Kept(new, carts)
  BY <1>1, <1>2, <1>4 DEF Kept, ItemTypes
<1> QED
  BY <1>1, <1>2, <1>4, <1>5 DEF new

-----------------------------------------------------------------------------
\* Sums, totals and the rows of a merge

LEMMA RowsOfFinite ==
  ASSUME NEW rs \in Seq(Line), NEW c
  PROVE  /\ IsFiniteSet(DOMAIN rs) /\ IsFiniteSet(RowsOf(rs, c)) /\ RowsOf(rs, c) \subseteq DOMAIN rs
         /\ Counts(Quantities(rs), DOMAIN rs) /\ Counts(Totals(rs), DOMAIN rs)
         /\ Counts(Quantities(rs), RowsOf(rs, c)) /\ Counts(Totals(rs), RowsOf(rs, c))
<1>1. Len(rs) \in Nat /\ DOMAIN rs = 1 .. Len(rs) /\ rs \in [1 .. Len(rs) -> Line]
  BY LenProperties
<1>2. IsFiniteSet(DOMAIN rs)
  BY <1>1, FS_Interval
<1>3. RowsOf(rs, c) \subseteq DOMAIN rs
  BY DEF RowsOf
<1>4. \A n \in DOMAIN rs : rs[n].quantity \in Nat /\ rs[n].total \in Nat
  BY <1>1 DEF Line
<1> QED
  BY <1>2, <1>3, <1>4, FS_Subset DEF Counts, Quantities, Totals

LEMMA SumOfType ==
  ASSUME NEW rs \in Seq(Line), NEW c
  PROVE  SumOf(rs, c) \in SumType
BY RowsOfFinite, SumIsNat DEF SumOf, SumType

\* Carts whose totals change.
LEMMA TotalledType ==
  ASSUME ItemTypes, NEW c, NEW s \in SumType
  PROVE  /\ Totalled(c, s) \in Seq(CartRow) /\ Len(Totalled(c, s)) = Len(carts)
         /\ DOMAIN Totalled(c, s) = DOMAIN carts
         /\ \A d \in DOMAIN carts : Totalled(c, s)[d].holder = carts[d].holder
         /\ \A d \in DOMAIN carts : d # c => Totalled(c, s)[d] = carts[d]
         /\ Exists(c) => Totalled(c, s)[c].items = s.items /\ Totalled(c, s)[c].amount = s.amount
         /\ ~Exists(c) => Totalled(c, s) = carts
<1>1. Len(carts) \in Nat /\ DOMAIN carts = 1 .. Len(carts) /\ carts \in [1 .. Len(carts) -> CartRow]
  BY LenProperties DEF ItemTypes
<1>2. CASE ~Exists(c)
  BY <1>2 DEF Totalled, ItemTypes
<1>3. CASE Exists(c)
  <2> DEFINE x == s.items
             y == s.amount
             new == [carts EXCEPT ![c].items = x, ![c].amount = y]
  <2>1. c \in DOMAIN carts /\ Totalled(c, s) = new /\ x \in Nat /\ y \in Nat
    BY <1>3 DEF Exists, Totalled, SumType
  <2> HIDE DEF x, y
  <2>2. new \in [1 .. Len(carts) -> CartRow]
    BY <1>1, <2>1 DEF CartRow
  <2>3. \A d \in DOMAIN carts : d # c => new[d] = carts[d]
    BY <1>1
  <2>4. new[c].holder = carts[c].holder /\ new[c].items = x /\ new[c].amount = y
    BY <1>1, <2>1 DEF CartRow
  <2> HIDE DEF new
  <2>5. new \in Seq(CartRow) /\ Len(new) = Len(carts) /\ DOMAIN new = DOMAIN carts
    BY <1>1, <2>2, SeqFromFunction
  <2> QED
    BY <1>3, <2>1, <2>3, <2>4, <2>5 DEF x, y
<1> QED
  BY <1>2, <1>3

LEMMA SetToSeqIs ==
  ASSUME NEW S, IsFiniteSet(S)
  PROVE  /\ Cardinality(S) \in Nat /\ SetToSeq(S) \in [1 .. Cardinality(S) -> S]
         /\ \A i, j \in 1 .. Cardinality(S) : SetToSeq(S)[i] = SetToSeq(S)[j] => i = j
         /\ \A x \in S : \E i \in 1 .. Cardinality(S) : SetToSeq(S)[i] = x
<1> DEFINE N == 1 .. Cardinality(S)
           f == SetToSeq(S)
<1>1. Cardinality(S) \in Nat /\ ExistsBijection(N, S)
  BY FS_CardinalityType
<1>2. \E g \in [N -> S] : IsInjective(g)
  BY <1>1 DEF ExistsBijection, Bijection, Injection
<1>3. f \in [N -> S] /\ IsInjective(f)
  BY <1>2 DEF SetToSeq
<1>4. IsFiniteSet(N) /\ Cardinality(N) = Cardinality(S)
  BY <1>1, FS_Interval
<1>5. f \in Injection(N, S)
  BY <1>3 DEF Injection
<1> HIDE DEF f, N
<1>6. f \in Surjection(N, S)
  BY <1>4, <1>5, FS_Injection
<1>7. \A x \in S : \E i \in N : f[i] = x
  BY <1>6 DEF Surjection
<1>8. \A i, j \in N : f[i] = f[j] => i = j
  BY <1>3 DEF IsInjective
<1> QED
  BY <1>1, <1>3, <1>7, <1>8 DEF f, N

\* What a merge adds of a merge key.
LEMMA FromGuestIs ==
  ASSUME TInv, NEW q \in Request, NEW k \in DOMAIN match[q]
  PROVE  FromGuest(q, k) \in Nat \ {0}
<1>1. FoundOK(q) /\ MatchOK(q)
  BY DEF TInv
<1> QED
  BY <1>1 DEF FromGuest, FoundOK, MatchOK

LEMMA RaisedIs ==
  ASSUME TInv, NEW q \in Request
  PROVE  /\ Raised(q) \in Seq(Line) /\ Len(Raised(q)) = Len(rows) /\ DOMAIN Raised(q) = DOMAIN rows
         /\ \A n \in DOMAIN rows :
              /\ Raised(q)[n].cart = rows[n].cart /\ Raised(q)[n].key = rows[n].key
              /\ ~Hit(q, n) => Raised(q)[n] = rows[n]
              /\ Hit(q, n) =>
                   /\ rows[n].cart = own[q] /\ MergeKey(n) \in DOMAIN match[q]
                   /\ Raised(q)[n].quantity = rows[n].quantity + FromGuest(q, MergeKey(n))
                   /\ Raised(q)[n].total =
                        match[q][MergeKey(n)].quantity + FromGuest(q, MergeKey(n))
<1>1. Len(rows) \in Nat /\ DOMAIN rows = 1 .. Len(rows) /\ rows \in [1 .. Len(rows) -> Line]
  BY RowsAre DEF TInv
<1>2. MatchOK(q)
  BY DEF TInv
<1> DEFINE r == Raised(q)
<1>3. DOMAIN r = DOMAIN rows /\ \A n \in DOMAIN rows : ~Hit(q, n) => r[n] = rows[n]
  BY DEF Raised
<1>4. ASSUME NEW n \in DOMAIN rows, Hit(q, n)
      PROVE  /\ r[n] \in Line /\ r[n].cart = rows[n].cart /\ r[n].key = rows[n].key
             /\ rows[n].cart = own[q] /\ MergeKey(n) \in DOMAIN match[q]
             /\ r[n].quantity = rows[n].quantity + FromGuest(q, MergeKey(n))
             /\ r[n].total = match[q][MergeKey(n)].quantity + FromGuest(q, MergeKey(n))
  <2> DEFINE k == MergeKey(n)
             m == match[q][k].quantity
             more == FromGuest(q, k)
  <2>1. k \in DOMAIN match[q] /\ match[q][k].row = n
    BY <1>4 DEF Hit
  <2>2. m \in Nat /\ more \in Nat /\ rows[n] \in Line
    BY <1>1, <1>2, <2>1, FromGuestIs DEF MatchOK
  <2>3. r[n] = [rows[n] EXCEPT !.quantity = rows[n].quantity + more, !.total = m + more]
    BY <1>4 DEF Raised
  <2> HIDE DEF m, more, r
  <2>4. /\ r[n] \in Line /\ r[n].cart = rows[n].cart /\ r[n].key = rows[n].key
        /\ r[n].quantity = rows[n].quantity + more /\ r[n].total = m + more
    <3> DEFINE x == rows[n].quantity + more
               y == m + more
    <3>1. x \in Nat /\ y \in Nat
      BY <2>2 DEF Line
    <3>2. r[n] = [rows[n] EXCEPT !.quantity = x, !.total = y]
      BY <2>3
    <3> HIDE DEF x, y
    <3>3. /\ r[n] \in Line /\ r[n].cart = rows[n].cart /\ r[n].key = rows[n].key
          /\ r[n].quantity = x /\ r[n].total = y
      BY <2>2, <3>1, <3>2 DEF Line
    <3> QED
      BY <3>3 DEF x, y
  <2>5. rows[n].cart = own[q]
    BY <1>2, <2>1 DEF MatchOK
  <2> QED
    BY <2>1, <2>4, <2>5 DEF m, more
<1>5. \A n \in DOMAIN rows : r[n] \in Line
  BY <1>1, <1>3, <1>4
<1>6. r \in [1 .. Len(rows) -> Line]
  BY <1>1, <1>3, <1>5 DEF Raised
<1> HIDE DEF r
<1>7. r \in Seq(Line) /\ Len(r) = Len(rows)
  BY <1>1, <1>6, SeqFromFunction
<1> QED
  BY <1>3, <1>4, <1>7 DEF r

LEMMA UnmatchedIs ==
  ASSUME TInv, NEW q \in Request
  PROVE  /\ IsFiniteSet(Unmatched(q)) /\ Unmatched(q) \subseteq DOMAIN found[q]
         /\ Unmatched(q) \subseteq DOMAIN rows
         /\ \A g \in Unmatched(q) : found[q][g] \in Nat \ {0} /\ rows[g].key \in Key
<1>1. Len(rows) \in Nat /\ DOMAIN rows = 1 .. Len(rows) /\ rows \in [1 .. Len(rows) -> Line]
  BY RowsAre DEF TInv
<1>2. Unmatched(q) \subseteq DOMAIN found[q] /\ Unmatched(q) \subseteq DOMAIN rows
  BY DEF Unmatched, TInv, FoundOK
<1>3. IsFiniteSet(Unmatched(q))
  <2>1. IsFiniteSet(DOMAIN rows)
    BY <1>1, FS_Interval
  <2> QED
    BY <1>2, <2>1, FS_Subset
<1>4. \A g \in Unmatched(q) : found[q][g] \in Nat \ {0} /\ rows[g].key \in Key
  BY <1>1, <1>2 DEF TInv, FoundOK, Line
<1> QED
  BY <1>2, <1>3, <1>4

LEMMA InsertedIs ==
  ASSUME TInv, NEW q \in Request, own[q] # 0
  PROVE  LET gs == SetToSeq(Unmatched(q)) IN
         /\ Inserted(q) \in Seq(Line) /\ Len(Inserted(q)) = Cardinality(Unmatched(q))
         /\ \A i \in 1 .. Cardinality(Unmatched(q)) :
              /\ gs[i] \in Unmatched(q) /\ Inserted(q)[i].cart = own[q]
              /\ Inserted(q)[i].key = rows[gs[i]].key
              /\ Inserted(q)[i].quantity = found[q][gs[i]]
              /\ Inserted(q)[i].total = found[q][gs[i]]
<1> DEFINE gs == SetToSeq(Unmatched(q))
           N == Cardinality(Unmatched(q))
           new == Inserted(q)
<1>0. IsFiniteSet(Unmatched(q))
  BY UnmatchedIs
<1>1. N \in Nat /\ gs \in [1 .. N -> Unmatched(q)]
  BY <1>0, SetToSeqIs
<1>2. own[q] \in CartId
  BY CartIdsKnown DEF TInv, ItemTypes, NoCart
<1>3. new = [i \in 1 .. N |-> [cart |-> own[q], key |-> rows[gs[i]].key,
                               quantity |-> found[q][gs[i]], total |-> found[q][gs[i]]]]
  BY <1>1 DEF Inserted
<1> HIDE DEF gs, N, new
<1>4. \A i \in 1 .. N : found[q][gs[i]] \in Nat /\ rows[gs[i]].key \in Key /\ gs[i] \in Unmatched(q)
  <2>1. \A g \in Unmatched(q) : found[q][g] \in Nat \ {0} /\ rows[g].key \in Key
    BY UnmatchedIs
  <2> QED
    BY <1>1, <2>1
<1>5. new \in [1 .. N -> Line]
  BY <1>2, <1>3, <1>4 DEF Line
<1>6. new \in Seq(Line) /\ Len(new) = N
  BY <1>1, <1>5, SeqFromFunction
<1>7. \A i \in 1 .. N : /\ new[i].cart = own[q] /\ new[i].key = rows[gs[i]].key
                        /\ new[i].quantity = found[q][gs[i]] /\ new[i].total = found[q][gs[i]]
  BY <1>3
<1> QED
  BY <1>4, <1>6, <1>7 DEF gs, N, new

\* The rows after a merge: those there, raised, and then those inserted.
Merged(q) == Raised(q) \o Inserted(q)

LEMMA MergedIs ==
  ASSUME TInv, NEW q \in Request, own[q] # 0
  PROVE  /\ Merged(q) \in Seq(Line) /\ Len(Merged(q)) = Len(rows) + Cardinality(Unmatched(q))
         /\ \A n \in DOMAIN rows : Merged(q)[n] = Raised(q)[n]
         /\ \A i \in 1 .. Cardinality(Unmatched(q)) : Merged(q)[Len(rows) + i] = Inserted(q)[i]
         /\ Kept(Merged(q), carts)
<1>1. /\ Raised(q) \in Seq(Line) /\ Len(Raised(q)) = Len(rows)
      /\ Inserted(q) \in Seq(Line) /\ Len(Inserted(q)) = Cardinality(Unmatched(q))
  BY RaisedIs, InsertedIs
<1>2. Len(rows) \in Nat /\ DOMAIN rows = 1 .. Len(rows)
  BY RowsAre DEF TInv
<1>3. Cardinality(Unmatched(q)) \in Nat
  BY UnmatchedIs, FS_CardinalityType
<1> DEFINE m == Merged(q)
           r == Raised(q)
           more == Inserted(q)
           L == Len(rows)
           N == Cardinality(Unmatched(q))
<1>4. /\ m \in Seq(Line) /\ Len(m) = L + N
      /\ \A i \in 1 .. L + N : m[i] = IF i <= L THEN r[i] ELSE more[i - L]
  <2>1. m = r \o more /\ r \in Seq(Line) /\ more \in Seq(Line) /\ Len(r) = L /\ Len(more) = N
    BY <1>1 DEF Merged
  <2> HIDE DEF m, r, more, L, N
  <2> QED
    BY <2>1, ConcatProperties
<1> HIDE DEF m
<1>5. DOMAIN m = 1 .. L + N
  BY <1>4, LenProperties
<1>6. \A n \in DOMAIN rows : n \in DOMAIN m /\ m[n] = Raised(q)[n]
  BY <1>2, <1>3, <1>4, <1>5
<1>7. \A i \in 1 .. N : m[L + i] = Inserted(q)[i]
  BY <1>2, <1>3, <1>4
<1>8. \A n \in DOMAIN m : n \in DOMAIN rows \/ (n - L \in 1 .. N /\ n = L + (n - L))
  BY <1>2, <1>3, <1>5
<1>9. own[q] \in DOMAIN carts
  BY DEF TInv, ItemTypes, NoCart
<1>10. \A n \in DOMAIN m : m[n].cart \in DOMAIN carts
  <2> SUFFICES ASSUME NEW n \in DOMAIN m PROVE m[n].cart \in DOMAIN carts
    OBVIOUS
  <2>1. CASE n \in DOMAIN rows
    BY <1>6, <2>1, RaisedIs DEF TInv, ItemTypes
  <2>2. CASE n - L \in 1 .. N /\ n = L + (n - L)
    BY <1>7, <1>9, <2>2, InsertedIs
  <2> QED
    BY <1>8, <2>1, <2>2
<1>11. \A n \in DOMAIN rows : m[n].cart = rows[n].cart /\ m[n].key = rows[n].key
  BY <1>6, RaisedIs
<1> QED
  BY <1>4, <1>6, <1>7, <1>10, <1>11 DEF Kept, m

-----------------------------------------------------------------------------
\* Every step keeps the types

\* A job that may run has an attempt left.
LEMMA EnqueueTyped ==
  ASSUME JobTypes, NEW c, NEW n \in {RequestAttempts, CronAttempts}, Enqueue(c, n)
  PROVE  JobTypes'
<1>1. n \in 0 .. RequestAttempts + CronAttempts /\ n > 0
  BY CartsAssumption
<1>2. CASE UNCHANGED jobs
  BY <1>2 DEF JobTypes, jobs
<1>3. CASE /\ job' = [job EXCEPT ![c] = "waiting"]
           /\ left' = [left EXCEPT ![c] = n]
           /\ stalled' = [stalled EXCEPT ![c] = FALSE]
  <2>1. /\ job' \in [CartId -> JobStage] /\ stalled' \in [CartId -> BOOLEAN]
        /\ left' \in [CartId -> 0 .. RequestAttempts + CronAttempts]
    BY <1>1, <1>3 DEF JobTypes, JobStage
  <2>2. ASSUME NEW d \in CartId, job'[d] \in {"waiting", "active", "mailed"}
        PROVE  left'[d] > 0
    BY <1>1, <1>3, <2>2 DEF JobTypes
  <2> QED
    BY <2>1, <2>2 DEF JobTypes
<1> QED
  BY <1>2, <1>3 DEF Enqueue

LEMMA WorkerTyped ==
  ASSUME JobTypes, NEW c \in CartId, WorkerStep(c) \/ Forget(c)
  PROVE  JobTypes'
<1>1. PICK j \in JobStage : job' = [job EXCEPT ![c] = j]
  BY JobMoves
<1>2. job' \in [CartId -> JobStage] /\ job'[c] = j /\ \A d \in CartId : d # c => job'[d] = job[d]
  BY <1>1 DEF JobTypes
<1>3. stalled' \in [CartId -> BOOLEAN]
  BY DEF JobTypes, WorkerStep, RunJob, SendReminder, CompleteJob, Fail, Stall, Forget
<1>4. ASSUME UNCHANGED left, job[c] \in {"waiting", "active", "mailed"} \/ j = "none"
      PROVE  JobTypes'
  BY <1>2, <1>3, <1>4 DEF JobTypes
<1>5. CASE RunJob(c) \/ SendReminder(c) \/ CompleteJob(c) \/ Stall(c)
  BY <1>4, <1>5 DEF RunJob, SendReminder, CompleteJob, Stall
<1>6. CASE Forget(c)
  BY <1>2, <1>4, <1>6 DEF Forget, JobTypes
<1>7. CASE Fail(c)
  <2>1. left[c] \in 0 .. RequestAttempts + CronAttempts /\ left[c] > 0
    BY <1>7 DEF Fail, JobTypes
  <2>2. /\ left' = [left EXCEPT ![c] = left[c] - 1]
        /\ job'[c] = IF left[c] > 1 THEN "waiting" ELSE "failed"
    BY <1>7 DEF Fail, JobTypes
  <2>3. left[c] - 1 \in 0 .. RequestAttempts + CronAttempts
    BY <2>1, CartsAssumption
  <2>4. left' \in [CartId -> 0 .. RequestAttempts + CronAttempts]
    BY <2>2, <2>3 DEF JobTypes
  <2>5. left'[c] = left[c] - 1 /\ \A d \in CartId : d # c => left'[d] = left[d]
    BY <2>2 DEF JobTypes
  <2>6. job'[c] = "waiting" => left'[c] > 0
    BY <2>1, <2>2, <2>5
  <2>7. job'[c] \in {"waiting", "failed"}
    BY <2>2
  <2>8. ASSUME NEW d \in CartId, job'[d] \in {"waiting", "active", "mailed"}
        PROVE  left'[d] > 0
    BY <1>2, <2>5, <2>6, <2>7, <2>8 DEF JobTypes
  <2> QED
    BY <1>2, <1>3, <2>4, <2>8 DEF JobTypes
<1> QED
  BY <1>5, <1>6, <1>7 DEF WorkerStep

LEMMA ReminderTyped == TInv /\ [Next]_vars => ReminderTypes'
<1> SUFFICES ASSUME TInv, [Next]_vars PROVE ReminderTypes'
  OBVIOUS
<1>0. ReminderTypes /\ DOMAIN carts \subseteq CartId
  BY CartIdsKnown DEF TInv, ItemTypes
<1>1. ASSUME UNCHANGED reminders PROVE ReminderTypes'
  BY <1>0, <1>1 DEF ReminderTypes, JobTypes, reminders, jobs
<1>2. ASSUME UNCHANGED jobs PROVE JobTypes'
  BY <1>0, <1>2 DEF ReminderTypes, JobTypes, jobs
<1>3. ASSUME NEW q \in Request, Reply(q) PROVE ReminderTypes'
  <2>1. /\ UNCHANGED <<mails, cron, runs, lock, breaks>>
        /\ UNCHANGED jobs \/ \E c \in {own[q], cart[q]} : Enqueue(c, RequestAttempts)
    BY <1>3 DEF Reply
  <2>2. JobTypes'
    BY <1>0, <1>2, <2>1, EnqueueTyped DEF ReminderTypes
  <2> QED
    BY <1>0, <2>1, <2>2 DEF ReminderTypes
<1>4. ASSUME NEW i \in Instance, CronEnqueue(i) PROVE ReminderTypes'
  <2>1. PICK c \in cron[i].todo : Enqueue(c, CronAttempts) /\ cron' = [cron EXCEPT ![i].todo = @ \ {c}]
    BY <1>4 DEF CronEnqueue
  <2>2. cron' \in [Instance -> [on : BOOLEAN, todo : SUBSET CartId]]
    <3>1. cron[i].todo \ {c} \in SUBSET CartId
      BY <1>0 DEF ReminderTypes
    <3> QED
      BY <1>0, <2>1, <3>1 DEF ReminderTypes
  <2>3. JobTypes'
    BY <1>0, <2>1, EnqueueTyped DEF ReminderTypes
  <2> QED
    BY <1>0, <1>4, <2>2, <2>3 DEF ReminderTypes, CronEnqueue
<1>5. ASSUME NEW i \in Instance, CronStart(i) PROVE ReminderTypes'
  <2>1. PICK todo \in SUBSET DOMAIN carts : cron' = [cron EXCEPT ![i] = [on |-> TRUE, todo |-> todo]]
    <3>1. PICK todo \in SUBSET {c \in DOMAIN carts : carts[c].holder = "customer" /\ carts[c].items > 0} :
            cron' = [cron EXCEPT ![i] = [on |-> TRUE, todo |-> todo]]
      BY <1>5 DEF CronStart
    <3>2. todo \in SUBSET DOMAIN carts
      OBVIOUS
    <3> QED
      BY <3>1, <3>2
  <2>2. cron' \in [Instance -> [on : BOOLEAN, todo : SUBSET CartId]]
    BY <1>0, <2>1 DEF ReminderTypes
  <2>3. runs' \in 0 .. MaxRuns
    BY <1>0, <1>5, CartsAssumption DEF ReminderTypes, CronStart
  <2>4. JobTypes' /\ UNCHANGED <<mails, breaks>> /\ lock' \in BOOLEAN
    BY <1>2, <1>5 DEF CronStart
  <2> QED
    BY <1>0, <2>2, <2>3, <2>4 DEF ReminderTypes
<1>6. ASSUME NEW i \in Instance, CronEnd(i) \/ CronDies(i) PROVE ReminderTypes'
  <2>1. Off \in [on : BOOLEAN, todo : SUBSET CartId]
    BY DEF Off
  <2>2. cron' \in [Instance -> [on : BOOLEAN, todo : SUBSET CartId]]
    BY <1>0, <1>6, <2>1 DEF ReminderTypes, CronEnd, CronDies
  <2>3. UNCHANGED <<jobs, mails, runs, breaks>> /\ lock' \in BOOLEAN
    BY <1>0, <1>6 DEF ReminderTypes, CronEnd, CronDies
  <2> QED
    BY <1>0, <1>2, <2>2, <2>3 DEF ReminderTypes
<1>7. LockExpires => ReminderTypes'
  BY <1>0, <1>2 DEF ReminderTypes, LockExpires
<1>8. ASSUME NEW c \in CartId, WorkerStep(c) \/ Forget(c)
      PROVE  ReminderTypes'
  <2>1. JobTypes'
    BY <1>0, <1>8, WorkerTyped DEF ReminderTypes
  <2>2. mails' \in [CartId -> Nat]
    BY <1>0, <1>8
    DEF ReminderTypes, WorkerStep, RunJob, SendReminder, CompleteJob, Fail, Stall, Forget
  <2>3. breaks' \in 0 .. MaxBreaks
    BY <1>0, <1>8, CartsAssumption
    DEF ReminderTypes, WorkerStep, RunJob, SendReminder, CompleteJob, Fail, Stall, Forget
  <2>4. UNCHANGED <<cron, runs, lock>>
    BY <1>8 DEF WorkerStep, RunJob, SendReminder, CompleteJob, Fail, Stall, Forget
  <2> QED
    BY <1>0, <2>1, <2>2, <2>3, <2>4 DEF ReminderTypes
<1>9. ASSUME NEW q \in Request, Route(q) \/ ReadGuest(q) \/ PlaceOrder(q) \/ Cut(q)
      PROVE  UNCHANGED reminders
  BY <1>9 DEF Route, RouteToCart, RouteToNewCart, RouteNowhere, ReadGuest, PlaceOrder, Cut
<1>10. ASSUME NEW q \in Request, ItemStep(q)
       PROVE  UNCHANGED reminders
  BY <1>10 DEF ItemStep, ReadLine, WriteLine, InsertLine, SumLines, WriteTotals
<1>11. ASSUME NEW q \in Request, LoginStep(q)
       PROVE  UNCHANGED reminders
  BY <1>11 DEF LoginStep, ReadOwn, AssignCart, MatchLines, SumMerged, CommitMerge, DeleteGuest
<1>12. UNCHANGED vars => UNCHANGED reminders
  BY DEF vars
<1> QED
  BY <1>1, <1>3, <1>4, <1>5, <1>6, <1>7, <1>8, <1>9, <1>10, <1>11, <1>12 DEF Next

\* What a request has read stays true of the rows, which keep their carts and keys.
LEMMA ReadKept ==
  ASSUME TInv, NEW r \in Request, NEW cs, NEW new, Kept(new, cs), rows' = new,
         cart'[r] = cart[r], own'[r] = own[r], found'[r] = found[r], match'[r] = match[r]
  PROVE  FoundOK(r)' /\ MatchOK(r)'
<1>1. FoundOK(r) /\ MatchOK(r)
  BY DEF TInv
<1>2. \A n \in DOMAIN rows : n \in DOMAIN rows' /\ rows'[n].cart = rows[n].cart /\ rows'[n].key = rows[n].key
  BY DEF Kept
<1>3. FoundOK(r)'
  BY <1>1, <1>2 DEF FoundOK
<1>4. MatchOK(r)'
  <2> SUFFICES ASSUME NEW k \in DOMAIN match[r]
               PROVE  /\ match[r][k].row \in DOMAIN rows'
                      /\ rows'[match[r][k].row].cart = own[r]
                      /\ MergeKey(match[r][k].row)' = k
                      /\ match[r][k].from \in DOMAIN found[r] /\ MergeKey(match[r][k].from)' = k
    BY <1>1 DEF MatchOK, MergeKey
  <2>1. match[r][k].row \in DOMAIN rows /\ match[r][k].from \in DOMAIN rows
    BY <1>1 DEF MatchOK, FoundOK
  <2> QED
    BY <1>1, <1>2, <2>1 DEF MatchOK, MergeKey
<1> QED
  BY <1>3, <1>4

\* A step of one request, whose own reads are as they should be after it.
LEMMA StepTyped ==
  ASSUME TInv, ReminderTypes',
         NEW q \in Request, NEW s \in Stage, pc' = [pc EXCEPT ![q] = s], UNCHANGED <<start, op>>,
         Kept(rows', carts'), carts' \in Seq(CartRow),
         Len(carts) <= Len(carts'), Len(carts') <= MaxCarts,
         cookie' \in [Browser -> NoCart \cup DOMAIN carts'],
         UNCHANGED cart \/ \E c \in NoCart \cup DOMAIN carts' : cart' = [cart EXCEPT ![q] = c],
         UNCHANGED own \/ \E c \in NoCart \cup DOMAIN carts' : own' = [own EXCEPT ![q] = c],
         UNCHANGED found \/ \E f : found' = [found EXCEPT ![q] = f],
         UNCHANGED match \/ \E m : match' = [match EXCEPT ![q] = m],
         UNCHANGED sum \/ \E t \in SumType : sum' = [sum EXCEPT ![q] = t],
         FoundOK(q)', MatchOK(q)', StageOK(q)'
  PROVE  TInv'
<1>1. ItemTypes
  BY DEF TInv
<1>2. DOMAIN carts \subseteq DOMAIN carts'
  <2>1. DOMAIN carts = 1 .. Len(carts) /\ Len(carts) \in Nat
    BY <1>1, LenProperties DEF ItemTypes
  <2>2. DOMAIN carts' = 1 .. Len(carts') /\ Len(carts') \in Nat
    BY LenProperties
  <2> QED
    BY <2>1, <2>2
<1>3. pc' \in [Request -> Stage] /\ \A r \in Request : r # q => pc'[r] = pc[r]
  BY <1>1 DEF ItemTypes
<1>4. /\ cart' \in [Request -> NoCart \cup DOMAIN carts']
      /\ \A r \in Request : r # q => cart'[r] = cart[r]
  BY <1>1, <1>2 DEF ItemTypes
<1>5. /\ own' \in [Request -> NoCart \cup DOMAIN carts']
      /\ \A r \in Request : r # q => own'[r] = own[r]
  BY <1>1, <1>2 DEF ItemTypes
<1>6. found' = [r \in Request |-> found'[r]] /\ \A r \in Request : r # q => found'[r] = found[r]
  BY <1>1 DEF ItemTypes
<1>7. match' = [r \in Request |-> match'[r]] /\ \A r \in Request : r # q => match'[r] = match[r]
  BY <1>1 DEF ItemTypes
<1>8. sum' \in [Request -> SumType]
  BY <1>1 DEF ItemTypes
<1>9. ItemTypes'
  BY <1>1, <1>3, <1>4, <1>5, <1>6, <1>7, <1>8 DEF ItemTypes, Kept
<1>10. ASSUME NEW r \in Request
       PROVE  FoundOK(r)' /\ MatchOK(r)' /\ StageOK(r)'
  <2>1. CASE r = q
    BY <2>1
  <2>2. CASE r # q
    <3>1. FoundOK(r)' /\ MatchOK(r)'
      BY <1>4, <1>5, <1>6, <1>7, <2>2, ReadKept
    <3>2. StageOK(r)'
      BY <1>3, <1>4, <1>5, <1>6, <1>7, <2>2 DEF TInv, StageOK
    <3> QED
      BY <3>1, <3>2
  <2> QED
    BY <2>1, <2>2
<1> QED
  BY <1>9, <1>10 DEF TInv

LEMMA NotLess == \A n \in Nat : n <= n
OBVIOUS

\* A step that reads nothing.
LEMMA WriteTyped ==
  ASSUME TInv, ReminderTypes',
         NEW q \in Request, NEW s \in Stage, pc' = [pc EXCEPT ![q] = s],
         UNCHANGED <<start, op, cart, own, found, match>>,
         UNCHANGED sum \/ \E t \in SumType : sum' = [sum EXCEPT ![q] = t],
         Kept(rows', carts'), carts' \in Seq(CartRow), Len(carts') = Len(carts),
         cookie' \in [Browser -> NoCart \cup DOMAIN carts'],
         s \notin {"idle", "routed", "guest read", "own read"},
         s \in {"read", "written", "summed", "assigning"} => own[q] = 0,
         s \in {"matched", "merging", "merged"} => own[q] # 0
  PROVE  TInv'
<1>1. FoundOK(q)' /\ MatchOK(q)'
  BY ReadKept
<1>2. pc'[q] = s
  BY DEF TInv, ItemTypes
<1>3. StageOK(q)'
  BY <1>2 DEF StageOK
<1>4. Len(carts) <= Len(carts') /\ Len(carts') <= MaxCarts
  <2>1. Len(carts) \in Nat /\ Len(carts) <= MaxCarts
    BY LenProperties DEF TInv, ItemTypes
  <2>2. Len(carts') = Len(carts)
    OBVIOUS
  <2>3. Len(carts) <= Len(carts)
    BY <2>1, NotLess, Zenon
  <2> QED
    BY <2>1, <2>2, <2>3, Zenon
<1> QED
  BY <1>1, <1>3, <1>4, StepTyped

LEMMA TypeFacts ==
  ASSUME TInv, NEW q \in Request
  PROVE  /\ ItemTypes /\ FoundOK(q) /\ MatchOK(q) /\ StageOK(q)
         /\ Kept(rows, carts) /\ carts \in Seq(CartRow) /\ Len(carts) \in Nat /\ Len(carts) <= MaxCarts
         /\ DOMAIN carts = 1 .. Len(carts) /\ DOMAIN carts \subseteq CartId
         /\ rows \in Seq(Line) /\ rows \in [DOMAIN rows -> Line]
         /\ cookie \in [Browser -> NoCart \cup DOMAIN carts]
         /\ op[q] \in Op
<1>1. ItemTypes /\ FoundOK(q) /\ MatchOK(q) /\ StageOK(q)
  BY DEF TInv
<1>2. Kept(rows, carts) /\ rows \in [DOMAIN rows -> Line]
  BY <1>1, RowsAre
<1>3. op[q] \in Op
  BY <1>1, CartsAssumption DEF ItemTypes
<1> QED
  BY <1>1, <1>2, <1>3, CartIdsKnown, LenProperties DEF ItemTypes

LEMMA RouteTyped ==
  ASSUME TInv, ReminderTypes', NEW q \in Request, Route(q)
  PROVE  TInv'
<1> USE DEF Goto, Stage, Ended, NoCart
<1>0. /\ Kept(rows, carts) /\ carts \in Seq(CartRow) /\ Len(carts) <= MaxCarts /\ Len(carts) \in Nat
      /\ cookie \in [Browser -> NoCart \cup DOMAIN carts]
      /\ op[q] \in Op
  BY TypeFacts
<1>1. pc[q] = "idle" /\ found[q] = Idle /\ match[q] = Idle /\ own[q] = 0 /\ cart[q] = 0
  BY TypeFacts DEF Route, RouteToCart, RouteToNewCart, RouteNowhere, Begin, StageOK
<1>2. Len(carts) <= Len(carts)
  BY <1>0, NotLess, Zenon
<1>3. CASE RouteToCart(q)
  <2> DEFINE c == cookie[op[q].browser]
  <2>1. /\ pc' = [pc EXCEPT ![q] = "routed"] /\ cart' = [cart EXCEPT ![q] = c]
        /\ UNCHANGED <<start, carts, rows, cookie, op, own, found, match, sum>>
    BY <1>3 DEF RouteToCart, tables
  <2>2. c \in DOMAIN carts
    BY <1>3 DEF RouteToCart, Exists
  <2> HIDE DEF c
  <2>3. pc'[q] = "routed" /\ cart'[q] = c
    BY <2>1 DEF TInv, ItemTypes
  <2>4. FoundOK(q)' /\ MatchOK(q)'
    BY <1>1, <2>1, TypeFacts DEF FoundOK, MatchOK, Idle
  <2>5. StageOK(q)'
    BY <1>1, <2>1, <2>3 DEF StageOK
  <2>6. "routed" \in Stage /\ c \in NoCart \cup DOMAIN carts'
    BY <2>1, <2>2
  <2>7. Kept(rows', carts')
    BY <1>0, <2>1
  <2> QED
    BY <1>0, <1>2, <2>1, <2>4, <2>5, <2>6, <2>7, StepTyped
<1>4. CASE RouteToNewCart(q)
  <2> DEFINE new == [holder |-> "guest", items |-> 0, amount |-> 0]
  <2>1. /\ pc' = [pc EXCEPT ![q] = "routed"] /\ cart' = [cart EXCEPT ![q] = Len(carts')]
        /\ carts' = Append(carts, new) /\ Len(carts) < MaxCarts
        /\ UNCHANGED <<start, rows, cookie, op, own, found, match, sum>>
    BY <1>4 DEF RouteToNewCart
  <2>2. new \in CartRow
    BY DEF CartRow
  <2> HIDE DEF new
  <2>3. carts' \in Seq(CartRow) /\ Len(carts') = Len(carts) + 1
    BY <1>0, <2>1, <2>2, AppendProperties
  <2>4. DOMAIN carts' = 1 .. Len(carts) + 1 /\ DOMAIN carts = 1 .. Len(carts)
    BY <1>0, <2>3, LenProperties
  <2>5. Len(carts') \in DOMAIN carts' /\ DOMAIN carts \subseteq DOMAIN carts'
    BY <1>0, <2>3, <2>4
  <2>6. Len(carts) <= Len(carts') /\ Len(carts') <= MaxCarts
    BY <1>0, <2>1, <2>3, CartsAssumption
  <2>7. pc'[q] = "routed" /\ cart'[q] = Len(carts')
    BY <2>1 DEF TInv, ItemTypes
  <2>8. FoundOK(q)' /\ MatchOK(q)'
    BY <1>1, <2>1, TypeFacts DEF FoundOK, MatchOK, Idle
  <2>9. StageOK(q)'
    BY <1>1, <2>1, <2>7 DEF StageOK
  <2>10. Kept(rows', carts')
    BY <1>0, <2>1, <2>5 DEF Kept
  <2>11. cookie' \in [Browser -> NoCart \cup DOMAIN carts']
    BY <1>0, <2>1, <2>5
  <2>12. "routed" \in Stage /\ Len(carts') \in NoCart \cup DOMAIN carts'
    BY <2>5
  <2> QED
    BY <2>1, <2>3, <2>6, <2>8, <2>9, <2>10, <2>11, <2>12, StepTyped
<1>5. CASE RouteNowhere(q)
  <2>1. /\ pc' = [pc EXCEPT ![q] = "failed"]
        /\ UNCHANGED <<start, carts, rows, cookie, op, cart, own, found, match, sum>>
    BY <1>5 DEF RouteNowhere, tables, work
  <2>2. Kept(rows', carts') /\ "failed" \in Stage
    BY <1>0, <2>1
  <2> QED
    BY <1>0, <2>1, <2>2, WriteTyped
<1> QED
  BY <1>3, <1>4, <1>5 DEF Route

LEMMA ReadLineTyped ==
  ASSUME TInv, ReminderTypes', NEW q \in Request, ReadLine(q)
  PROVE  TInv'
<1> USE DEF Goto, Stage, Ended
<1>0. /\ Kept(rows, carts) /\ carts \in Seq(CartRow) /\ Len(carts) <= MaxCarts /\ Len(carts) \in Nat
      /\ cookie \in [Browser -> NoCart \cup DOMAIN carts]
      /\ rows \in [DOMAIN rows -> Line]
      /\ FoundOK(q) /\ MatchOK(q) /\ StageOK(q)
  BY TypeFacts
<1>1. /\ pc[q] = "routed" /\ match[q] = Idle /\ found[q] = Idle /\ own[q] = 0
      /\ UNCHANGED <<start, carts, rows, cookie, op, cart, own, match, sum>>
  BY <1>0 DEF ReadLine, tables, StageOK
<1>2. Len(carts) <= Len(carts)
  BY <1>0, NotLess, Zenon
<1>3. Kept(rows', carts')
  BY <1>0, <1>1
<1>4. PICK s \in {"read", "failed"} : pc' = [pc EXCEPT ![q] = s]
  BY DEF ReadLine
<1>5. \/ UNCHANGED found
      \/ \E n \in Find(cart[q], op[q].key) : found' = [found EXCEPT ![q] = [id \in {n} |-> rows[n].quantity]]
  BY DEF ReadLine
<1>6. FoundOK(q)'
  <2>1. CASE UNCHANGED found
    BY <1>0, <1>1, <2>1 DEF FoundOK
  <2>2. ASSUME NEW n \in Find(cart[q], op[q].key),
               found' = [found EXCEPT ![q] = [id \in {n} |-> rows[n].quantity]]
        PROVE  FoundOK(q)'
    <3>1. found'[q] = [id \in {n} |-> rows[n].quantity]
      BY <2>2 DEF TInv, ItemTypes
    <3>2. n \in DOMAIN rows /\ rows[n].cart = cart[q] /\ rows[n].quantity > 0
      BY DEF Find, RowsOf
    <3>3. rows[n].quantity \in Nat \ {0}
      BY <1>0, <3>2 DEF Line
    <3> QED
      BY <1>1, <3>1, <3>2, <3>3 DEF FoundOK
  <2> QED
    BY <1>5, <2>1, <2>2
<1>7. MatchOK(q)'
  BY <1>1 DEF MatchOK, Idle
<1>8. StageOK(q)'
  <2>1. pc'[q] = s
    BY <1>4 DEF TInv, ItemTypes
  <2> QED
    BY <1>1, <2>1 DEF StageOK
<1>9. s \in Stage /\ (UNCHANGED found \/ \E f : found' = [found EXCEPT ![q] = f])
  BY <1>5
<1> QED
  BY <1>0, <1>1, <1>2, <1>3, <1>4, <1>6, <1>7, <1>8, <1>9, StepTyped

\* A request writes rows of the cart it works on, which keep their cart and key.
LEMMA LineKept ==
  ASSUME TInv, NEW q \in Request, WriteLine(q) \/ InsertLine(q)
  PROVE  Kept(rows', carts)
<1>1. /\ Kept(rows, carts) /\ ItemTypes /\ FoundOK(q) /\ op[q] \in Op /\ DOMAIN carts \subseteq CartId
  BY TypeFacts
<1>2. op[q].key \in Key /\ op[q].quantity \in Nat \ {0}
  BY <1>1 DEF Op
<1>3. CASE WriteLine(q)
  <2>1. PICK n \in DOMAIN found[q] :
          rows' = IF op[q].kind = "remove" THEN Erased({n})
                  ELSE IF op[q].kind = "set" THEN Filled(n, op[q].quantity)
                  ELSE Filled(n, found[q][n] + op[q].quantity)
    BY <1>3 DEF WriteLine
  <2>2. n \in DOMAIN rows /\ found[q][n] \in Nat
    BY <1>1 DEF FoundOK
  <2>3. found[q][n] + op[q].quantity \in Nat
    BY <1>2, <2>2
  <2> QED
    BY <1>1, <1>2, <2>1, <2>2, <2>3, ErasedKept, FilledKept
<1>4. CASE InsertLine(q) /\ rows' # rows
  <2> DEFINE r == [cart |-> cart[q], key |-> op[q].key,
                   quantity |-> op[q].quantity, total |-> op[q].quantity]
  <2>1. rows' = Append(rows, r) /\ cart[q] \in DOMAIN carts
    BY <1>4 DEF InsertLine, Exists
  <2>2. r \in Line /\ r.cart \in DOMAIN carts
    BY <1>1, <1>2, <2>1 DEF Line
  <2> HIDE DEF r
  <2> QED
    BY <1>1, <2>1, <2>2, AppendKept
<1>5. CASE UNCHANGED rows
  BY <1>1, <1>5
<1> QED
  BY <1>3, <1>4, <1>5

LEMMA LineTyped ==
  ASSUME TInv, ReminderTypes', NEW q \in Request, WriteLine(q) \/ InsertLine(q)
  PROVE  TInv'
<1> USE DEF Goto, Stage, Ended
<1>0. /\ Kept(rows, carts) /\ carts \in Seq(CartRow) /\ ItemTypes
      /\ cookie \in [Browser -> NoCart \cup DOMAIN carts]
      /\ FoundOK(q) /\ StageOK(q) /\ op[q] \in Op /\ DOMAIN carts \subseteq CartId
  BY TypeFacts
<1>1. /\ pc[q] = "read" /\ own[q] = 0
      /\ UNCHANGED <<start, carts, cookie, op, cart, own, found, match, sum>>
  BY <1>0 DEF WriteLine, InsertLine, work, StageOK
<1>2. PICK s \in {"written", "failed"} : pc' = [pc EXCEPT ![q] = s]
  BY DEF WriteLine, InsertLine
<1>4. Kept(rows', carts)
  BY LineKept
<1>5. Kept(rows', carts')
  BY <1>1, <1>4
<1> QED
  BY <1>0, <1>1, <1>2, <1>5, WriteTyped

LEMMA TotalsTyped ==
  ASSUME TInv, ReminderTypes', NEW q \in Request, SumLines(q) \/ WriteTotals(q)
  PROVE  TInv'
<1> USE DEF Goto, Stage, Ended
<1>0. /\ Kept(rows, carts) /\ carts \in Seq(CartRow) /\ rows \in Seq(Line) /\ ItemTypes
      /\ cookie \in [Browser -> NoCart \cup DOMAIN carts] /\ StageOK(q)
  BY TypeFacts
<1>1. CASE SumLines(q)
  <2>1. /\ pc[q] = "written" /\ own[q] = 0 /\ pc' = [pc EXCEPT ![q] = "summed"]
        /\ sum' = [sum EXCEPT ![q] = SumOf(rows, cart[q])]
        /\ UNCHANGED <<start, carts, rows, cookie, op, cart, own, found, match>>
    BY <1>0, <1>1 DEF SumLines, tables, StageOK
  <2>2. \E t \in SumType : sum' = [sum EXCEPT ![q] = t]
    BY <1>0, <2>1, SumOfType
  <2>3. Kept(rows', carts') /\ "summed" \in Stage
    BY <1>0, <2>1
  <2> QED
    BY <1>0, <2>1, <2>2, <2>3, WriteTyped
<1>2. CASE WriteTotals(q)
  <2>1. /\ pc' = [pc EXCEPT ![q] = "replying"] /\ carts' = Totalled(cart[q], sum[q])
        /\ UNCHANGED <<start, rows, cookie, op, cart, own, found, match, sum>>
    BY <1>2 DEF WriteTotals, work
  <2>2. sum[q] \in SumType
    BY <1>0 DEF ItemTypes
  <2>3. carts' \in Seq(CartRow) /\ Len(carts') = Len(carts) /\ DOMAIN carts' = DOMAIN carts
    BY <1>0, <2>1, <2>2, TotalledType
  <2>4. Kept(rows', carts') /\ "replying" \in Stage /\ cookie' \in [Browser -> NoCart \cup DOMAIN carts']
    BY <1>0, <2>1, <2>3 DEF Kept
  <2> QED
    BY <2>1, <2>3, <2>4, WriteTyped
<1> QED
  BY <1>1, <1>2

LEMMA EndTyped ==
  ASSUME TInv, ReminderTypes', NEW q \in Request, Reply(q) \/ Cut(q) \/ AssignCart(q)
  PROVE  TInv'
<1> USE DEF Goto, Stage, Ended
<1>0. /\ Kept(rows, carts) /\ carts \in Seq(CartRow) /\ ItemTypes /\ Len(carts) \in Nat
      /\ DOMAIN carts = 1 .. Len(carts) /\ cookie \in [Browser -> NoCart \cup DOMAIN carts]
  BY TypeFacts
<1>1. PICK s \in {"done", "cut"} : pc' = [pc EXCEPT ![q] = s]
  BY DEF Reply, Cut, AssignCart
<1>2. UNCHANGED <<start, rows, op, cart, own, found, match, sum>>
  BY DEF Reply, Cut, AssignCart, tables, work
<1>3. carts' \in Seq(CartRow) /\ Len(carts') = Len(carts) /\ DOMAIN carts' = DOMAIN carts
  <2>1. CASE UNCHANGED carts
    BY <1>0, <2>1
  <2>2. CASE Exists(cart[q]) /\ carts' = [carts EXCEPT ![cart[q]].holder = "customer"]
    <3>1. cart[q] \in 1 .. Len(carts) /\ carts \in [1 .. Len(carts) -> CartRow]
      BY <1>0, <2>2, LenProperties DEF Exists
    <3>2. carts' \in [1 .. Len(carts) -> CartRow]
      BY <2>2, <3>1 DEF CartRow
    <3> QED
      BY <1>0, <3>2, SeqFromFunction
  <2> QED
    BY <2>1, <2>2 DEF Reply, Cut, AssignCart, tables
<1>4. cookie' \in [Browser -> NoCart \cup DOMAIN carts']
  <2>1. cart[q] \in NoCart \cup DOMAIN carts
    BY <1>0 DEF ItemTypes
  <2>2. UNCHANGED cookie \/ cookie' = [cookie EXCEPT ![op[q].browser] = cart[q]]
    BY DEF Reply, Cut, AssignCart
  <2> QED
    BY <1>0, <1>3, <2>1, <2>2
<1>5. Kept(rows', carts')
  BY <1>0, <1>2, <1>3 DEF Kept
<1> QED
  BY <1>1, <1>2, <1>3, <1>4, <1>5, WriteTyped

LEMMA Positive == \A n \in Nat : n > 0 => n \in Nat \ {0}
OBVIOUS

LEMMA NoZero == \A n \in Nat : 0 \notin 1 .. n
OBVIOUS

LEMMA ReadGuestTyped ==
  ASSUME TInv, ReminderTypes', NEW q \in Request, ReadGuest(q)
  PROVE  TInv'
<1> USE DEF Goto, Stage, Ended, NoCart
<1> DEFINE c == cookie[op[q].browser]
<1>0. /\ Kept(rows, carts) /\ carts \in Seq(CartRow) /\ Len(carts) <= MaxCarts /\ Len(carts) \in Nat
      /\ cookie \in [Browser -> NoCart \cup DOMAIN carts]
      /\ rows \in [DOMAIN rows -> Line] /\ op[q] \in Op
      /\ FoundOK(q) /\ MatchOK(q) /\ StageOK(q)
  BY TypeFacts
<1>1. /\ pc[q] = "idle" /\ match[q] = Idle /\ own[q] = 0
      /\ cart' = [cart EXCEPT ![q] = c]
      /\ found' = [found EXCEPT ![q] = [n \in RowsOf(rows, c) |-> rows[n].quantity]]
      /\ UNCHANGED <<start, carts, rows, cookie, op, own, match, sum>>
  BY <1>0 DEF ReadGuest, Begin, StageOK, tables
<1>2. PICK s \in {"guest read", "done"} : pc' = [pc EXCEPT ![q] = s]
  BY DEF ReadGuest
<1>3. c \in NoCart \cup DOMAIN carts'
  <2>1. op[q].browser \in Browser
    BY <1>0 DEF Op
  <2> QED
    BY <1>0, <1>1, <2>1
<1> HIDE DEF c
<1>4. /\ pc'[q] = s /\ cart'[q] = c
      /\ found'[q] = [n \in RowsOf(rows, c) |-> rows[n].quantity]
  BY <1>1, <1>2 DEF TInv, ItemTypes
<1>5. FoundOK(q)'
  <2>1. \A n \in RowsOf(rows, c) : n \in DOMAIN rows /\ rows[n].cart = c /\ rows[n].quantity \in Nat \ {0}
    <3> SUFFICES ASSUME NEW n \in RowsOf(rows, c)
                 PROVE  n \in DOMAIN rows /\ rows[n].cart = c /\ rows[n].quantity \in Nat \ {0}
      OBVIOUS
    <3>1. n \in DOMAIN rows /\ rows[n].cart = c /\ rows[n].quantity > 0
      BY DEF RowsOf
    <3>2. rows[n].quantity \in Nat
      BY <1>0, <3>1 DEF Line
    <3> QED
      BY <3>1, <3>2, Positive, Zenon
  <2> QED
    BY <1>1, <1>4, <2>1 DEF FoundOK
<1>6. MatchOK(q)' /\ StageOK(q)'
  BY <1>1, <1>4 DEF MatchOK, StageOK, Idle
<1>7. Len(carts) <= Len(carts') /\ Len(carts') <= MaxCarts /\ Kept(rows', carts')
  BY <1>0, <1>1, NotLess, Zenon
<1>8. s \in Stage
  OBVIOUS
<1> QED
  BY <1>0, <1>1, <1>2, <1>3, <1>5, <1>6, <1>7, <1>8, StepTyped

LEMMA ReadOwnTyped ==
  ASSUME TInv, ReminderTypes', NEW q \in Request, ReadOwn(q)
  PROVE  TInv'
<1> USE DEF Goto, Stage, Ended
<1>0. /\ Kept(rows, carts) /\ carts \in Seq(CartRow) /\ Len(carts) <= MaxCarts /\ Len(carts) \in Nat
      /\ cookie \in [Browser -> NoCart \cup DOMAIN carts] /\ DOMAIN carts = 1 .. Len(carts)
      /\ FoundOK(q) /\ MatchOK(q) /\ StageOK(q)
  BY TypeFacts
<1>1. /\ pc[q] = "guest read" /\ match[q] = Idle /\ own[q] = 0
      /\ UNCHANGED <<start, carts, rows, cookie, op, cart, found, match, sum>>
  BY <1>0 DEF ReadOwn, StageOK, tables
<1>2. PICK s \in {"assigning", "discarding", "own read"} :
        /\ pc' = [pc EXCEPT ![q] = s]
        /\ s = "assigning" => UNCHANGED own
        /\ s # "assigning" => \E c \in DOMAIN carts : own' = [own EXCEPT ![q] = c]
  BY DEF ReadOwn
<1>3. pc'[q] = s
  BY <1>2 DEF TInv, ItemTypes
<1>4. FoundOK(q)'
  BY <1>0, <1>1 DEF FoundOK
<1>5. MatchOK(q)'
  BY <1>1 DEF MatchOK, Idle
<1>6. UNCHANGED own \/ \E c \in NoCart \cup DOMAIN carts' : own' = [own EXCEPT ![q] = c]
  BY <1>1, <1>2
<1>7. s # "assigning" => own'[q] # 0
  <2> SUFFICES ASSUME NEW c \in DOMAIN carts, own' = [own EXCEPT ![q] = c] PROVE own'[q] # 0
    BY <1>2
  <2>1. own'[q] = c
    BY DEF TInv, ItemTypes
  <2>2. c # 0
    BY <1>0, NoZero, Zenon
  <2> QED
    BY <2>1, <2>2
<1>8. StageOK(q)'
  BY <1>1, <1>2, <1>3, <1>7 DEF StageOK
<1>9. Len(carts) <= Len(carts') /\ Len(carts') <= MaxCarts /\ Kept(rows', carts')
  BY <1>0, <1>1, NotLess, Zenon
<1>10. s \in Stage
  OBVIOUS
<1> QED
  BY <1>0, <1>1, <1>2, <1>4, <1>5, <1>6, <1>8, <1>9, <1>10, StepTyped

LEMMA MatchTyped ==
  ASSUME TInv, ReminderTypes', NEW q \in Request, MatchLines(q)
  PROVE  TInv'
<1> USE DEF Goto, Stage, Ended
<1> DEFINE mine == RowsOf(rows, own[q])
           common == {MergeKey(g) : g \in DOMAIN found[q]} \cap {MergeKey(n) : n \in mine}
<1>0. /\ Kept(rows, carts) /\ carts \in Seq(CartRow) /\ Len(carts) <= MaxCarts /\ Len(carts) \in Nat
      /\ cookie \in [Browser -> NoCart \cup DOMAIN carts] /\ DOMAIN carts = 1 .. Len(carts)
      /\ rows \in [DOMAIN rows -> Line] /\ DOMAIN rows \subseteq Nat
      /\ FoundOK(q) /\ MatchOK(q) /\ StageOK(q)
  BY TypeFacts, RowsAre
<1>1. /\ pc[q] = "own read" /\ own[q] # 0 /\ pc' = [pc EXCEPT ![q] = "matched"]
      /\ UNCHANGED <<start, carts, rows, cookie, op, cart, own, found, sum>>
  BY <1>0 DEF MatchLines, StageOK, tables
<1>2. PICK m \in [common -> mine], from \in [common -> DOMAIN found[q]] :
        /\ \A k \in common : MergeKey(m[k]) = k /\ MergeKey(from[k]) = k
        /\ match' = [match EXCEPT ![q] =
             [k \in common |->
                [row |-> m[k], quantity |-> rows[m[k]].quantity, from |-> from[k]]]]
  BY DEF MatchLines
<1>3. match'[q] = [k \in common |->
                     [row |-> m[k], quantity |-> rows[m[k]].quantity, from |-> from[k]]]
  BY <1>2 DEF TInv, ItemTypes
<1>4. ASSUME NEW k \in common
      PROVE  /\ m[k] \in DOMAIN rows /\ m[k] \in Nat /\ rows[m[k]].quantity \in Nat \ {0}
             /\ rows[m[k]].cart = own[q] /\ MergeKey(m[k]) = k
             /\ from[k] \in DOMAIN found[q] /\ from[k] \in Nat /\ MergeKey(from[k]) = k
  <2>1. m[k] \in mine /\ MergeKey(m[k]) = k
    BY <1>2
  <2>2. m[k] \in DOMAIN rows /\ rows[m[k]].cart = own[q] /\ rows[m[k]].quantity > 0
    BY <2>1 DEF RowsOf
  <2>3. rows[m[k]].quantity \in Nat \ {0}
    BY <1>0, <2>2 DEF Line
  <2>4. from[k] \in DOMAIN found[q] /\ MergeKey(from[k]) = k
    BY <1>2
  <2> QED
    BY <1>0, <2>1, <2>2, <2>3, <2>4 DEF FoundOK
<1> HIDE DEF common
<1>5. MatchOK(q)'
  <2>1. DOMAIN match'[q] = common
    BY <1>3
  <2>2. \A k \in common : match'[q][k] = [row |-> m[k], quantity |-> rows[m[k]].quantity, from |-> from[k]]
    BY <1>3
  <2>3. ASSUME NEW k \in common
        PROVE  /\ match'[q][k] \in [row : Nat, quantity : Nat \ {0}, from : Nat]
               /\ match'[q][k].row = m[k] /\ match'[q][k].from = from[k]
    <3>1. m[k] \in Nat /\ rows[m[k]].quantity \in Nat \ {0} /\ from[k] \in Nat
      BY <1>4
    <3>2. match'[q][k] = [row |-> m[k], quantity |-> rows[m[k]].quantity, from |-> from[k]]
      BY <2>2
    <3> DEFINE x == rows[m[k]].quantity
    <3>3. x \in Nat \ {0} /\ match'[q][k] = [row |-> m[k], quantity |-> x, from |-> from[k]]
      BY <3>1, <3>2
    <3> HIDE DEF x
    <3> QED
      BY <3>1, <3>3
  <2>4. match'[q] \in [common -> [row : Nat, quantity : Nat \ {0}, from : Nat]]
    BY <1>3, <2>1, <2>3
  <2> QED
    <3> SUFFICES ASSUME NEW k \in common
                 PROVE  /\ match'[q][k].row \in DOMAIN rows
                        /\ rows[match'[q][k].row].cart = own[q]
                        /\ MergeKey(match'[q][k].row) = k
                        /\ match'[q][k].from \in DOMAIN found[q]
                        /\ MergeKey(match'[q][k].from) = k
      BY <1>1, <2>1, <2>4 DEF MatchOK, MergeKey
    <3> QED
      BY <1>4, <2>3
<1>6. FoundOK(q)'
  BY <1>0, <1>1 DEF FoundOK
<1>7. StageOK(q)'
  <2>1. pc'[q] = "matched"
    BY <1>1 DEF TInv, ItemTypes
  <2> QED
    BY <1>1, <2>1 DEF StageOK
<1>8. Len(carts) <= Len(carts') /\ Len(carts') <= MaxCarts /\ Kept(rows', carts')
  BY <1>0, <1>1, NotLess, Zenon
<1>9. "matched" \in Stage /\ \E f : match' = [match EXCEPT ![q] = f]
  BY <1>2
<1> QED
  BY <1>0, <1>1, <1>5, <1>6, <1>7, <1>8, <1>9, StepTyped

LEMMA MergeTyped ==
  ASSUME TInv, ReminderTypes', NEW q \in Request, SumMerged(q) \/ CommitMerge(q)
  PROVE  TInv'
<1> USE DEF Goto, Stage, Ended
<1>0. /\ Kept(rows, carts) /\ carts \in Seq(CartRow) /\ ItemTypes
      /\ cookie \in [Browser -> NoCart \cup DOMAIN carts] /\ StageOK(q)
  BY TypeFacts
<1>1. own[q] # 0
  BY <1>0 DEF SumMerged, CommitMerge, StageOK
<1>2. Merged(q) \in Seq(Line) /\ Kept(Merged(q), carts)
  BY <1>1, MergedIs
<1>3. CASE SumMerged(q)
  <2>1. /\ UNCHANGED <<start, carts, rows, cookie, op, cart, own, found, match>>
        /\ sum' = [sum EXCEPT ![q] = SumOf(Merged(q), own[q])]
    BY <1>3 DEF SumMerged, Merged, tables
  <2>2. PICK s \in {"failed", "merging"} : pc' = [pc EXCEPT ![q] = s]
    BY <1>3 DEF SumMerged
  <2>3. \E t \in SumType : sum' = [sum EXCEPT ![q] = t]
    BY <1>2, <2>1, SumOfType
  <2>4. Kept(rows', carts') /\ s \in Stage
    BY <1>0, <2>1
  <2> QED
    BY <1>0, <1>1, <2>1, <2>2, <2>3, <2>4, WriteTyped
<1>4. CASE CommitMerge(q)
  <2>1. /\ UNCHANGED <<start, cookie, op, cart, own, found, match, sum>>
        /\ rows' = Merged(q) /\ carts' = Totalled(own[q], sum[q]) /\ pc' = [pc EXCEPT ![q] = "merged"]
    BY <1>4 DEF CommitMerge, Merged, work
  <2>2. sum[q] \in SumType
    BY <1>0 DEF ItemTypes
  <2>3. carts' \in Seq(CartRow) /\ Len(carts') = Len(carts) /\ DOMAIN carts' = DOMAIN carts
    BY <1>0, <2>1, <2>2, TotalledType
  <2>4. Kept(rows', carts') /\ cookie' \in [Browser -> NoCart \cup DOMAIN carts']
    BY <1>0, <1>2, <2>1, <2>3 DEF Kept
  <2>5. "merged" \in Stage
    OBVIOUS
  <2> QED
    BY <1>1, <2>1, <2>3, <2>4, <2>5, WriteTyped
<1> QED
  BY <1>3, <1>4

LEMMA DeleteType ==
  ASSUME ItemTypes, NEW c
  PROVE  LET new == IF Exists(c)
                    THEN [carts EXCEPT ![c] = [holder |-> "deleted", items |-> 0, amount |-> 0]]
                    ELSE carts IN
         /\ new \in Seq(CartRow) /\ Len(new) = Len(carts) /\ DOMAIN new = DOMAIN carts
         /\ \A d \in DOMAIN carts : d # c => new[d] = carts[d]
         /\ Exists(c) => new[c] = [holder |-> "deleted", items |-> 0, amount |-> 0]
         /\ ~Exists(c) => new = carts
<1>1. Len(carts) \in Nat /\ DOMAIN carts = 1 .. Len(carts) /\ carts \in [1 .. Len(carts) -> CartRow]
  BY LenProperties DEF ItemTypes
<1>2. CASE ~Exists(c)
  BY <1>2 DEF ItemTypes
<1>3. CASE Exists(c)
  <2> DEFINE r == [holder |-> "deleted", items |-> 0, amount |-> 0]
             new == [carts EXCEPT ![c] = r]
  <2>1. c \in DOMAIN carts /\ r \in CartRow
    BY <1>3 DEF Exists, CartRow
  <2> HIDE DEF r
  <2>2. /\ new \in [1 .. Len(carts) -> CartRow] /\ new[c] = r
        /\ \A d \in DOMAIN carts : d # c => new[d] = carts[d]
    BY <1>1, <2>1
  <2> HIDE DEF new
  <2>3. new \in Seq(CartRow) /\ Len(new) = Len(carts) /\ DOMAIN new = DOMAIN carts
    BY <1>1, <2>2, SeqFromFunction
  <2> QED
    BY <1>3, <2>2, <2>3 DEF new, r
<1> QED
  BY <1>2, <1>3

LEMMA DeleteTyped ==
  ASSUME TInv, ReminderTypes', NEW q \in Request, DeleteGuest(q)
  PROVE  TInv'
<1> USE DEF Goto, Stage, Ended
<1>0. /\ ItemTypes /\ cookie \in [Browser -> NoCart \cup DOMAIN carts]
  BY TypeFacts
<1>1. /\ UNCHANGED <<start, cookie, op, cart, own, found, match, sum>>
      /\ rows' = Erased(RowsOf(rows, cart[q]))
  BY DEF DeleteGuest, work
<1>2. PICK s \in {"replying", "done"} : pc' = [pc EXCEPT ![q] = s]
  BY DEF DeleteGuest
<1>3. carts' \in Seq(CartRow) /\ Len(carts') = Len(carts) /\ DOMAIN carts' = DOMAIN carts
  BY <1>0, DeleteType DEF DeleteGuest
<1>4. Kept(rows', carts')
  <2>1. Kept(rows', carts)
    BY <1>0, <1>1, ErasedKept
  <2> QED
    BY <1>3, <2>1 DEF Kept
<1>5. s \in Stage /\ cookie' \in [Browser -> NoCart \cup DOMAIN carts']
  BY <1>0, <1>1, <1>3
<1> QED
  BY <1>1, <1>2, <1>3, <1>4, <1>5, WriteTyped

LEMMA OrderTyped ==
  ASSUME TInv, ReminderTypes', NEW q \in Request, PlaceOrder(q)
  PROVE  TInv'
<1> USE DEF Goto, Stage, Ended
<1> DEFINE c == cookie[op[q].browser]
<1>0. /\ ItemTypes /\ StageOK(q) /\ cookie \in [Browser -> NoCart \cup DOMAIN carts]
      /\ Len(carts) \in Nat /\ Len(carts) <= MaxCarts
  BY TypeFacts
<1>1. /\ UNCHANGED <<start, cookie, op, own, found, match, sum>>
      /\ rows' = Erased(RowsOf(rows, c)) /\ carts' = Totalled(c, NoSum) /\ Exists(c)
      /\ cart' = [cart EXCEPT ![q] = c] /\ pc' = [pc EXCEPT ![q] = "done"]
  BY DEF PlaceOrder
<1>2. pc[q] = "idle" /\ own[q] = 0 /\ found[q] = Idle /\ match[q] = Idle
  BY <1>0 DEF PlaceOrder, Begin, StageOK
<1>3. carts' \in Seq(CartRow) /\ Len(carts') = Len(carts) /\ DOMAIN carts' = DOMAIN carts
  <2>1. NoSum \in SumType
    BY DEF NoSum, SumType
  <2> QED
    BY <1>0, <1>1, <2>1, TotalledType
<1>4. Kept(rows', carts')
  <2>1. Kept(rows', carts)
    BY <1>0, <1>1, ErasedKept
  <2> QED
    BY <1>3, <2>1 DEF Kept
<1>5. "done" \in Stage /\ cookie' \in [Browser -> NoCart \cup DOMAIN carts']
      /\ c \in NoCart \cup DOMAIN carts'
  BY <1>0, <1>1, <1>3 DEF Exists
<1>6. FoundOK(q)' /\ MatchOK(q)' /\ StageOK(q)'
  <2>1. pc'[q] = "done"
    BY <1>0, <1>1 DEF ItemTypes
  <2> QED
    BY <1>1, <1>2, <2>1 DEF FoundOK, MatchOK, StageOK, Idle
<1>7. Len(carts) <= Len(carts') /\ Len(carts') <= MaxCarts
  BY <1>0, <1>3, NotLess, Zenon
<1> HIDE DEF c
<1> QED
  BY <1>1, <1>3, <1>4, <1>5, <1>6, <1>7, StepTyped

LEMMA TypesKept == TInv /\ [Next]_vars => TInv'
<1> SUFFICES ASSUME TInv, [Next]_vars PROVE TInv'
  OBVIOUS
<1>0. ReminderTypes'
  BY ReminderTyped
<1>1. ASSUME UNCHANGED <<start, tables, cookie, pc, op, work>>
      PROVE  TInv'
  <2>1. ItemTypes'
    BY <1>1 DEF TInv, ItemTypes, tables, work
  <2>2. ASSUME NEW q \in Request PROVE FoundOK(q)' /\ MatchOK(q)' /\ StageOK(q)'
    <3>1. FoundOK(q) /\ MatchOK(q) /\ StageOK(q)
      BY DEF TInv
    <3>2. UNCHANGED <<rows, pc, cart, own, found, match>>
      BY <1>1 DEF tables, work
    <3> QED
      BY <3>1, <3>2 DEF FoundOK, MatchOK, StageOK, MergeKey
  <2> QED
    BY <1>0, <2>1, <2>2 DEF TInv
<1>2. ASSUME NEW i \in Instance, CronStart(i) \/ CronEnqueue(i) \/ CronEnd(i) \/ CronDies(i)
      PROVE  UNCHANGED <<start, tables, cookie, pc, op, work>>
  BY <1>2 DEF CronStart, CronEnqueue, CronEnd, CronDies
<1>3. ASSUME NEW c \in CartId, WorkerStep(c) \/ Forget(c)
      PROVE  UNCHANGED <<start, tables, cookie, pc, op, work>>
  BY <1>3 DEF WorkerStep, RunJob, SendReminder, CompleteJob, Fail, Stall, Forget
<1>4. LockExpires \/ UNCHANGED vars => UNCHANGED <<start, tables, cookie, pc, op, work>>
  BY DEF LockExpires, vars
<1>5. ASSUME NEW q \in Request, ItemStep(q) PROVE TInv'
  BY <1>0, <1>5, ReadLineTyped, LineTyped, TotalsTyped DEF ItemStep
<1>6. ASSUME NEW q \in Request, LoginStep(q) PROVE TInv'
  BY <1>0, <1>6, ReadOwnTyped, EndTyped, MatchTyped, MergeTyped, DeleteTyped DEF LoginStep
<1>7. ASSUME NEW q \in Request, Route(q) \/ ReadGuest(q) \/ Reply(q) \/ PlaceOrder(q) \/ Cut(q)
      PROVE  TInv'
  BY <1>0, <1>7, RouteTyped, ReadGuestTyped, EndTyped, OrderTyped
<1> QED
  BY <1>1, <1>2, <1>3, <1>4, <1>5, <1>6, <1>7 DEF Next

LEMMA StartTyped == Init => TInv
<1> SUFFICES ASSUME Init PROVE TInv
  OBVIOUS
<1>1. /\ start \in Starts /\ start \in Start /\ carts = start.carts /\ rows = start.rows
      /\ cookie = start.cookie /\ pc = [q \in Request |-> "idle"] /\ op \in [Request -> Ops]
      /\ cart = [q \in Request |-> 0] /\ own = [q \in Request |-> 0]
      /\ found = [q \in Request |-> Idle] /\ match = [q \in Request |-> Idle]
      /\ sum = [q \in Request |-> NoSum]
  BY CartsAssumption DEF Init
<1>2. /\ carts \in Seq(CartRow) /\ Len(carts) <= MaxCarts /\ rows \in Seq(Line)
      /\ cookie \in [Browser -> {0} \cup CartId]
  BY <1>1, CartsAssumption DEF Start
<1>3. /\ \A n \in DOMAIN rows : rows[n].cart \in DOMAIN carts
      /\ \A b \in Browser : cookie[b] \in {0} \cup DOMAIN carts
  BY <1>1, StartsAgree
<1>4. cookie \in [Browser -> NoCart \cup DOMAIN carts]
  BY <1>2, <1>3 DEF NoCart
<1>5. NoSum \in SumType
  BY DEF NoSum, SumType
<1>6. ItemTypes
  BY <1>1, <1>2, <1>3, <1>4, <1>5 DEF ItemTypes, Stage, NoCart
<1>7. ReminderTypes
  <2>1. 0 \in 0 .. MaxBreaks /\ 0 \in 0 .. RequestAttempts + CronAttempts
    BY CartsAssumption
  <2>2. /\ job = [c \in CartId |-> "none"] /\ mails = [c \in CartId |-> 0]
        /\ left = [c \in CartId |-> 0] /\ stalled = [c \in CartId |-> FALSE]
        /\ cron = [i \in Instance |-> [on |-> FALSE, todo |-> {}]]
        /\ runs = start.runs /\ lock = FALSE /\ breaks = 0
    BY DEF Init
  <2>3. [on |-> FALSE, todo |-> {}] \in [on : BOOLEAN, todo : SUBSET CartId]
    OBVIOUS
  <2>4. start.runs \in 0 .. MaxRuns
    BY <1>1 DEF Start
  <2>5. JobTypes
    BY <2>1, <2>2 DEF JobTypes, JobStage
  <2> QED
    BY <2>1, <2>2, <2>3, <2>4, <2>5 DEF ReminderTypes
<1>8. \A q \in Request : FoundOK(q) /\ MatchOK(q) /\ StageOK(q)
  BY <1>1 DEF FoundOK, MatchOK, StageOK, Idle
<1> QED
  BY <1>6, <1>7, <1>8 DEF TInv

\* Every step keeps the types: a request only ever writes to rows it found, in the
\* cart it works on, and no row leaves its cart or changes its key.
THEOREM TypeCorrectness == Spec => []TypeOK
BY StartTyped, TypesKept, TInvTypes, PTL DEF Spec

-----------------------------------------------------------------------------
\* What the steps of a request have in common

RequestStep(q) ==
  Route(q) \/ ItemStep(q) \/ ReadGuest(q) \/ LoginStep(q) \/ Reply(q) \/ PlaceOrder(q) \/ Cut(q)

\* Other steps leave the carts and the requests alone.
LEMMA OtherSteps ==
  [Next]_vars => \/ \E q \in Request : RequestStep(q)
                 \/ UNCHANGED <<start, tables, cookie, pc, op, work, met>>
<1> SUFFICES ASSUME [Next]_vars, ~ \E q \in Request : RequestStep(q)
             PROVE  UNCHANGED <<start, tables, cookie, pc, op, work, met>>
  OBVIOUS
<1>1. ASSUME NEW i \in Instance, CronStart(i) \/ CronEnqueue(i) \/ CronEnd(i) \/ CronDies(i)
      PROVE  UNCHANGED <<start, tables, cookie, pc, op, work, met>>
  BY <1>1 DEF CronStart, CronEnqueue, CronEnd, CronDies
<1>2. ASSUME NEW c \in CartId, WorkerStep(c) \/ Forget(c)
      PROVE  UNCHANGED <<start, tables, cookie, pc, op, work, met>>
  BY <1>2 DEF WorkerStep, RunJob, SendReminder, CompleteJob, Fail, Stall, Forget
<1>3. LockExpires \/ UNCHANGED vars => UNCHANGED <<start, tables, cookie, pc, op, work, met>>
  BY DEF LockExpires, vars
<1> QED
  BY <1>1, <1>2, <1>3 DEF Next, RequestStep

\* A request begins or goes on, and keeps the carts it works on.
LEMMA RequestActs ==
  ASSUME TInv, NEW q \in Request, RequestStep(q)
  PROVE  /\ Begin(q) \/ (q \in InFlight /\ UNCHANGED met)
         /\ UNCHANGED <<start, op>> /\ met \subseteq met'
         /\ \A r \in Request : r # q => pc'[r] = pc[r] /\ cart'[r] = cart[r] /\ own'[r] = own[r]
                                        /\ found'[r] = found[r] /\ match'[r] = match[r]
                                        /\ sum'[r] = sum[r]
         /\ cart[q] # 0 => cart'[q] = cart[q]
         /\ own[q] # 0 => own'[q] = own[q]
<1> USE DEF Goto, Ended, tables, work
<1>0. ItemTypes /\ StageOK(q)
  BY DEF TInv
<1>1. CASE Route(q)
  BY <1>0, <1>1 DEF Route, RouteToCart, RouteToNewCart, RouteNowhere, Begin, ItemTypes, StageOK
<1>2. CASE ReadGuest(q) \/ PlaceOrder(q)
  BY <1>0, <1>2 DEF ReadGuest, PlaceOrder, Begin, ItemTypes, StageOK
<1>3. CASE Reply(q) \/ Cut(q)
  BY <1>0, <1>3 DEF Reply, Cut, ItemTypes, InFlight
<1>4. CASE ReadLine(q) \/ WriteLine(q) \/ InsertLine(q)
  BY <1>0, <1>4 DEF ReadLine, WriteLine, InsertLine, ItemTypes, InFlight
<1>5. CASE SumLines(q) \/ WriteTotals(q)
  BY <1>0, <1>5 DEF SumLines, WriteTotals, ItemTypes, InFlight
<1>6. CASE ReadOwn(q)
  BY <1>0, <1>6 DEF ReadOwn, ItemTypes, InFlight, StageOK
<1>7. CASE AssignCart(q) \/ MatchLines(q)
  BY <1>0, <1>7 DEF AssignCart, MatchLines, ItemTypes, InFlight
<1>8. CASE SumMerged(q) \/ CommitMerge(q) \/ DeleteGuest(q)
  BY <1>0, <1>8 DEF SumMerged, CommitMerge, DeleteGuest, ItemTypes, InFlight
<1> QED
  BY <1>1, <1>2, <1>3, <1>4, <1>5, <1>6, <1>7, <1>8 DEF RequestStep, ItemStep, LoginStep

\* Whoever acts has met everybody in flight.
LEMMA ActorMeets ==
  ASSUME CInv, TInv, NEW q \in Request, RequestStep(q), NEW r \in InFlight, r # q
  PROVE  {q, r} \in met'
<1>1. Begin(q) \/ (q \in InFlight /\ UNCHANGED met)
  BY RequestActs
<1>2. CASE Begin(q)
  BY <1>2 DEF Begin
<1>3. CASE q \in InFlight /\ UNCHANGED met
  BY <1>3 DEF CInv, FlightsMeet
<1> QED
  BY <1>1, <1>2, <1>3

LEMMA StageOf ==
  ASSUME TInv, NEW q \in Request, NEW s, Goto(q, s)
  PROVE  pc'[q] = s
BY DEF Goto, TInv, ItemTypes

\* From which stage to which a step leads.
LEMMA Moves ==
  ASSUME TInv, NEW q \in Request, RequestStep(q)
  PROVE  \/ Route(q) /\ pc[q] = "idle" /\ pc'[q] \in {"routed", "failed"}
         \/ ReadLine(q) /\ pc[q] = "routed" /\ pc'[q] \in {"read", "failed"}
         \/ (WriteLine(q) \/ InsertLine(q)) /\ pc[q] = "read" /\ pc'[q] \in {"written", "failed"}
         \/ SumLines(q) /\ pc[q] = "written" /\ pc'[q] = "summed"
         \/ WriteTotals(q) /\ pc[q] = "summed" /\ pc'[q] = "replying"
         \/ Reply(q) /\ pc[q] = "replying" /\ pc'[q] = "done"
         \/ ReadGuest(q) /\ pc[q] = "idle" /\ pc'[q] \in {"guest read", "done"}
         \/ ReadOwn(q) /\ pc[q] = "guest read" /\ pc'[q] \in {"assigning", "discarding", "own read"}
         \/ AssignCart(q) /\ pc[q] = "assigning" /\ pc'[q] = "done"
         \/ MatchLines(q) /\ pc[q] = "own read" /\ pc'[q] = "matched"
         \/ SumMerged(q) /\ pc[q] = "matched" /\ pc'[q] \in {"failed", "merging"}
         \/ CommitMerge(q) /\ pc[q] = "merging" /\ pc'[q] = "merged"
         \/ DeleteGuest(q) /\ pc[q] \in {"merged", "discarding"} /\ pc'[q] \in {"replying", "done"}
         \/ PlaceOrder(q) /\ pc[q] = "idle" /\ pc'[q] = "done"
         \/ Cut(q) /\ pc[q] \notin Ended \cup {"idle"} /\ pc'[q] = "cut"
<1>1. CASE Route(q)
  BY <1>1, StageOf DEF Route, RouteToCart, RouteToNewCart, RouteNowhere, Begin
<1>2. CASE ReadGuest(q)
  <2>1. pc[q] = "idle" /\ \E s \in {"guest read", "done"} : Goto(q, s)
    BY <1>2 DEF ReadGuest, Begin
  <2> QED
    BY <1>2, <2>1, StageOf
<1>3. CASE PlaceOrder(q) \/ Reply(q) \/ Cut(q)
  BY <1>3, StageOf DEF PlaceOrder, Reply, Cut, InFlight, Begin
<1>4. CASE ReadLine(q)
  <2>1. pc[q] = "routed" /\ \E s \in {"read", "failed"} : Goto(q, s)
    BY <1>4 DEF ReadLine
  <2> QED
    BY <1>4, <2>1, StageOf
<1>5. CASE WriteLine(q) \/ InsertLine(q) \/ SumLines(q) \/ WriteTotals(q)
  BY <1>5, StageOf DEF WriteLine, InsertLine, SumLines, WriteTotals
<1>6. CASE ReadOwn(q)
  <2>1. pc[q] = "guest read" /\ \E s \in {"assigning", "discarding", "own read"} : Goto(q, s)
    BY <1>6 DEF ReadOwn
  <2> QED
    BY <1>6, <2>1, StageOf
<1>7. CASE AssignCart(q) \/ MatchLines(q) \/ CommitMerge(q)
  BY <1>7, StageOf DEF AssignCart, MatchLines, CommitMerge
<1>8. CASE SumMerged(q)
  <2>1. pc[q] = "matched" /\ \E s \in {"failed", "merging"} : Goto(q, s)
    BY <1>8 DEF SumMerged
  <2> QED
    BY <1>8, <2>1, StageOf
<1>9. CASE DeleteGuest(q)
  <2>1. pc[q] \in {"merged", "discarding"} /\ \E s \in {"replying", "done"} : Goto(q, s)
    BY <1>9 DEF DeleteGuest
  <2> QED
    BY <1>9, <2>1, StageOf
<1> QED
  BY <1>1, <1>2, <1>3, <1>4, <1>5, <1>6, <1>7, <1>8, <1>9 DEF RequestStep, ItemStep, LoginStep

\* Which steps change the rows.
LEMMA RowWriters ==
  ASSUME NEW q \in Request, RequestStep(q)
  PROVE  \/ UNCHANGED rows
         \/ WriteLine(q) \/ (InsertLine(q) /\ rows' # rows)
         \/ DeleteGuest(q) \/ PlaceOrder(q) \/ CommitMerge(q)
<1>1. Route(q) \/ ReadGuest(q) \/ Reply(q) \/ Cut(q) => UNCHANGED rows
  BY DEF Route, RouteToCart, RouteToNewCart, RouteNowhere, ReadGuest, Reply, Cut, tables
<1>2. ReadLine(q) \/ SumLines(q) \/ WriteTotals(q) => UNCHANGED rows
  BY DEF ReadLine, SumLines, WriteTotals, tables
<1>3. ReadOwn(q) \/ AssignCart(q) \/ MatchLines(q) \/ SumMerged(q) => UNCHANGED rows
  BY DEF ReadOwn, AssignCart, MatchLines, SumMerged, tables
<1> QED
  BY <1>1, <1>2, <1>3 DEF RequestStep, ItemStep, LoginStep

\* Rows stay, with their cart and key.
LEMMA RowsStay ==
  ASSUME TInv, NEW q \in Request, RequestStep(q)
  PROVE  Kept(rows', carts)
<1>1. ItemTypes /\ StageOK(q) /\ Kept(rows, carts)
  BY TypeFacts
<1>2. CASE UNCHANGED rows
  BY <1>1, <1>2
<1>3. CASE DeleteGuest(q) \/ PlaceOrder(q)
  BY <1>1, <1>3, ErasedKept DEF DeleteGuest, PlaceOrder
<1>4. CASE CommitMerge(q)
  <2>1. own[q] # 0 /\ rows' = Merged(q)
    BY <1>1, <1>4 DEF CommitMerge, StageOK, Merged
  <2> QED
    BY <2>1, MergedIs
<1> QED
  BY <1>2, <1>3, <1>4, LineKept, RowWriters

\* The step writes to the cart, or to its rows.
Writes(q, c) ==
  \/ /\ WriteLine(q) \/ InsertLine(q) \/ WriteTotals(q) \/ DeleteGuest(q) \/ PlaceOrder(q)
     /\ cart'[q] = c
  \/ CommitMerge(q) /\ own'[q] = c

\* The rows a step changes or inserts are of the cart it writes to, and have totals
\* that agree but for those a merge raises.  No row comes back.
RowChange(q, n) ==
  /\ Writes(q, rows[n].cart)
  /\ \/ rows'[n].quantity = rows'[n].total
     \/ pc[q] = "merging" /\ Hit(q, n) /\ rows'[n] = Raised(q)[n]
  /\ rows[n].quantity = 0 => rows'[n].quantity = 0

LEMMA RowsChange ==
  ASSUME TInv, NEW q \in Request, RequestStep(q)
  PROVE  /\ \A n \in DOMAIN rows : rows'[n] = rows[n] \/ RowChange(q, n)
         /\ \A n \in DOMAIN rows' \ DOMAIN rows :
              /\ rows'[n].quantity = rows'[n].total /\ Writes(q, rows'[n].cart)
              /\ Exists(rows'[n].cart) \/ (CommitMerge(q) /\ Unmatched(q) # {})
         /\ rows' # rows => pc'[q] \notin {"matched", "merging"}
<1>0. ItemTypes /\ FoundOK(q) /\ StageOK(q) /\ op[q] \in Op /\ rows \in [DOMAIN rows -> Line]
  BY TypeFacts
<1>1. CASE UNCHANGED rows
  BY <1>1
<1>2. CASE WriteLine(q)
  <2>1. PICK n \in DOMAIN found[q] :
          rows' = IF op[q].kind = "remove" THEN Erased({n})
                  ELSE IF op[q].kind = "set" THEN Filled(n, op[q].quantity)
                  ELSE Filled(n, found[q][n] + op[q].quantity)
    BY <1>2 DEF WriteLine
  <2>2. pc'[q] = "written" /\ cart' = cart
    BY <1>2, StageOf DEF WriteLine, work
  <2>3. n \in DOMAIN rows /\ rows[n].cart = cart'[q] /\ found[q][n] \in Nat
    BY <1>0, <2>2 DEF FoundOK
  <2>4. CASE op[q].kind = "remove"
    <3>1. /\ DOMAIN rows' = DOMAIN rows /\ \A m \in DOMAIN rows : m \notin {n} => rows'[m] = rows[m]
          /\ rows'[n].quantity = 0 /\ rows'[n].total = 0
      BY <1>0, <2>1, <2>3, <2>4, ErasedKept
    <3>2. RowChange(q, n)
      BY <1>2, <2>3, <3>1 DEF RowChange, Writes
    <3> QED
      BY <2>2, <3>1, <3>2
  <2>5. ASSUME NEW x \in Nat, rows' = Filled(n, x)
        PROVE  /\ DOMAIN rows' = DOMAIN rows /\ \A m \in DOMAIN rows : m # n => rows'[m] = rows[m]
               /\ rows'[n] = rows[n] \/ RowChange(q, n)
    <3>1. /\ DOMAIN rows' = DOMAIN rows /\ \A m \in DOMAIN rows : m # n => rows'[m] = rows[m]
      BY <1>0, <2>3, <2>5, FilledKept
    <3>2. CASE rows[n].quantity = 0
      BY <2>5, <3>1, <3>2 DEF Filled
    <3>3. CASE rows[n].quantity # 0
      <4>1. rows'[n].quantity = x /\ rows'[n].total = x
        BY <1>0, <2>3, <2>5, <3>3, FilledKept
      <4>2. RowChange(q, n)
        BY <1>2, <2>3, <3>3, <4>1 DEF RowChange, Writes
      <4> QED
        BY <3>1, <4>2
    <3> QED
      BY <3>1, <3>2, <3>3
  <2>6. op[q].quantity \in Nat /\ found[q][n] + op[q].quantity \in Nat
    BY <1>0, <2>3 DEF Op
  <2> QED
    BY <2>1, <2>2, <2>4, <2>5, <2>6
<1>3. CASE InsertLine(q) /\ rows' # rows
  <2> DEFINE r == [cart |-> cart[q], key |-> op[q].key,
                   quantity |-> op[q].quantity, total |-> op[q].quantity]
  <2>1. rows' = Append(rows, r) /\ Exists(cart[q]) /\ cart' = cart /\ Goto(q, "written")
    BY <1>3 DEF InsertLine, work
  <2>2. r \in Line /\ r.cart = cart[q] /\ r.quantity = r.total
    BY <1>0, <2>1, CartIdsKnown DEF Line, Op, ItemTypes, Exists
  <2> HIDE DEF r
  <2>3. /\ DOMAIN rows' = DOMAIN rows \cup {Len(rows) + 1}
        /\ \A n \in DOMAIN rows : rows'[n] = rows[n]
        /\ rows'[Len(rows) + 1] = r
    BY <1>0, <2>1, <2>2, AppendKept DEF Exists
  <2>4. pc'[q] = "written"
    BY <2>1, StageOf
  <2>5. Writes(q, cart[q])
    BY <1>3, <2>1 DEF Writes
  <2> QED
    BY <2>1, <2>2, <2>3, <2>4, <2>5
<1>4. ASSUME NEW c, rows' = Erased(RowsOf(rows, c)), Writes(q, c), pc'[q] \notin {"matched", "merging"}
      PROVE  /\ \A n \in DOMAIN rows : rows'[n] = rows[n] \/ RowChange(q, n)
             /\ DOMAIN rows' = DOMAIN rows
  <2>1. DOMAIN rows' = DOMAIN rows
    BY <1>0, <1>4, ErasedKept
  <2>2. ASSUME NEW n \in DOMAIN rows PROVE rows'[n] = rows[n] \/ RowChange(q, n)
    <3>1. CASE n \notin RowsOf(rows, c)
      BY <1>0, <1>4, <3>1, ErasedKept
    <3>2. CASE n \in RowsOf(rows, c)
      <4>1. rows'[n].quantity = 0 /\ rows'[n].total = 0
        BY <1>0, <1>4, <3>2, ErasedKept
      <4>2. rows[n].cart = c
        BY <3>2 DEF RowsOf
      <4> QED
        BY <1>4, <4>1, <4>2 DEF RowChange
    <3> QED
      BY <3>1, <3>2
  <2> QED
    BY <2>1, <2>2
<1>5. CASE DeleteGuest(q)
  <2>1. rows' = Erased(RowsOf(rows, cart[q])) /\ cart' = cart
    BY <1>5 DEF DeleteGuest, work
  <2>2. pc'[q] \in {"replying", "done"}
    BY <1>5, StageOf DEF DeleteGuest
  <2>3. Writes(q, cart[q])
    BY <1>5, <2>1 DEF Writes
  <2> QED
    BY <1>4, <2>1, <2>2, <2>3
<1>6. CASE PlaceOrder(q)
  <2>1. PICK c : rows' = Erased(RowsOf(rows, c)) /\ cart' = [cart EXCEPT ![q] = c]
    BY <1>6 DEF PlaceOrder
  <2>2. cart'[q] = c
    BY <1>0, <2>1 DEF ItemTypes
  <2>3. pc'[q] = "done"
    BY <1>6, StageOf DEF PlaceOrder
  <2>4. Writes(q, c)
    BY <1>6, <2>2 DEF Writes
  <2> QED
    BY <1>4, <2>1, <2>2, <2>3, <2>4
<1>7. CASE CommitMerge(q)
  <2>1. rows' = Merged(q) /\ pc[q] = "merging" /\ UNCHANGED own
    BY <1>7 DEF CommitMerge, Merged, work
  <2>2. pc'[q] = "merged"
    BY <1>7, StageOf DEF CommitMerge
  <2>3. own[q] # 0
    BY <1>0, <2>1 DEF StageOK
  <2>4. ASSUME NEW n \in DOMAIN rows PROVE rows'[n] = rows[n] \/ RowChange(q, n)
    <3>1. rows'[n] = Raised(q)[n]
      BY <2>1, <2>3, MergedIs
    <3>2. CASE Hit(q, n)
      <4>1. rows[n].cart = own'[q]
        BY <2>1, <3>2, RaisedIs
      <4> QED
        BY <1>7, <2>1, <3>1, <3>2, <4>1 DEF RowChange, Writes, Hit
    <3>3. CASE ~Hit(q, n)
      BY <3>1, <3>3, RaisedIs
    <3> QED
      BY <3>2, <3>3
  <2>5. ASSUME NEW n \in DOMAIN rows' \ DOMAIN rows
        PROVE  /\ rows'[n].quantity = rows'[n].total /\ rows'[n].cart = own'[q]
               /\ Unmatched(q) # {}
    <3> DEFINE N == Cardinality(Unmatched(q))
               L == Len(rows)
    <3>1. /\ rows' \in Seq(Line) /\ Len(rows') = L + N
          /\ \A i \in 1 .. N : rows'[L + i] = Inserted(q)[i]
      BY <2>1, <2>3, MergedIs
    <3>2. N \in Nat /\ L \in Nat /\ DOMAIN rows = 1 .. L /\ DOMAIN rows' = 1 .. L + N
      <4>1. N \in Nat
        BY UnmatchedIs, FS_CardinalityType
      <4>2. DOMAIN rows' = 1 .. L + N
        BY <3>1, LenProperties
      <4> QED
        BY <1>0, <4>1, <4>2, RowsAre
    <3>3. \A i \in 1 .. N : Inserted(q)[i].cart = own[q] /\ Inserted(q)[i].quantity = Inserted(q)[i].total
      <4>1. \A i \in 1 .. N : /\ Inserted(q)[i].cart = own[q]
                              /\ Inserted(q)[i].quantity = found[q][SetToSeq(Unmatched(q))[i]]
                              /\ Inserted(q)[i].total = found[q][SetToSeq(Unmatched(q))[i]]
        BY <2>3, InsertedIs
      <4> QED
        BY <4>1
    <3>6. Unmatched(q) = {} => N = 0
      BY FS_EmptySet
    <3> HIDE DEF N, L
    <3>4. n - L \in 1 .. N /\ n = L + (n - L)
      BY <3>2
    <3>5. rows'[n] = Inserted(q)[n - L]
      BY <3>1, <3>4
    <3> QED
      BY <2>1, <3>3, <3>4, <3>5, <3>6
  <2>6. \A n \in DOMAIN rows' \ DOMAIN rows : Writes(q, rows'[n].cart)
    BY <1>7, <2>5 DEF Writes
  <2> QED
    BY <1>7, <2>1, <2>2, <2>4, <2>5, <2>6
<1> QED
  BY <1>1, <1>2, <1>3, <1>5, <1>6, <1>7, RowWriters

-----------------------------------------------------------------------------
\* The totals of lines

\* The carts into which a login merged, or merges, that overlapped another request
\* on the cart.
Overlapped ==
  {c \in CartId : \E l, r \in Request : /\ l # r /\ {l, r} \in met
                                       /\ l \in Kind("login") /\ own[l] = c
                                       /\ c \in {cart[r], own[r]}}

\* What a merge has read of a row is what the row has, unless the row was emptied or
\* somebody else is at the cart.
MatchIsCurrent(q) ==
  pc[q] \in {"matched", "merging"} =>
    \A k \in DOMAIN match[q] :
      \/ rows[match[q][k].row].quantity \in {0, match[q][k].quantity}
      \/ own[q] \in Overlapped

LInv == LineTotalsAgree /\ \A q \in Request : MatchIsCurrent(q)

LEMMA StillOverlapped ==
  ASSUME TInv, NEW q \in Request, RequestStep(q), NEW c \in Overlapped
  PROVE  c \in Overlapped'
<1>1. PICK l, r \in Request : /\ l # r /\ {l, r} \in met
                              /\ l \in Kind("login") /\ own[l] = c
                              /\ c \in {cart[r], own[r]}
  BY DEF Overlapped
<1>0. c \in CartId /\ c # 0
  BY DEF Overlapped, CartId
<1>2. met \subseteq met' /\ Kind("login")' = Kind("login")
  BY RequestActs DEF Kind
<1>3. \A p \in Request : (cart[p] = c => cart'[p] = c) /\ (own[p] = c => own'[p] = c)
  BY <1>0, RequestActs
<1> QED
  BY <1>0, <1>1, <1>2, <1>3 DEF Overlapped

\* Another request in flight is a login into a cart this step has changed a row of.
LEMMA ChangeOverlaps ==
  ASSUME TInv, CInv, NEW q \in Request, RequestStep(q),
         NEW r \in Request, r # q, pc[r] \in {"matched", "merging"}, own[r] \in {cart'[q], own'[q]}
  PROVE  own[r] \in Overlapped'
<1>1. r \in InFlight /\ op[r].kind = "login"
  BY DEF InFlight, Ended, CInv, LoginStages
<1>2. {r, q} \in met'
  <2>1. {q, r} \in met' /\ {q, r} = {r, q}
    BY <1>1, ActorMeets
  <2> QED
    BY <2>1
<1>3. UNCHANGED op /\ own'[r] = own[r]
  BY RequestActs
<1>4. own[r] \in CartId
  BY CartIdsKnown DEF TInv, ItemTypes, StageOK, NoCart
<1> QED
  BY <1>1, <1>2, <1>3, <1>4 DEF Overlapped, Kind

\* A request that starts to match, or goes on to commit, changes no row.
LEMMA MatchedFrom ==
  ASSUME TInv, NEW q \in Request, RequestStep(q), pc'[q] \in {"matched", "merging"}
  PROVE  MatchLines(q) \/ (pc[q] = "matched" /\ match'[q] = match[q] /\ own'[q] = own[q])
<1>1. MatchLines(q) \/ SumMerged(q)
  BY Moves
<1> QED
  BY <1>1 DEF SumMerged

LEMMA MatchStaysCurrent ==
  ASSUME TInv, TInv', CInv, LInv, NEW q \in Request, RequestStep(q), NEW r \in Request
  PROVE  MatchIsCurrent(r)'
<1>0. \A n \in DOMAIN rows : rows'[n] = rows[n] \/ RowChange(q, n)
  BY RowsChange
<1>1. CASE r # q
  <2> SUFFICES ASSUME pc'[r] \in {"matched", "merging"}, NEW k \in DOMAIN match'[r]
               PROVE  \/ rows'[match'[r][k].row].quantity \in {0, match'[r][k].quantity}
                      \/ own'[r] \in Overlapped'
    BY DEF MatchIsCurrent
  <2> DEFINE n == match[r][k].row
  <2>1. /\ pc[r] \in {"matched", "merging"} /\ match'[r] = match[r] /\ own'[r] = own[r]
        /\ k \in DOMAIN match[r]
    BY <1>1, RequestActs
  <2>2. n \in DOMAIN rows /\ rows[n].cart = own[r] /\ own[r] # 0
    BY <2>1 DEF TInv, MatchOK, StageOK
  <2>3. rows[n].quantity \in {0, match[r][k].quantity} \/ own[r] \in Overlapped
    BY <2>1 DEF LInv, MatchIsCurrent
  <2>4. CASE own[r] \in Overlapped
    BY <2>1, <2>2, <2>4, StillOverlapped
  <2>5. CASE rows'[n] = rows[n]
    BY <2>1, <2>3, <2>4, <2>5
  <2>6. CASE RowChange(q, n)
    BY <1>1, <2>1, <2>2, <2>6, ChangeOverlaps DEF RowChange, Writes
  <2> QED
    BY <1>0, <2>2, <2>5, <2>6
<1>2. CASE r = q
  <2> SUFFICES ASSUME pc'[q] \in {"matched", "merging"}, NEW k \in DOMAIN match'[q]
               PROVE  \/ rows'[match'[q][k].row].quantity \in {0, match'[q][k].quantity}
                      \/ own'[q] \in Overlapped'
    BY <1>2 DEF MatchIsCurrent
  <2>1. rows' = rows
    BY RowsChange
  <2>2. CASE MatchLines(q)
    <3> DEFINE mine == RowsOf(rows, own[q])
               common == {MergeKey(g) : g \in DOMAIN found[q]} \cap {MergeKey(j) : j \in mine}
    <3>1. PICK m \in [common -> mine], from \in [common -> DOMAIN found[q]] :
            match' = [match EXCEPT ![q] =
              [j \in common |-> [row |-> m[j], quantity |-> rows[m[j]].quantity, from |-> from[j]]]]
      BY <2>2 DEF MatchLines
    <3>2. match'[q] = [j \in common |-> [row |-> m[j], quantity |-> rows[m[j]].quantity, from |-> from[j]]]
      BY <3>1 DEF TInv, ItemTypes
    <3>3. /\ k \in common
          /\ match'[q][k] = [row |-> m[k], quantity |-> rows[m[k]].quantity, from |-> from[k]]
      BY <3>2
    <3>4. match'[q][k].row = m[k] /\ match'[q][k].quantity = rows[m[k]].quantity
      BY <3>3
    <3> QED
      BY <2>1, <3>4
  <2>3. CASE pc[q] = "matched" /\ match'[q] = match[q] /\ own'[q] = own[q]
    <3>1. rows[match[q][k].row].quantity \in {0, match[q][k].quantity} \/ own[q] \in Overlapped
      BY <2>3 DEF LInv, MatchIsCurrent
    <3>2. own[q] # 0
      BY <2>3 DEF TInv, StageOK
    <3> QED
      BY <2>1, <2>3, <3>1, <3>2, StillOverlapped
  <2> QED
    BY <2>2, <2>3, MatchedFrom
<1> QED
  BY <1>1, <1>2

\* A row a merge raises has a total that agrees, unless it changed since it was read.
LEMMA RaisedAgrees ==
  ASSUME TInv, LInv, NEW q \in Request, pc[q] = "merging", NEW n \in DOMAIN rows, Hit(q, n)
  PROVE  Raised(q)[n].quantity = Raised(q)[n].total \/ rows[n].cart \in Overlapped
<1> DEFINE k == MergeKey(n)
<1>1. /\ rows[n].cart = own[q] /\ k \in DOMAIN match[q]
      /\ Raised(q)[n].quantity = rows[n].quantity + FromGuest(q, k)
      /\ Raised(q)[n].total = match[q][k].quantity + FromGuest(q, k)
  BY RaisedIs
<1>2. match[q][k].row = n /\ rows[n].quantity # 0
  BY DEF Hit
<1>3. rows[n].quantity \in {0, match[q][k].quantity} \/ own[q] \in Overlapped
  BY <1>1, <1>2 DEF LInv, MatchIsCurrent
<1> QED
  BY <1>1, <1>2, <1>3

LEMMA LineTotalsStep ==
  ASSUME TInv, TInv', CInv, LInv, NEW q \in Request, RequestStep(q)
  PROVE  LInv'
<1>1. \A r \in Request : MatchIsCurrent(r)'
  BY MatchStaysCurrent
<1>2. ASSUME NEW n \in DOMAIN rows', rows'[n].quantity # rows'[n].total
      PROVE  rows'[n].cart \in Overlapped'
  <2>1. n \in DOMAIN rows /\ (rows'[n] = rows[n] \/ RowChange(q, n))
    BY <1>2, RowsChange
  <2>2. rows[n].cart \in CartId
    BY <2>1, CartIdsKnown DEF TInv, ItemTypes
  <2>3. CASE rows'[n] = rows[n]
    <3>1. rows[n].cart \in Overlapped
      BY <1>2, <2>1, <2>2, <2>3 DEF LInv, LineTotalsAgree, Overlapped
    <3> QED
      BY <2>2, <2>3, <3>1, StillOverlapped
  <2>4. CASE RowChange(q, n)
    <3>1. pc[q] = "merging" /\ Hit(q, n) /\ rows'[n] = Raised(q)[n]
      BY <1>2, <2>4 DEF RowChange
    <3>2. rows[n].cart \in Overlapped
      BY <1>2, <2>1, <3>1, RaisedAgrees
    <3>3. rows'[n].cart = rows[n].cart
      BY <2>1, <3>1, RaisedIs
    <3> QED
      BY <2>2, <3>2, <3>3, StillOverlapped
  <2> QED
    BY <2>1, <2>3, <2>4
<1>3. LineTotalsAgree'
  BY <1>2 DEF LineTotalsAgree, Overlapped
<1> QED
  BY <1>1, <1>3 DEF LInv

LEMMA LineTotalsKept == TInv /\ TInv' /\ CInv /\ LInv /\ [Next]_vars => LInv'
<1> SUFFICES ASSUME TInv, TInv', CInv, LInv, [Next]_vars PROVE LInv'
  OBVIOUS
<1>1. ASSUME UNCHANGED <<start, tables, cookie, pc, op, work, met>> PROVE LInv'
  <2>1. UNCHANGED <<rows, pc, op, cart, own, match, met>>
    BY <1>1 DEF tables, work
  <2>2. LineTotalsAgree'
    BY <2>1 DEF LInv, LineTotalsAgree, Kind
  <2>3. ASSUME NEW q \in Request PROVE MatchIsCurrent(q)'
    BY <2>1 DEF LInv, MatchIsCurrent, Overlapped, Kind
  <2> QED
    BY <2>2, <2>3 DEF LInv
<1> QED
  BY <1>1, OtherSteps, LineTotalsStep

LEMMA StartLines == Init => LInv
<1> SUFFICES ASSUME Init PROVE LInv
  OBVIOUS
<1>1. rows = start.rows /\ start \in Starts /\ pc = [q \in Request |-> "idle"]
  BY DEF Init
<1>2. \A n \in DOMAIN rows : rows[n].total = rows[n].quantity
  BY <1>1, StartsAgree
<1> QED
  BY <1>1, <1>2 DEF LInv, LineTotalsAgree, MatchIsCurrent

\* The total of a line is that of its quantity unless a login overlapped a request
\* on its cart: the UPDATE of a merge adds to the quantity that is there and writes
\* a total of the one it read (mergeCartOnLogin).
THEOREM LineTotals == Spec => []LineTotalsAgree
<1>1. LInv => LineTotalsAgree
  BY DEF LInv
<1> QED
  BY <1>1, StartTyped, TypesKept, StartCarts, CartsKept, StartLines, LineTotalsKept, PTL DEF Spec

-----------------------------------------------------------------------------
\* What a merge adds up

LEMMA SameSum ==
  ASSUME NEW rs \in Seq(Line), NEW ts \in Seq(Line), NEW c,
         RowsOf(ts, c) = RowsOf(rs, c), \A n \in RowsOf(rs, c) : ts[n] = rs[n]
  PROVE  SumOf(ts, c) = SumOf(rs, c)
<1>1. IsFiniteSet(RowsOf(rs, c)) /\ RowsOf(rs, c) \subseteq DOMAIN rs /\ RowsOf(rs, c) \subseteq DOMAIN ts
  BY RowsOfFinite DEF RowsOf
<1>2. \A n \in RowsOf(rs, c) : /\ Quantities(ts)[n] = Quantities(rs)[n]
                               /\ Totals(ts)[n] = Totals(rs)[n]
  BY <1>1 DEF Quantities, Totals
<1>3. /\ SumOver(Quantities(ts), RowsOf(rs, c)) = SumOver(Quantities(rs), RowsOf(rs, c))
      /\ SumOver(Totals(ts), RowsOf(rs, c)) = SumOver(Totals(rs), RowsOf(rs, c))
  BY <1>1, <1>2, SumDependsOnValues
<1> QED
  BY <1>3 DEF SumOf

\* Where a merge inserts the rows of some of those it found.
Places(I) == {Len(rows) + i : i \in I}
Originals(q, I) == {SetToSeq(Unmatched(q))[i] : i \in I}

\* What the rows a merge inserts add up to.
LEMMA InsertedSum ==
  ASSUME TInv, NEW q \in Request, own[q] # 0, NEW I \in SUBSET (1 .. Cardinality(Unmatched(q)))
  PROVE  /\ IsFiniteSet(Places(I))
         /\ Places(I) \subseteq DOMAIN Merged(q) /\ Places(I) \cap DOMAIN rows = {}
         /\ SumOver(Quantities(Merged(q)), Places(I)) = SumOver(found[q], Originals(q, I))
         /\ SumOver(Totals(Merged(q)), Places(I)) = SumOver(found[q], Originals(q, I))
<1> DEFINE N == Cardinality(Unmatched(q))
           L == Len(rows)
           gs == SetToSeq(Unmatched(q))
           m == Merged(q)
           at == [i \in 1 .. N |-> L + i]
           value == [i \in 1 .. N |-> found[q][gs[i]]]
<1>1. /\ N \in Nat /\ gs \in [1 .. N -> Unmatched(q)]
      /\ \A i, j \in 1 .. N : gs[i] = gs[j] => i = j
  BY UnmatchedIs, SetToSeqIs
<1>2. L \in Nat /\ DOMAIN rows = 1 .. L
  BY RowsAre DEF TInv
<1>3. /\ m \in Seq(Line) /\ Len(m) = L + N
      /\ \A i \in 1 .. N : m[L + i] = Inserted(q)[i]
  BY MergedIs
<1>4. \A i \in 1 .. N : Inserted(q)[i].quantity = found[q][gs[i]] /\ Inserted(q)[i].total = found[q][gs[i]]
  BY InsertedIs
<1>5. \A i \in 1 .. N : found[q][gs[i]] \in Nat
  <2>1. \A g \in Unmatched(q) : found[q][g] \in Nat
    BY UnmatchedIs
  <2> QED
    BY <1>1, <2>1
<1> HIDE DEF N, L, gs, m
<1>6. IsFiniteSet(I)
  <2>1. IsFiniteSet(1 .. N) /\ I \in SUBSET (1 .. N)
    BY <1>1, FS_Interval DEF N
  <2> QED
    BY <2>1, FS_Subset
<1>7. DOMAIN m = 1 .. L + N
  BY <1>3, LenProperties
<1>8. /\ \A i \in I : at[i] \in Places(I) /\ gs[i] \in Originals(q, I)
      /\ \A n \in Places(I) : \E i \in I : at[i] = n
      /\ \A g \in Originals(q, I) : \E i \in I : gs[i] = g
  BY DEF Places, Originals, L, gs, N
<1>9. \A i \in I : /\ L + i \in DOMAIN m /\ L + i \notin DOMAIN rows
                   /\ at[i] = L + i /\ value[i] = found[q][gs[i]]
  BY <1>1, <1>2, <1>7 DEF N
<1>10. \A i \in I : Quantities(m)[at[i]] = value[i] /\ Totals(m)[at[i]] = value[i] /\ value[i] \in Nat
  BY <1>3, <1>4, <1>5, <1>9 DEF Quantities, Totals, N
<1>11. \A i, j \in I : at[i] = at[j] => i = j
  BY <1>1, <1>2 DEF N
<1>12. Places(I) \subseteq DOMAIN m /\ Places(I) \cap DOMAIN rows = {}
  <2> SUFFICES ASSUME NEW n \in Places(I) PROVE n \in DOMAIN m /\ n \notin DOMAIN rows
    OBVIOUS
  <2>1. PICK i \in I : at[i] = n
    BY <1>8
  <2> QED
    BY <1>9, <2>1
<1>13. IsFiniteSet(Places(I))
  <2>1. IsFiniteSet(DOMAIN m)
    BY <1>1, <1>2, <1>7, FS_Interval
  <2> QED
    BY <1>12, <2>1, FS_Subset
<1>14. /\ \A i \in I : at[i] \in Places(I) /\ value[i] \in Nat /\ Quantities(m)[at[i]] = value[i]
       /\ \A n \in Places(I) : \E i \in I : at[i] = n
  BY <1>8, <1>10
<1>19. \A i \in I : at[i] \in Places(I) /\ value[i] \in Nat /\ Totals(m)[at[i]] = value[i]
  BY <1>8, <1>10
<1>20. /\ \A i \in I : gs[i] \in Originals(q, I) /\ value[i] \in Nat /\ found[q][gs[i]] = value[i]
       /\ \A g \in Originals(q, I) : \E i \in I : gs[i] = g
  BY <1>8, <1>9, <1>10
<1>15. \A i, j \in I : gs[i] = gs[j] => i = j
  BY <1>1 DEF N
<1> HIDE DEF at, value
<1>16. SumOver(Quantities(m), Places(I)) = SumOver(value, I)
  <2>1. Renames(at, I, Places(I), Quantities(m), value)
    BY <1>11, <1>14 DEF Renames
  <2> QED
    BY <1>6, <2>1, SumOfRenamed
<1>17. SumOver(Totals(m), Places(I)) = SumOver(value, I)
  <2>1. Renames(at, I, Places(I), Totals(m), value)
    BY <1>11, <1>14, <1>19 DEF Renames
  <2> QED
    BY <1>6, <2>1, SumOfRenamed
<1>18. SumOver(found[q], Originals(q, I)) = SumOver(value, I)
  <2>1. Renames(gs, I, Originals(q, I), found[q], value)
    BY <1>15, <1>20 DEF Renames
  <2> QED
    BY <1>6, <2>1, SumOfRenamed
<1> QED
  BY <1>8, <1>12, <1>13, <1>16, <1>17, <1>18 DEF m

\* A merge raises rows that are there.
LEMMA RaisedLive ==
  ASSUME TInv, NEW q \in Request, NEW n \in DOMAIN rows
  PROVE  Raised(q)[n].quantity > 0 <=> rows[n].quantity > 0
<1>1. CASE ~Hit(q, n)
  BY <1>1, RaisedIs
<1>2. CASE Hit(q, n)
  <2>1. /\ Raised(q)[n].quantity = rows[n].quantity + FromGuest(q, MergeKey(n))
        /\ MergeKey(n) \in DOMAIN match[q]
    BY <1>2, RaisedIs
  <2>2. FromGuest(q, MergeKey(n)) \in Nat
    BY <2>1, FromGuestIs
  <2>3. rows[n].quantity \in Nat /\ rows[n].quantity > 0
    <3>1. rows \in [DOMAIN rows -> Line]
      BY RowsAre DEF TInv
    <3> QED
      BY <1>2, <3>1 DEF Hit, Line
  <2> QED
    BY <2>1, <2>2, <2>3
<1> QED
  BY <1>1, <1>2

\* What a merge makes of its cart: the rows it raises, and the rows it inserts.
MergedItems(q) ==
  [items |-> SumOver(Quantities(Raised(q)), RowsOf(rows, own[q])) + SumOver(found[q], Unmatched(q)),
   amount |-> SumOver(Totals(Raised(q)), RowsOf(rows, own[q])) + SumOver(found[q], Unmatched(q))]

LEMMA MergedSum ==
  ASSUME TInv, NEW q \in Request, own[q] # 0
  PROVE  SumOf(Merged(q), own[q]) = MergedItems(q)
<1> DEFINE N == Cardinality(Unmatched(q))
           L == Len(rows)
           gs == SetToSeq(Unmatched(q))
           m == Merged(q)
           A == RowsOf(rows, own[q])
           B == Places(1 .. N)
<1>1. N \in Nat /\ gs \in [1 .. N -> Unmatched(q)] /\ \A g \in Unmatched(q) : \E i \in 1 .. N : gs[i] = g
  BY UnmatchedIs, SetToSeqIs
<1>2. L \in Nat /\ DOMAIN rows = 1 .. L /\ rows \in Seq(Line) /\ rows \in [DOMAIN rows -> Line]
  BY RowsAre DEF TInv, ItemTypes
<1>3. /\ m \in Seq(Line) /\ Len(m) = L + N
      /\ \A n \in DOMAIN rows : n \in DOMAIN m /\ m[n] = Raised(q)[n]
      /\ \A i \in 1 .. N : m[L + i] = Inserted(q)[i]
  BY MergedIs DEF Kept
<1>4. \A i \in 1 .. N : /\ gs[i] \in Unmatched(q) /\ Inserted(q)[i].cart = own[q]
                        /\ Inserted(q)[i].quantity = found[q][gs[i]]
  BY InsertedIs
<1>5. DOMAIN m = 1 .. L + N
  BY <1>3, LenProperties
<1>6. Originals(q, 1 .. N) = Unmatched(q)
  BY <1>1 DEF Originals
<1>7. /\ IsFiniteSet(B) /\ B \subseteq DOMAIN m /\ B \cap DOMAIN rows = {}
      /\ SumOver(Quantities(m), B) = SumOver(found[q], Unmatched(q))
      /\ SumOver(Totals(m), B) = SumOver(found[q], Unmatched(q))
  BY <1>6, InsertedSum
<1>8. \A g \in Unmatched(q) : found[q][g] \in Nat \ {0}
  BY UnmatchedIs
<1>9. /\ DOMAIN Raised(q) = DOMAIN rows
      /\ \A n \in DOMAIN rows :
           Raised(q)[n].cart = rows[n].cart /\ (Raised(q)[n].quantity > 0 <=> rows[n].quantity > 0)
  BY RaisedIs, RaisedLive
<1>10. B = {L + i : i \in 1 .. N}
  BY DEF Places
<1> HIDE DEF N, L, gs, m, B
<1>11. RowsOf(m, own[q]) = A \cup B
  <2>1. \A n \in DOMAIN m : n \in DOMAIN rows \/ (n - L \in 1 .. N /\ n = L + (n - L))
    BY <1>1, <1>2, <1>5
  <2>2. B \subseteq RowsOf(m, own[q])
    <3> SUFFICES ASSUME NEW i \in 1 .. N PROVE L + i \in RowsOf(m, own[q])
      BY <1>10
    <3>1. L + i \in DOMAIN m
      BY <1>7, <1>10
    <3>2. m[L + i].cart = own[q] /\ m[L + i].quantity \in Nat \ {0}
      BY <1>3, <1>4, <1>8
    <3>3. m[L + i].quantity > 0
      BY <3>2
    <3> QED
      BY <3>1, <3>2, <3>3 DEF RowsOf
  <2>3. \A n \in DOMAIN rows : n \in A <=> n \in RowsOf(m, own[q])
    BY <1>3, <1>9 DEF RowsOf
  <2>4. A \subseteq DOMAIN rows /\ RowsOf(m, own[q]) \subseteq DOMAIN m
    BY DEF RowsOf
  <2>5. ASSUME NEW n \in RowsOf(m, own[q]) PROVE n \in A \cup B
    <3>1. CASE n \in DOMAIN rows
      BY <2>3, <3>1
    <3>2. CASE n - L \in 1 .. N /\ n = L + (n - L)
      BY <1>10, <3>2
    <3> QED
      BY <2>1, <2>4, <3>1, <3>2
  <2> QED
    BY <2>2, <2>3, <2>4, <2>5
<1>12. A \cap B = {} /\ A \subseteq DOMAIN rows /\ A \subseteq DOMAIN m
  BY <1>3, <1>7 DEF RowsOf
<1>13. IsFiniteSet(A) /\ Counts(Quantities(m), A) /\ Counts(Totals(m), A)
       /\ Counts(Quantities(m), B) /\ Counts(Totals(m), B)
  <2>1. IsFiniteSet(A)
    BY <1>2, RowsOfFinite
  <2>2. Counts(Quantities(m), DOMAIN m) /\ Counts(Totals(m), DOMAIN m)
    BY <1>3, RowsOfFinite
  <2> QED
    BY <1>7, <1>12, <2>1, <2>2 DEF Counts
<1>14. /\ SumOver(Quantities(m), A \cup B) = SumOver(Quantities(m), A) + SumOver(Quantities(m), B)
       /\ SumOver(Totals(m), A \cup B) = SumOver(Totals(m), A) + SumOver(Totals(m), B)
  BY <1>7, <1>12, <1>13, SumOfUnion
<1>15. /\ SumOver(Quantities(m), A) = SumOver(Quantities(Raised(q)), A)
       /\ SumOver(Totals(m), A) = SumOver(Totals(Raised(q)), A)
  <2>1. \A n \in A : /\ Quantities(m)[n] = Quantities(Raised(q))[n]
                     /\ Totals(m)[n] = Totals(Raised(q))[n]
    BY <1>3, <1>9, <1>12 DEF Quantities, Totals
  <2> QED
    BY <1>13, <2>1, SumDependsOnValues
<1> HIDE DEF A
<1> QED
  BY <1>7, <1>11, <1>14, <1>15 DEF SumOf, MergedItems, m, A

\* What a merge will make of its cart does not change with other carts.
LEMMA SameMerged ==
  ASSUME TInv, TInv', NEW q \in Request, own[q] # 0, own'[q] = own[q], found'[q] = found[q],
         match'[q] = match[q], Kept(rows', carts),
         RowsOf(rows', own[q]) = RowsOf(rows, own[q]),
         \A n \in RowsOf(rows, own[q]) : rows'[n] = rows[n]
  PROVE  MergedItems(q)' = MergedItems(q)
<1> DEFINE A == RowsOf(rows, own[q])
<1>1. /\ FoundOK(q) /\ MatchOK(q)
      /\ \A n \in DOMAIN rows : n \in DOMAIN rows' /\ rows'[n].key = rows[n].key
  BY DEF TInv, Kept
<1>2. \A g \in DOMAIN found[q] : g \in DOMAIN rows /\ rows'[g].key = rows[g].key
  BY <1>1 DEF FoundOK
<1>3. Unmatched(q)' = Unmatched(q)
  BY <1>2 DEF Unmatched, MergeKey
<1>4. \A k : FromGuest(q, k)' = FromGuest(q, k)
  BY DEF FromGuest
<1>5. IsFiniteSet(A) /\ A \subseteq DOMAIN rows
  BY RowsOfFinite DEF TInv, ItemTypes
<1>6. A \subseteq DOMAIN rows' /\ DOMAIN Raised(q) = DOMAIN rows /\ DOMAIN Raised(q)' = DOMAIN rows'
  BY <1>1, <1>5 DEF Raised
<1>7. \A n \in A : Raised(q)'[n] = Raised(q)[n]
  <2> SUFFICES ASSUME NEW n \in A PROVE Raised(q)'[n] = Raised(q)[n]
    OBVIOUS
  <2>1. rows'[n] = rows[n] /\ n \in DOMAIN rows /\ n \in DOMAIN rows'
    BY <1>5, <1>6
  <2>2. Hit(q, n)' <=> Hit(q, n)
    BY <2>1 DEF Hit, MergeKey
  <2>3. MergeKey(n)' = MergeKey(n) /\ FromGuest(q, MergeKey(n))' = FromGuest(q, MergeKey(n))
    BY <1>4, <2>1 DEF MergeKey
  <2> QED
    BY <2>1, <2>2, <2>3 DEF Raised
<1>8. \A n \in A : /\ Quantities(Raised(q)')[n] = Quantities(Raised(q))[n]
                   /\ Totals(Raised(q)')[n] = Totals(Raised(q))[n]
  BY <1>5, <1>6, <1>7 DEF Quantities, Totals
<1> HIDE DEF A
<1>9. /\ SumOver(Quantities(Raised(q)'), A) = SumOver(Quantities(Raised(q)), A)
      /\ SumOver(Totals(Raised(q)'), A) = SumOver(Totals(Raised(q)), A)
  BY <1>5, <1>8, SumDependsOnValues
<1> QED
  BY <1>3, <1>9 DEF MergedItems, A

-----------------------------------------------------------------------------
\* What a step does to the totals of carts

CartTotals(c) == [items |-> carts[c].items, amount |-> carts[c].amount]

\* A cart the step does not write to keeps its rows.
LEMMA RowsUntouched ==
  ASSUME TInv, NEW q \in Request, RequestStep(q), NEW c, ~Writes(q, c)
  PROVE  /\ RowsOf(rows', c) = RowsOf(rows, c)
         /\ \A n \in RowsOf(rows, c) : rows'[n] = rows[n]
<1>1. \A n \in DOMAIN rows : n \in DOMAIN rows' /\ rows'[n].cart = rows[n].cart
  BY RowsStay DEF Kept
<1>2. ASSUME NEW n \in DOMAIN rows, rows[n].cart = c PROVE rows'[n] = rows[n]
  BY <1>2, RowsChange DEF RowChange
<1>3. ASSUME NEW n \in DOMAIN rows', rows'[n].cart = c PROVE n \in DOMAIN rows /\ rows[n].cart = c
  BY <1>1, <1>3, RowsChange
<1> QED
  BY <1>1, <1>2, <1>3 DEF RowsOf

LEMMA AssignType ==
  ASSUME ItemTypes, NEW c, Exists(c)
  PROVE  LET new == [carts EXCEPT ![c].holder = "customer"] IN
         /\ DOMAIN new = DOMAIN carts
         /\ \A d \in DOMAIN carts : d # c => new[d] = carts[d]
         /\ new[c].holder = "customer" /\ new[c].items = carts[c].items /\ new[c].amount = carts[c].amount
<1>1. carts \in [DOMAIN carts -> CartRow] /\ c \in DOMAIN carts
  BY LenProperties DEF ItemTypes, Exists
<1> QED
  BY <1>1 DEF CartRow

LEMMA NewCart ==
  ASSUME TInv, NEW q \in Request, RouteToNewCart(q)
  PROVE  /\ DOMAIN carts' = DOMAIN carts \cup {Len(carts) + 1} /\ Len(carts) + 1 \notin DOMAIN carts
         /\ \A d \in DOMAIN carts : carts'[d] = carts[d]
         /\ carts'[Len(carts) + 1] = [holder |-> "guest", items |-> 0, amount |-> 0]
         /\ UNCHANGED rows
<1> DEFINE r == [holder |-> "guest", items |-> 0, amount |-> 0]
<1>1. carts' = Append(carts, r) /\ UNCHANGED rows /\ r \in CartRow
  BY DEF RouteToNewCart, CartRow
<1>2. carts \in Seq(CartRow) /\ Len(carts) \in Nat /\ DOMAIN carts = 1 .. Len(carts)
  BY TypeFacts
<1> HIDE DEF r
<1>3. /\ carts' \in Seq(CartRow) /\ Len(carts') = Len(carts) + 1
      /\ \A i \in 1 .. Len(carts) : carts'[i] = carts[i]
      /\ carts'[Len(carts) + 1] = r
  BY <1>1, <1>2, AppendProperties
<1>4. DOMAIN carts' = 1 .. Len(carts) + 1
  BY <1>3, LenProperties
<1>5. DOMAIN carts' = DOMAIN carts \cup {Len(carts) + 1} /\ Len(carts) + 1 \notin DOMAIN carts
  BY <1>2, <1>4
<1> QED
  BY <1>1, <1>2, <1>3, <1>5 DEF r

\* Which steps change the carts.
LEMMA CartWriters ==
  ASSUME NEW q \in Request, RequestStep(q)
  PROVE  \/ UNCHANGED carts
         \/ RouteToNewCart(q) \/ WriteTotals(q) \/ AssignCart(q) \/ CommitMerge(q) \/ DeleteGuest(q)
         \/ PlaceOrder(q)
<1>1. RouteToCart(q) \/ RouteNowhere(q) \/ ReadGuest(q) \/ Reply(q) \/ Cut(q) => UNCHANGED carts
  BY DEF RouteToCart, RouteNowhere, ReadGuest, Reply, Cut, tables
<1>2. ReadLine(q) \/ SumLines(q) \/ WriteLine(q) \/ InsertLine(q) => UNCHANGED carts
  BY DEF ReadLine, SumLines, WriteLine, InsertLine, tables
<1>3. ReadOwn(q) \/ MatchLines(q) \/ SumMerged(q) => UNCHANGED carts
  BY DEF ReadOwn, MatchLines, SumMerged, tables
<1> QED
  BY <1>1, <1>2, <1>3 DEF RequestStep, Route, ItemStep, LoginStep

\* A cart the step does not write to keeps its totals, and is deleted or not as before.
LEMMA CartUntouched ==
  ASSUME TInv, NEW q \in Request, RequestStep(q), NEW c \in DOMAIN carts, ~Writes(q, c)
  PROVE  /\ c \in DOMAIN carts'
         /\ carts'[c].items = carts[c].items /\ carts'[c].amount = carts[c].amount
         /\ carts'[c].holder = "deleted" <=> carts[c].holder = "deleted"
<1>0. ItemTypes
  BY TypeFacts
<1>1. CASE UNCHANGED carts
  BY <1>1
<1>2. CASE RouteToNewCart(q)
  BY <1>2, NewCart
<1>3. CASE AssignCart(q)
  <2>1. CASE ~Exists(cart[q])
    BY <1>3, <2>1 DEF AssignCart
  <2>2. CASE Exists(cart[q])
    <3>1. carts' = [carts EXCEPT ![cart[q]].holder = "customer"]
      BY <1>3, <2>2 DEF AssignCart
    <3>2. /\ DOMAIN carts' = DOMAIN carts
          /\ \A d \in DOMAIN carts : d # cart[q] => carts'[d] = carts[d]
          /\ carts'[cart[q]].holder = "customer"
          /\ carts'[cart[q]].items = carts[cart[q]].items /\ carts'[cart[q]].amount = carts[cart[q]].amount
      BY <1>0, <2>2, <3>1, AssignType
    <3>3. c = cart[q] => carts[c].holder # "deleted"
      BY <2>2 DEF Exists
    <3> QED
      BY <3>2, <3>3
  <2> QED
    BY <2>1, <2>2
<1>4. ASSUME NEW d, NEW s \in SumType, carts' = Totalled(d, s), Writes(q, d)
      PROVE  c \in DOMAIN carts' /\ carts'[c] = carts[c]
  BY <1>0, <1>4, TotalledType
<1>5. CASE WriteTotals(q)
  <2>1. carts' = Totalled(cart[q], sum[q]) /\ sum[q] \in SumType /\ cart' = cart
    BY <1>0, <1>5 DEF WriteTotals, work, ItemTypes
  <2>2. Writes(q, cart[q])
    BY <1>5, <2>1 DEF Writes
  <2> QED
    BY <1>4, <2>1, <2>2
<1>6. CASE CommitMerge(q)
  <2>1. carts' = Totalled(own[q], sum[q]) /\ sum[q] \in SumType /\ own' = own
    BY <1>0, <1>6 DEF CommitMerge, work, ItemTypes
  <2>2. Writes(q, own[q])
    BY <1>6, <2>1 DEF Writes
  <2> QED
    BY <1>4, <2>1, <2>2
<1>7. CASE PlaceOrder(q)
  <2>1. PICK d : carts' = Totalled(d, NoSum) /\ cart' = [cart EXCEPT ![q] = d]
    BY <1>7 DEF PlaceOrder
  <2>2. Writes(q, d) /\ NoSum \in SumType
    BY <1>0, <1>7, <2>1 DEF Writes, NoSum, SumType, ItemTypes
  <2> QED
    BY <1>4, <2>1, <2>2
<1>8. CASE DeleteGuest(q)
  <2>1. cart' = cart
    BY <1>8 DEF DeleteGuest, work
  <2>2. c # cart[q]
    BY <1>8, <2>1 DEF Writes
  <2> QED
    BY <1>0, <1>8, <2>2, DeleteType DEF DeleteGuest
<1> QED
  BY <1>1, <1>2, <1>3, <1>5, <1>6, <1>7, <1>8, CartWriters

\* Carts stay, deleted or not; one that was not there before is a new one.
LEMMA CartsStay ==
  ASSUME TInv, NEW q \in Request, RequestStep(q)
  PROVE  DOMAIN carts' = DOMAIN carts \/ RouteToNewCart(q)
<1>0. ItemTypes
  BY TypeFacts
<1>1. \A s \in SumType : \A d : DOMAIN Totalled(d, s) = DOMAIN carts
  BY <1>0, TotalledType
<1>2. sum[q] \in SumType /\ NoSum \in SumType
  BY <1>0 DEF ItemTypes, NoSum, SumType
<1>3. WriteTotals(q) \/ CommitMerge(q) \/ PlaceOrder(q) => DOMAIN carts' = DOMAIN carts
  BY <1>1, <1>2 DEF WriteTotals, CommitMerge, PlaceOrder
<1>4. DeleteGuest(q) => DOMAIN carts' = DOMAIN carts
  BY <1>0, DeleteType DEF DeleteGuest
<1>5. AssignCart(q) => DOMAIN carts' = DOMAIN carts
  BY <1>0, AssignType DEF AssignCart
<1> QED
  BY <1>3, <1>4, <1>5, CartWriters

LEMMA CartAdded ==
  ASSUME TInv, NEW q \in Request, RequestStep(q), NEW c \in DOMAIN carts' \ DOMAIN carts
  PROVE  RouteToNewCart(q) /\ c = Len(carts) + 1
BY CartsStay, NewCart

LEMMA CartStays ==
  ASSUME TInv, NEW q \in Request, RequestStep(q), NEW c \in DOMAIN carts
  PROVE  c \in DOMAIN carts'
BY CartsStay, NewCart

-----------------------------------------------------------------------------
\* Deleted carts

\* A deleted cart has no rows and no totals; a merge that will insert rows has
\* locked its cart.
GoneInv ==
  /\ \A c \in DOMAIN carts : carts[c].holder = "deleted" => CartTotals(c) = NoSum /\ RowsOf(rows, c) = {}
  /\ \A q \in Request : pc[q] = "merging" /\ Unmatched(q) # {} => Exists(own[q])

\* What a request found does not change with the rows it was read from.
LEMMA SameUnmatched ==
  ASSUME TInv, NEW q \in Request, RequestStep(q), NEW r \in Request,
         found'[r] = found[r], match'[r] = match[r]
  PROVE  Unmatched(r)' = Unmatched(r)
<1>1. \A g \in DOMAIN found[r] : g \in DOMAIN rows /\ rows'[g].key = rows[g].key
  BY TypeFacts, RowsStay DEF FoundOK, Kept
<1> QED
  BY <1>1 DEF Unmatched, MergeKey

LEMMA NothingToInsert ==
  ASSUME TInv, NEW q \in Request, own[q] # 0, Inserted(q) = <<>>
  PROVE  Unmatched(q) = {}
<1>1. IsFiniteSet(Unmatched(q)) /\ Len(Inserted(q)) = Cardinality(Unmatched(q))
  BY UnmatchedIs, InsertedIs
<1>2. Len(Inserted(q)) = 0
  OBVIOUS
<1>3. Cardinality(Unmatched(q)) = 0
  BY <1>1, <1>2
<1> QED
  BY <1>1, <1>3, FS_EmptySet

LEMMA ErasedRows ==
  ASSUME ItemTypes, NEW c
  PROVE  RowsOf(Erased(RowsOf(rows, c)), c) = {}
<1> DEFINE new == Erased(RowsOf(rows, c))
<1> SUFFICES ASSUME NEW n \in RowsOf(new, c) PROVE FALSE
  OBVIOUS
<1>1. /\ DOMAIN new = DOMAIN rows
      /\ \A m \in DOMAIN rows : m \notin RowsOf(rows, c) => new[m] = rows[m]
      /\ \A m \in DOMAIN rows : m \in RowsOf(rows, c) => new[m].quantity = 0
  BY ErasedKept
<1> HIDE DEF new
<1>2. n \in DOMAIN rows /\ new[n].cart = c /\ new[n].quantity > 0
  BY <1>1 DEF RowsOf
<1>3. CASE n \in RowsOf(rows, c)
  BY <1>1, <1>2, <1>3
<1>4. CASE n \notin RowsOf(rows, c)
  BY <1>1, <1>2, <1>4 DEF RowsOf
<1> QED
  BY <1>3, <1>4

LEMMA EmptySum ==
  ASSUME NEW rs, NEW c, RowsOf(rs, c) = {}
  PROVE  SumOf(rs, c) = NoSum
BY SumOfEmpty DEF SumOf, NoSum

LEMMA CommitsTo ==
  ASSUME NEW q \in Request, CommitMerge(q), NEW c, Writes(q, c)
  PROVE  own[q] = c
<1>1. pc[q] = "merging" /\ own' = own
  BY DEF CommitMerge, work
<1>2. ~WriteLine(q) /\ ~InsertLine(q) /\ ~WriteTotals(q) /\ ~DeleteGuest(q) /\ ~PlaceOrder(q)
  BY <1>1 DEF WriteLine, InsertLine, WriteTotals, DeleteGuest, PlaceOrder, Begin
<1> QED
  BY <1>1, <1>2 DEF Writes

\* A deleted cart stays as it is.
LEMMA GoneStays ==
  ASSUME TInv, GoneInv, NEW q \in Request, RequestStep(q),
         NEW c \in DOMAIN carts, carts[c].holder = "deleted"
  PROVE  /\ carts'[c].items = 0 /\ carts'[c].amount = 0 /\ carts'[c].holder = "deleted"
         /\ RowsOf(rows', c) = {}
<1>1. /\ ItemTypes /\ ~Exists(c) /\ RowsOf(rows, c) = {} /\ carts[c].items = 0 /\ carts[c].amount = 0
      /\ rows \in [DOMAIN rows -> Line]
  BY TypeFacts DEF GoneInv, CartTotals, NoSum, Exists
<1>2. CASE ~Writes(q, c)
  BY <1>1, <1>2, CartUntouched, RowsUntouched
<1>3. CASE Writes(q, c)
  <2>1. carts'[c] = carts[c]
    <3>1. CASE WriteLine(q) \/ InsertLine(q)
      BY <3>1 DEF WriteLine, InsertLine
    <3>2. ASSUME NEW d, NEW s \in SumType, carts' = Totalled(d, s) PROVE carts'[c] = carts[c]
      BY <1>1, <3>2, TotalledType
    <3>3. sum[q] \in SumType /\ NoSum \in SumType
      BY <1>1 DEF ItemTypes, NoSum, SumType
    <3>4. CASE WriteTotals(q) \/ CommitMerge(q)
      BY <3>2, <3>3, <3>4 DEF WriteTotals, CommitMerge
    <3>5. CASE PlaceOrder(q)
      BY <3>2, <3>3, <3>5 DEF PlaceOrder
    <3>6. CASE DeleteGuest(q)
      BY <1>1, <3>6, DeleteType DEF DeleteGuest
    <3> QED
      BY <1>3, <3>1, <3>4, <3>5, <3>6 DEF Writes
  <2>2. ASSUME NEW n \in RowsOf(rows', c) PROVE FALSE
    <3>1. n \in DOMAIN rows' /\ rows'[n].cart = c /\ rows'[n].quantity > 0
      BY DEF RowsOf
    <3>2. CASE n \in DOMAIN rows
      <4>1. rows[n].cart = c /\ (rows'[n] = rows[n] \/ RowChange(q, n))
        BY <3>1, <3>2, RowsStay, RowsChange DEF Kept
      <4>2. rows[n].quantity = 0
        <5>1. rows[n].quantity \in Nat
          BY <1>1, <3>2 DEF Line
        <5>2. ~(rows[n].quantity > 0)
          BY <1>1, <3>2, <4>1 DEF RowsOf
        <5> QED
          BY <5>1, <5>2
      <4>3. rows'[n].quantity = 0
        BY <4>1, <4>2 DEF RowChange
      <4> QED
        BY <3>1, <4>3
    <3>3. CASE n \notin DOMAIN rows
      <4>1. CommitMerge(q) /\ Unmatched(q) # {}
        BY <1>1, <3>1, <3>3, RowsChange
      <4>2. Exists(own[q])
        BY <4>1 DEF GoneInv, CommitMerge
      <4> QED
        BY <1>1, <1>3, <4>1, <4>2, CommitsTo
    <3> QED
      BY <3>2, <3>3
  <2> QED
    BY <1>1, <2>1, <2>2
<1> QED
  BY <1>2, <1>3

\* Only a login deletes a cart, with its rows.
LEMMA Deletes ==
  ASSUME TInv, NEW q \in Request, RequestStep(q),
         NEW c \in DOMAIN carts, carts[c].holder # "deleted", carts'[c].holder = "deleted"
  PROVE  DeleteGuest(q) /\ c = cart[q]
<1>0. ItemTypes
  BY TypeFacts
<1>1. Writes(q, c)
  BY CartUntouched
<1>2. ASSUME NEW d, NEW s \in SumType, carts' = Totalled(d, s) PROVE FALSE
  BY <1>0, <1>2, TotalledType
<1>3. sum[q] \in SumType /\ NoSum \in SumType
  BY <1>0 DEF ItemTypes, NoSum, SumType
<1>4. ~WriteTotals(q) /\ ~CommitMerge(q) /\ ~PlaceOrder(q)
  BY <1>2, <1>3 DEF WriteTotals, CommitMerge, PlaceOrder
<1>5. ~WriteLine(q) /\ ~InsertLine(q)
  BY DEF WriteLine, InsertLine
<1>6. DeleteGuest(q) /\ cart'[q] = c
  BY <1>1, <1>4, <1>5 DEF Writes
<1> QED
  BY <1>6 DEF DeleteGuest, work

\* A merge keeps its cart from being deleted.
LEMMA MergeLocks ==
  ASSUME TInv, GoneInv, NEW q \in Request, RequestStep(q), NEW r \in Request,
         pc'[r] = "merging", Unmatched(r)' # {}
  PROVE  Exists(own[r])'
<1>1. CASE r = q
  <2>1. SumMerged(q)
    BY <1>1, Moves
  <2>2. own[q] # 0 /\ UNCHANGED <<carts, own, found, match>>
    BY <2>1, TypeFacts DEF StageOK, SumMerged, tables
  <2>3. Unmatched(q) # {}
    BY <1>1, <2>2, SameUnmatched
  <2>4. Inserted(q) # <<>>
    BY <2>2, <2>3, NothingToInsert
  <2>5. Exists(own[q])
    BY <1>1, <2>1, <2>4, StageOf DEF SumMerged
  <2> QED
    BY <1>1, <2>2, <2>5 DEF Exists
<1>2. CASE r # q
  <2>1. pc[r] = "merging" /\ own'[r] = own[r] /\ Unmatched(r) # {}
    BY <1>2, RequestActs, SameUnmatched
  <2>2. Exists(own[r])
    BY <2>1 DEF GoneInv
  <2>3. own[r] \in DOMAIN carts'
    BY <2>2, CartStays DEF Exists
  <2>4. carts'[own[r]].holder # "deleted"
    <3> SUFFICES ASSUME carts'[own[r]].holder = "deleted" PROVE FALSE
      OBVIOUS
    <3>1. DeleteGuest(q) /\ own[r] = cart[q]
      BY <2>2, Deletes DEF Exists
    <3> QED
      BY <2>1, <3>1 DEF DeleteGuest, LockedCart
  <2> QED
    BY <2>1, <2>3, <2>4 DEF Exists
<1> QED
  BY <1>1, <1>2

LEMMA GoneKept ==
  ASSUME TInv, GoneInv, NEW q \in Request, RequestStep(q)
  PROVE  GoneInv'
<1>1. ASSUME NEW c \in DOMAIN carts', carts'[c].holder = "deleted"
      PROVE  carts'[c].items = 0 /\ carts'[c].amount = 0 /\ RowsOf(rows', c) = {}
  <2>1. CASE c \notin DOMAIN carts
    BY <1>1, <2>1, CartAdded, NewCart
  <2>2. CASE c \in DOMAIN carts /\ carts[c].holder = "deleted"
    BY <2>2, GoneStays
  <2>3. CASE c \in DOMAIN carts /\ carts[c].holder # "deleted"
    <3>1. DeleteGuest(q) /\ c = cart[q]
      BY <1>1, <2>3, Deletes
    <3>2. rows' = Erased(RowsOf(rows, c)) /\ Exists(c)
      BY <2>3, <3>1 DEF DeleteGuest, Exists
    <3>3. carts'[c] = [holder |-> "deleted", items |-> 0, amount |-> 0]
      BY <3>1, <3>2, TypeFacts, DeleteType DEF DeleteGuest
    <3> QED
      BY <3>2, <3>3, TypeFacts, ErasedRows
  <2> QED
    BY <2>1, <2>2, <2>3
<1>2. \A r \in Request : pc'[r] = "merging" /\ Unmatched(r)' # {} => Exists(own[r])'
  BY MergeLocks
<1> QED
  BY <1>1, <1>2 DEF GoneInv, CartTotals, NoSum

-----------------------------------------------------------------------------
\* The totals of carts

\* From these stages on a request is sure to count among those that began.
Surely == {"written", "summed", "replying", "assigning", "discarding", "merging", "merged", "done", "cut"}

\* Who works on the cart, and whether they kept apart.
Us(c) == {q \in Request : pc[q] \in Surely /\ c \in {cart[q], own[q]}}
Quiet(c) == \A q, r \in Us(c) : pc[q] # "cut" /\ {q, r} \notin met

TotalsOK(c) == CartTotals(c) = SumOf(rows, c)

\* While requests keep apart, only one that has written and not yet stored its sums
\* leaves a cart with other totals, and the sums computed are those of the rows.
CartCounts(c) ==
  Quiet(c) =>
    /\ (\A q \in Us(c) : pc[q] \notin {"written", "summed"}) => TotalsOK(c)
    /\ \A q \in Us(c) : pc[q] = "summed" => sum[q] = SumOf(rows, c)
    /\ \A q \in Us(c) : pc[q] = "merging" /\ own[q] = c => sum[q] = MergedItems(q)

MInv == GoneInv /\ \A c \in DOMAIN carts : CartCounts(c)

LEMMA NotZero ==
  ASSUME NEW cs, cs \in Seq(CartRow), NEW c \in DOMAIN cs
  PROVE  c # 0
<1>1. DOMAIN cs = 1 .. Len(cs) /\ Len(cs) \in Nat
  BY LenProperties
<1> QED
  BY <1>1, NoZero, Zenon

LEMMA UsGoOn ==
  ASSUME TInv, NEW q \in Request, RequestStep(q), NEW c, c # 0, NEW r \in Us(c)
  PROVE  r \in Us(c)'
<1>1. r \in Request /\ pc[r] \in Surely /\ c \in {cart[r], own[r]}
  BY DEF Us
<1>2. c \in {cart'[r], own'[r]}
  BY <1>1, RequestActs
<1>3. pc'[r] \in Surely
  <2>1. CASE r # q
    BY <1>1, <2>1, RequestActs
  <2>2. CASE r = q
    BY <1>1, <2>2, Moves DEF Surely, Ended
  <2> QED
    BY <2>1, <2>2
<1> QED
  BY <1>1, <1>2, <1>3 DEF Us

LEMMA QuietBefore ==
  ASSUME TInv, NEW q \in Request, RequestStep(q), NEW c, c # 0, Quiet(c)'
  PROVE  Quiet(c)
<1> SUFFICES ASSUME NEW p \in Us(c), NEW r \in Us(c)
             PROVE  pc[p] # "cut" /\ {p, r} \notin met
  BY DEF Quiet
<1>1. pc'[p] # "cut" /\ {p, r} \notin met'
  BY UsGoOn DEF Quiet
<1>2. met \subseteq met'
  BY RequestActs
<1>3. pc[p] # "cut"
  <2>1. CASE p # q
    BY <1>1, <2>1, RequestActs DEF Us
  <2>2. CASE p = q
    BY <2>2, Moves DEF Ended
  <2> QED
    BY <2>1, <2>2
<1> QED
  BY <1>1, <1>2, <1>3

\* If requests keep apart, whoever acts on a cart finds the others done.
LEMMA Alone ==
  ASSUME TInv, CInv, NEW q \in Request, RequestStep(q), NEW c, Quiet(c)', q \in Us(c)',
         NEW r \in Us(c)', r # q
  PROVE  pc'[r] = "done"
<1>1. r \in Request /\ pc'[r] \in Surely /\ pc'[r] # "cut" /\ {q, r} \notin met'
  BY DEF Us, Quiet
<1>2. pc[r] = pc'[r]
  BY <1>1, RequestActs
<1>3. r \notin InFlight
  BY <1>1, ActorMeets
<1> QED
  BY <1>1, <1>2, <1>3 DEF InFlight, Surely, Ended

\* A step that leaves the totals right, or is yet to store its sums.
LEMMA CountsAlone ==
  ASSUME TInv, CInv, NEW q \in Request, RequestStep(q), NEW c, q \in Us(c)',
         pc'[q] \notin {"summed", "merging"},
         Quiet(c)' => pc'[q] = "written" \/ TotalsOK(c)'
  PROVE  CartCounts(c)'
<1> SUFFICES ASSUME Quiet(c)'
             PROVE  /\ (\A p \in Us(c)' : pc'[p] \notin {"written", "summed"}) => TotalsOK(c)'
                    /\ \A p \in Us(c)' : pc'[p] \notin {"summed", "merging"}
  BY DEF CartCounts
<1>1. \A p \in Us(c)' : p # q => pc'[p] = "done"
  BY Alone
<1> QED
  BY <1>1

\* A step that leaves a cart and its rows alone.
LEMMA CountsUntouched ==
  ASSUME TInv, TInv', CInv, NEW q \in Request, RequestStep(q), NEW c \in DOMAIN carts, CartCounts(c),
         RowsOf(rows', c) = RowsOf(rows, c), \A n \in RowsOf(rows, c) : rows'[n] = rows[n],
         carts'[c].items = carts[c].items, carts'[c].amount = carts[c].amount,
         ~(WriteTotals(q) /\ cart[q] = c)
  PROVE  CartCounts(c)'
<1> SUFFICES ASSUME Quiet(c)'
             PROVE  /\ (\A p \in Us(c)' : pc'[p] \notin {"written", "summed"}) => TotalsOK(c)'
                    /\ \A p \in Us(c)' : pc'[p] = "summed" => sum'[p] = SumOf(rows', c)
                    /\ \A p \in Us(c)' : pc'[p] = "merging" /\ own'[p] = c => sum'[p] = MergedItems(p)'
  BY DEF CartCounts
<1>0. ItemTypes /\ ItemTypes' /\ c # 0
  BY TypeFacts, NotZero DEF TInv
<1>1. /\ (\A p \in Us(c) : pc[p] \notin {"written", "summed"}) => TotalsOK(c)
      /\ \A p \in Us(c) : pc[p] = "summed" => sum[p] = SumOf(rows, c)
      /\ \A p \in Us(c) : pc[p] = "merging" /\ own[p] = c => sum[p] = MergedItems(p)
  BY <1>0, QuietBefore DEF CartCounts
<1>2. SumOf(rows', c) = SumOf(rows, c)
  BY <1>0, SameSum DEF ItemTypes
<1>3. \A p \in Us(c)' : p # q => p \in Us(c) /\ pc'[p] = pc[p] /\ sum'[p] = sum[p] /\ own'[p] = own[p]
  BY RequestActs DEF Us
<1>4. ASSUME \A p \in Us(c)' : pc'[p] \notin {"written", "summed"}
      PROVE  TotalsOK(c)'
  <2>1. ASSUME NEW p \in Us(c) PROVE pc[p] \notin {"written", "summed"}
    <3>1. p \in Us(c)' /\ p \in Request
      BY <1>0, UsGoOn DEF Us
    <3>2. CASE p # q
      BY <1>3, <1>4, <3>1, <3>2
    <3>3. CASE p = q
      <4>1. pc'[q] \notin {"written", "summed", "cut"}
        BY <1>4, <3>1, <3>3 DEF Quiet
      <4>2. ~WriteTotals(q)
        <5> SUFFICES ASSUME WriteTotals(q) PROVE FALSE
          OBVIOUS
        <5>1. own[q] = 0
          BY TypeFacts DEF WriteTotals, StageOK
        <5> QED
          BY <1>0, <3>3, <5>1 DEF Us
      <4> QED
        BY <3>3, <4>1, <4>2, Moves
    <3> QED
      BY <3>2, <3>3
  <2> QED
    BY <1>1, <1>2, <2>1 DEF TotalsOK, CartTotals
<1>5. ASSUME NEW p \in Us(c)', pc'[p] = "summed"
      PROVE  sum'[p] = SumOf(rows', c)
  <2>1. CASE p # q
    BY <1>1, <1>2, <1>3, <1>5, <2>1
  <2>2. CASE p = q
    <3>1. SumLines(q)
      BY <1>5, <2>2, Moves
    <3>2. sum'[q] = SumOf(rows, cart[q]) /\ cart' = cart /\ own' = own /\ own[q] = 0
      BY <1>0, <3>1, TypeFacts DEF SumLines, ItemTypes, StageOK
    <3>3. cart[q] = c
      BY <1>0, <2>2, <3>2 DEF Us
    <3> QED
      BY <1>2, <2>2, <3>2, <3>3
  <2> QED
    BY <2>1, <2>2
<1>6. ASSUME NEW p \in Us(c)', pc'[p] = "merging", own'[p] = c
      PROVE  sum'[p] = MergedItems(p)'
  <2>1. p \in Request /\ Kept(rows', carts)
    BY RowsStay DEF Us
  <2>2. ASSUME own[p] = c, found'[p] = found[p], match'[p] = match[p]
        PROVE  MergedItems(p)' = MergedItems(p)
    BY <1>0, <1>6, <2>1, <2>2, SameMerged
  <2>3. CASE p # q
    <3>1. own[p] = c /\ found'[p] = found[p] /\ match'[p] = match[p] /\ sum'[p] = MergedItems(p)
      BY <1>1, <1>3, <1>6, <2>1, <2>3, RequestActs
    <3> QED
      BY <2>2, <3>1
  <2>4. CASE p = q
    <3>1. SumMerged(q)
      BY <1>6, <2>4, Moves
    <3>2. sum'[q] = SumOf(Merged(q), own[q]) /\ UNCHANGED <<own, found, match>>
      BY <1>0, <3>1 DEF SumMerged, Merged, ItemTypes
    <3>3. sum'[q] = MergedItems(q)
      BY <1>0, <1>6, <2>4, <3>2, MergedSum
    <3> QED
      BY <1>6, <2>2, <2>4, <3>2, <3>3
  <2> QED
    BY <2>3, <2>4
<1> QED
  BY <1>4, <1>5, <1>6

LEMMA GoneCounts ==
  ASSUME GoneInv', NEW c \in DOMAIN carts', carts'[c].holder = "deleted"
  PROVE  TotalsOK(c)'
<1>1. RowsOf(rows', c) = {} /\ carts'[c].items = 0 /\ carts'[c].amount = 0
  BY DEF GoneInv, CartTotals, NoSum
<1> QED
  BY <1>1, EmptySum DEF TotalsOK, CartTotals, NoSum

\* A request stores the sums it computed.
LEMMA CountsStored ==
  ASSUME TInv, CInv, GoneInv', NEW q \in Request, WriteTotals(q), NEW c \in DOMAIN carts, cart[q] = c,
         CartCounts(c)
  PROVE  CartCounts(c)'
<1>0. ItemTypes /\ c # 0 /\ RequestStep(q) /\ sum[q] \in SumType
  BY TypeFacts, NotZero DEF RequestStep, ItemStep, ItemTypes
<1>1. /\ pc[q] = "summed" /\ pc'[q] = "replying" /\ carts' = Totalled(c, sum[q])
      /\ UNCHANGED <<rows, cart, own>>
  BY StageOf DEF WriteTotals, work
<1>2. q \in Us(c) /\ q \in Us(c)'
  BY <1>1 DEF Us, Surely
<1>3. ASSUME Quiet(c)' PROVE TotalsOK(c)'
  <2>1. sum[q] = SumOf(rows, c)
    BY <1>0, <1>1, <1>2, <1>3, QuietBefore DEF CartCounts
  <2>2. c \in DOMAIN carts' /\ carts'[c].holder = carts[c].holder
    BY <1>0, <1>1, TotalledType
  <2>3. CASE ~Exists(c)
    BY <2>2, <2>3, GoneCounts DEF Exists
  <2>4. CASE Exists(c)
    <3>1. carts'[c].items = sum[q].items /\ carts'[c].amount = sum[q].amount
      BY <1>0, <1>1, <2>4, TotalledType
    <3> QED
      BY <1>1, <2>1, <3>1 DEF TotalsOK, CartTotals, SumOf
  <2> QED
    BY <2>3, <2>4
<1> QED
  BY <1>0, <1>1, <1>2, <1>3, CountsAlone

\* A merge stores the sums of the rows it leaves.
LEMMA CountsMerged ==
  ASSUME TInv, CInv, GoneInv', NEW q \in Request, CommitMerge(q), NEW c \in DOMAIN carts, own[q] = c,
         CartCounts(c)
  PROVE  CartCounts(c)'
<1>0. ItemTypes /\ c # 0 /\ RequestStep(q) /\ sum[q] \in SumType
  BY TypeFacts, NotZero DEF RequestStep, LoginStep, ItemTypes
<1>1. /\ pc[q] = "merging" /\ pc'[q] = "merged" /\ carts' = Totalled(c, sum[q])
      /\ rows' = Merged(q) /\ UNCHANGED <<cart, own>>
  BY StageOf DEF CommitMerge, work, Merged
<1>2. q \in Us(c) /\ q \in Us(c)'
  BY <1>1 DEF Us, Surely
<1>3. ASSUME Quiet(c)' PROVE TotalsOK(c)'
  <2>1. sum[q] = MergedItems(q)
    BY <1>0, <1>1, <1>2, <1>3, QuietBefore DEF CartCounts
  <2>2. SumOf(rows', c) = sum[q]
    BY <1>0, <1>1, <2>1, MergedSum
  <2>3. c \in DOMAIN carts' /\ carts'[c].holder = carts[c].holder
    BY <1>0, <1>1, TotalledType
  <2>4. CASE ~Exists(c)
    BY <2>3, <2>4, GoneCounts DEF Exists
  <2>5. CASE Exists(c)
    <3>1. carts'[c].items = sum[q].items /\ carts'[c].amount = sum[q].amount
      BY <1>0, <1>1, <2>5, TotalledType
    <3> QED
      BY <2>2, <3>1 DEF TotalsOK, CartTotals, SumOf
  <2> QED
    BY <2>4, <2>5
<1> QED
  BY <1>0, <1>1, <1>2, <1>3, CountsAlone

\* An order or a login empties a cart.
LEMMA CountsEmptied ==
  ASSUME TInv, CInv, GoneInv', NEW q \in Request, DeleteGuest(q) \/ PlaceOrder(q),
         NEW c \in DOMAIN carts, cart'[q] = c
  PROVE  CartCounts(c)'
<1>0. ItemTypes /\ RequestStep(q)
  BY TypeFacts DEF RequestStep, LoginStep
<1>1. pc'[q] \in {"replying", "done"}
  BY <1>0, Moves, StageOf DEF DeleteGuest, PlaceOrder
<1>2. q \in Us(c)'
  BY <1>1 DEF Us, Surely
<1>3. TotalsOK(c)'
  <2>1. CASE DeleteGuest(q)
    <3>1. cart[q] = c
      BY <2>1 DEF DeleteGuest, work
    <3>2. c \in DOMAIN carts' /\ carts'[c].holder = "deleted"
      BY <1>0, <2>1, <3>1, DeleteType DEF DeleteGuest, Exists
    <3> QED
      BY <3>2, GoneCounts DEF Exists
  <2>2. CASE PlaceOrder(q)
    <3>1. PICK d : /\ Exists(d) /\ rows' = Erased(RowsOf(rows, d)) /\ carts' = Totalled(d, NoSum)
                   /\ cart' = [cart EXCEPT ![q] = d]
      BY <2>2 DEF PlaceOrder
    <3>2. d = c /\ NoSum \in SumType
      BY <1>0, <3>1 DEF ItemTypes, NoSum, SumType
    <3>3. carts'[c].items = 0 /\ carts'[c].amount = 0
      BY <1>0, <3>1, <3>2, TotalledType DEF NoSum
    <3>4. SumOf(rows', c) = NoSum
      BY <1>0, <3>1, <3>2, ErasedRows, EmptySum
    <3> QED
      BY <3>3, <3>4 DEF TotalsOK, CartTotals, NoSum
  <2> QED
    BY <2>1, <2>2
<1> QED
  BY <1>0, <1>1, <1>2, <1>3, CountsAlone

\* A request that writes an item, or finds its cart gone.
LEMMA CountsWritten ==
  ASSUME TInv, TInv', CInv, NEW q \in Request, WriteLine(q) \/ InsertLine(q),
         NEW c \in DOMAIN carts, cart'[q] = c, CartCounts(c)
  PROVE  CartCounts(c)'
<1>0. RequestStep(q)
  BY DEF RequestStep, ItemStep
<1>1. CASE pc'[q] = "written"
  <2>1. q \in Us(c)'
    BY <1>1 DEF Us, Surely
  <2> QED
    BY <1>0, <1>1, <2>1, CountsAlone
<1>2. CASE pc'[q] # "written"
  <2>1. ~WriteLine(q) /\ ~WriteTotals(q)
    BY <1>2, StageOf DEF WriteLine, InsertLine, WriteTotals
  <2>2. UNCHANGED <<rows, carts>>
    BY <1>2, <2>1, StageOf DEF InsertLine
  <2> QED
    BY <1>0, <2>1, <2>2, CountsUntouched
<1> QED
  BY <1>1, <1>2

\* A cart that has just been made.
LEMMA CountsNew ==
  ASSUME TInv, NEW q \in Request, RequestStep(q), NEW c \in DOMAIN carts' \ DOMAIN carts
  PROVE  CartCounts(c)'
<1>1. RouteToNewCart(q) /\ c = Len(carts) + 1
  BY CartAdded
<1>2. UNCHANGED rows /\ carts'[c] = [holder |-> "guest", items |-> 0, amount |-> 0]
  BY <1>1, NewCart
<1>3. ItemTypes /\ c # 0
  BY <1>1, TypeFacts
<1>4. RowsOf(rows', c) = {}
  BY <1>2, <1>3 DEF RowsOf, ItemTypes
<1>5. TotalsOK(c)'
  BY <1>2, <1>4, EmptySum DEF TotalsOK, CartTotals, NoSum
<1>6. \A p \in Us(c)' : pc'[p] \notin {"summed", "merging"}
  <2> SUFFICES ASSUME NEW p \in Us(c)', pc'[p] \in {"summed", "merging"} PROVE FALSE
    OBVIOUS
  <2>1. CASE p # q
    BY <1>3, <2>1, RequestActs DEF Us, ItemTypes, NoCart
  <2>2. CASE p = q
    BY <1>1, <2>2, StageOf DEF RouteToNewCart
  <2> QED
    BY <2>1, <2>2
<1> QED
  BY <1>5, <1>6 DEF CartCounts

LEMMA CountsStep ==
  ASSUME TInv, TInv', CInv, MInv, NEW q \in Request, RequestStep(q)
  PROVE  MInv'
<1>1. GoneInv /\ GoneInv'
  BY GoneKept DEF MInv
<1>2. ASSUME NEW c \in DOMAIN carts' PROVE CartCounts(c)'
  <2>1. CASE c \notin DOMAIN carts
    BY <2>1, CountsNew
  <2>2. CASE c \in DOMAIN carts
    <3>1. CartCounts(c)
      BY <2>2 DEF MInv
    <3>2. CASE ~Writes(q, c)
      <4>1. /\ RowsOf(rows', c) = RowsOf(rows, c) /\ \A n \in RowsOf(rows, c) : rows'[n] = rows[n]
            /\ carts'[c].items = carts[c].items /\ carts'[c].amount = carts[c].amount
        BY <2>2, <3>2, RowsUntouched, CartUntouched
      <4>2. ~(WriteTotals(q) /\ cart[q] = c)
        BY <3>2 DEF Writes, WriteTotals, work
      <4> QED
        BY <2>2, <3>1, <4>1, <4>2, CountsUntouched
    <3>3. CASE Writes(q, c)
      <4>1. CASE (WriteLine(q) \/ InsertLine(q)) /\ cart'[q] = c
        BY <2>2, <3>1, <4>1, CountsWritten
      <4>2. CASE WriteTotals(q) /\ cart'[q] = c
        <5>1. cart[q] = c
          BY <4>2 DEF WriteTotals, work
        <5> QED
          BY <1>1, <2>2, <3>1, <4>2, <5>1, CountsStored
      <4>3. CASE (DeleteGuest(q) \/ PlaceOrder(q)) /\ cart'[q] = c
        BY <1>1, <2>2, <4>3, CountsEmptied
      <4>4. CASE CommitMerge(q) /\ own'[q] = c
        <5>1. own[q] = c
          BY <4>4 DEF CommitMerge, work
        <5> QED
          BY <1>1, <2>2, <3>1, <4>4, <5>1, CountsMerged
      <4> QED
        BY <3>3, <4>1, <4>2, <4>3, <4>4 DEF Writes
    <3> QED
      BY <3>2, <3>3
  <2> QED
    BY <2>1, <2>2
<1> QED
  BY <1>1, <1>2 DEF MInv

LEMMA CountsKept == TInv /\ TInv' /\ CInv /\ MInv /\ [Next]_vars => MInv'
<1> SUFFICES ASSUME TInv, TInv', CInv, MInv, [Next]_vars PROVE MInv'
  OBVIOUS
<1>1. ASSUME UNCHANGED <<start, tables, cookie, pc, op, work, met>> PROVE MInv'
  <2>1. UNCHANGED <<rows, carts, pc, cart, own, found, match, sum, met>>
    BY <1>1 DEF tables, work
  <2>2. GoneInv'
    BY <2>1 DEF MInv, GoneInv, CartTotals, Unmatched, MergeKey, Exists
  <2>3. ASSUME NEW c \in DOMAIN carts PROVE CartCounts(c)'
    <3>1. \A q : MergedItems(q)' = MergedItems(q)
      BY <2>1 DEF MergedItems, Raised, Hit, FromGuest, Unmatched, MergeKey
    <3>2. Us(c)' = Us(c) /\ Quiet(c)' = Quiet(c) /\ TotalsOK(c)' = TotalsOK(c)
      BY <2>1 DEF Us, Quiet, TotalsOK, CartTotals
    <3> QED
      BY <2>1, <3>1, <3>2 DEF MInv, CartCounts
  <2> QED
    BY <2>1, <2>2, <2>3 DEF MInv
<1> QED
  BY <1>1, OtherSteps, CountsStep

LEMMA StartCounts == Init => MInv
<1> SUFFICES ASSUME Init PROVE MInv
  OBVIOUS
<1>1. carts = start.carts /\ rows = start.rows /\ start \in Starts /\ pc = [q \in Request |-> "idle"]
  BY DEF Init
<1>2. \A c \in DOMAIN carts :
        /\ carts[c].holder # "deleted"
        /\ [items |-> carts[c].items, amount |-> carts[c].amount] = SumOf(rows, c)
  BY <1>1, StartsAgree
<1>3. GoneInv
  BY <1>1, <1>2 DEF GoneInv
<1>4. \A c : Us(c) = {}
  BY <1>1 DEF Us, Surely
<1> QED
  BY <1>2, <1>3, <1>4 DEF MInv, CartCounts, TotalsOK, CartTotals

\* The totals of a cart are those of its items once the requests that worked on it
\* are done, unless two of them overlapped or one died (recalculateCartTotalsInDb,
\* updateCartTotals): the totals are computed and stored in two statements.
THEOREM TotalsAgreement == Spec => []TotalsAgree
<1>1. MInv => TotalsAgree
  <2> SUFFICES ASSUME MInv, NEW c \in DOMAIN carts,
                      \A q, r \in {p \in Begun : c \in {cart[p], own[p]}} :
                        pc[q] = "done" /\ {q, r} \notin met
               PROVE  [items |-> carts[c].items, amount |-> carts[c].amount] = SumOf(rows, c)
    BY DEF TotalsAgree
  <2>1. Us(c) \subseteq {p \in Begun : c \in {cart[p], own[p]}}
    BY DEF Us, Begun, Surely
  <2>2. Quiet(c) /\ \A q \in Us(c) : pc[q] = "done"
    BY <2>1 DEF Quiet
  <2> QED
    BY <2>2 DEF MInv, CartCounts, TotalsOK, CartTotals
<1> QED
  BY <1>1, StartTyped, TypesKept, StartCarts, CartsKept, StartCounts, CountsKept, PTL DEF Spec

-----------------------------------------------------------------------------
\* Items, while requests come one after the other

\* What ItemsSurviveLogin and ItemsAddedOnce suppose, of the requests that are sure
\* to have begun.
InOrder ==
  /\ met = {}
  /\ \A q \in Request : pc[q] \in Surely => op[q].kind \in {"add", "login"} /\ ~Again(q)

ItemStages ==
  \A q \in Request :
    pc[q] \in {"routed", "read", "written", "summed"} => op[q].kind \in {"add", "set", "remove"}

\* What a request read is what there is.
LineRead(q) ==
  pc[q] = "read" /\ op[q].kind = "add" =>
    \A n \in DOMAIN found[q] : rows[n].quantity = found[q][n] /\ rows[n].key = op[q].key

GuestRead(q) ==
  /\ pc[q] \in {"guest read", "own read", "matched", "merging"} =>
       found[q] = [n \in RowsOf(rows, cart[q]) |-> rows[n].quantity]
  /\ pc[q] = "discarding" => RowsOf(rows, cart[q]) = {}

OwnMatched(q) ==
  pc[q] \in {"matched", "merging"} =>
    \A k \in DOMAIN match[q] : rows[match[q][k].row].quantity > 0

SInv ==
  InOrder => \A q \in Request : LineRead(q) /\ GuestRead(q) /\ OwnMatched(q)

LEMMA InOrderBefore ==
  ASSUME TInv, NEW q \in Request, RequestStep(q), InOrder'
  PROVE  InOrder
<1>1. met = {} /\ UNCHANGED op
  BY RequestActs DEF InOrder
<1>2. ASSUME NEW r \in Request, pc[r] \in Surely
      PROVE  op[r].kind \in {"add", "login"} /\ ~Again(r)
  <2>1. pc'[r] \in Surely
    <3>1. CASE r # q
      BY <1>2, <3>1, RequestActs
    <3>2. CASE r = q
      BY <1>2, <3>2, Moves DEF Surely, Ended
    <3> QED
      BY <3>1, <3>2
  <2>2. op[r].kind \in {"add", "login"} /\ ~Again(r)'
    BY <1>1, <2>1 DEF InOrder
  <2>3. Again(r) => Again(r)'
    BY <1>1, RequestActs DEF Again, Kind
  <2> QED
    BY <2>2, <2>3
<1> QED
  BY <1>1, <1>2 DEF InOrder

\* Whoever acts finds nobody else in flight.
LEMMA OneAtATime ==
  ASSUME TInv, CInv, NEW q \in Request, RequestStep(q), InOrder', NEW r \in Request, r # q
  PROVE  pc[r] \in Ended \cup {"idle"} /\ pc'[r] = pc[r]
<1>1. r \notin InFlight
  BY ActorMeets DEF InOrder
<1> QED
  BY <1>1, RequestActs DEF InFlight

LEMMA ItemStagesKept ==
  ASSUME TInv, ItemStages, NEW q \in Request, RequestStep(q)
  PROVE  ItemStages'
<1>1. UNCHANGED op /\ \A r \in Request : r # q => pc'[r] = pc[r]
  BY RequestActs
<1>2. pc'[q] \in {"routed", "read", "written", "summed"} => op[q].kind \in {"add", "set", "remove"}
  <2>1. CASE Route(q)
    BY <2>1 DEF Route, RouteToCart, RouteToNewCart, RouteNowhere
  <2>2. CASE ~Route(q)
    BY <2>2, Moves DEF ItemStages
  <2> QED
    BY <2>1, <2>2
<1> QED
  BY <1>1, <1>2 DEF ItemStages

LEMMA LineReadKept ==
  ASSUME TInv, NEW q \in Request, RequestStep(q)
  PROVE  LineRead(q)'
<1> SUFFICES ASSUME pc'[q] = "read"
             PROVE  \A n \in DOMAIN found'[q] : rows'[n].quantity = found'[q][n] /\ rows'[n].key = op'[q].key
  BY DEF LineRead
<1>1. ReadLine(q)
  BY Moves
<1>2. /\ found[q] = Idle /\ UNCHANGED <<rows, op, cart>>
      /\ found = [r \in Request |-> found[r]]
  BY <1>1, TypeFacts DEF ReadLine, StageOK, tables, ItemTypes
<1>3. CASE UNCHANGED found
  BY <1>2, <1>3 DEF Idle
<1>4. ASSUME NEW n \in Find(cart[q], op[q].key),
             found' = [found EXCEPT ![q] = [id \in {n} |-> rows[n].quantity]]
      PROVE  \A i \in DOMAIN found'[q] : rows'[i].quantity = found'[q][i] /\ rows'[i].key = op'[q].key
  <2>1. found'[q] = [id \in {n} |-> rows[n].quantity]
    BY <1>2, <1>4
  <2>2. rows[n].key = op[q].key
    BY DEF Find
  <2> QED
    BY <1>2, <2>1, <2>2
<1> QED
  BY <1>1, <1>3, <1>4 DEF ReadLine

LEMMA GuestReadKept ==
  ASSUME TInv, NEW q \in Request, RequestStep(q), GuestRead(q)
  PROVE  GuestRead(q)'
<1>0. ItemTypes
  BY TypeFacts
<1>1. CASE ReadGuest(q)
  <2>1. /\ cart'[q] = cookie[op[q].browser] /\ UNCHANGED rows
        /\ found'[q] = [n \in RowsOf(rows, cookie[op[q].browser]) |-> rows[n].quantity]
    BY <1>0, <1>1 DEF ReadGuest, tables, ItemTypes
  <2>2. pc'[q] # "discarding"
    BY <1>1, StageOf DEF ReadGuest
  <2> QED
    BY <2>1, <2>2 DEF GuestRead
<1>2. CASE ReadOwn(q)
  <2>1. pc[q] = "guest read" /\ UNCHANGED <<rows, cart, found>>
    BY <1>2 DEF ReadOwn, tables
  <2>2. found[q] = [n \in RowsOf(rows, cart[q]) |-> rows[n].quantity]
    BY <2>1 DEF GuestRead
  <2>3. pc'[q] = "discarding" => found[q] = Idle
    BY <1>2, StageOf DEF ReadOwn
  <2>4. found[q] = Idle => RowsOf(rows, cart[q]) = {}
    BY <2>2 DEF Idle
  <2> QED
    BY <2>1, <2>2, <2>3, <2>4 DEF GuestRead
<1>3. CASE MatchLines(q) \/ SumMerged(q)
  <2>1. pc[q] \in {"own read", "matched"} /\ UNCHANGED <<rows, cart, found>>
    BY <1>3 DEF MatchLines, SumMerged, tables
  <2>2. pc'[q] # "discarding"
    BY <1>3, StageOf DEF MatchLines, SumMerged
  <2> QED
    BY <2>1, <2>2 DEF GuestRead
<1>4. CASE ~ReadGuest(q) /\ ~ReadOwn(q) /\ ~MatchLines(q) /\ ~SumMerged(q)
  <2>1. pc'[q] \notin {"guest read", "own read", "matched", "merging", "discarding"}
    BY <1>4, Moves
  <2> QED
    BY <2>1 DEF GuestRead
<1> QED
  BY <1>1, <1>2, <1>3, <1>4

LEMMA OwnMatchedKept ==
  ASSUME TInv, NEW q \in Request, RequestStep(q), OwnMatched(q)
  PROVE  OwnMatched(q)'
<1>0. ItemTypes
  BY TypeFacts
<1>1. CASE MatchLines(q)
  <2> DEFINE mine == RowsOf(rows, own[q])
             common == {MergeKey(g) : g \in DOMAIN found[q]} \cap {MergeKey(n) : n \in mine}
  <2>1. UNCHANGED rows
    BY <1>1 DEF MatchLines, tables
  <2>2. PICK m \in [common -> mine], from \in [common -> DOMAIN found[q]] :
          match' = [match EXCEPT ![q] =
            [k \in common |-> [row |-> m[k], quantity |-> rows[m[k]].quantity, from |-> from[k]]]]
    BY <1>1 DEF MatchLines
  <2>3. match'[q] = [k \in common |-> [row |-> m[k], quantity |-> rows[m[k]].quantity, from |-> from[k]]]
    BY <1>0, <2>2 DEF ItemTypes
  <2>4. ASSUME NEW k \in DOMAIN match'[q] PROVE rows[match'[q][k].row].quantity > 0
    <3>1. k \in common /\ match'[q][k].row = m[k]
      BY <2>3
    <3>2. m[k] \in mine
      BY <2>2, <3>1
    <3> QED
      BY <3>1, <3>2 DEF RowsOf
  <2> QED
    BY <2>1, <2>4 DEF OwnMatched
<1>2. CASE SumMerged(q)
  <2>1. pc[q] = "matched" /\ UNCHANGED <<rows, match>>
    BY <1>2 DEF SumMerged, tables
  <2> QED
    BY <2>1 DEF OwnMatched
<1>3. CASE ~MatchLines(q) /\ ~SumMerged(q)
  <2>1. pc'[q] \notin {"matched", "merging"}
    BY <1>3, Moves
  <2> QED
    BY <2>1 DEF OwnMatched
<1> QED
  BY <1>1, <1>2, <1>3

LEMMA SInvStep ==
  ASSUME TInv, CInv, SInv, NEW q \in Request, RequestStep(q)
  PROVE  SInv'
<1> SUFFICES ASSUME InOrder', NEW r \in Request
             PROVE  LineRead(r)' /\ GuestRead(r)' /\ OwnMatched(r)'
  BY DEF SInv
<1>1. LineRead(q) /\ GuestRead(q) /\ OwnMatched(q)
  BY InOrderBefore DEF SInv
<1>2. CASE r = q
  BY <1>1, <1>2, LineReadKept, GuestReadKept, OwnMatchedKept
<1>3. CASE r # q
  <2>1. pc'[r] \in Ended \cup {"idle"}
    BY <1>3, OneAtATime
  <2> QED
    BY <2>1 DEF LineRead, GuestRead, OwnMatched, Ended
<1> QED
  BY <1>2, <1>3

-----------------------------------------------------------------------------
\* How many there are of what a merge takes for one product with its options

OfKey(rs, k) == {n \in DOMAIN rs : DedupKey[rs[n].key] = k}
GuestRows(q, k) == {n \in RowsOf(rows, cart[q]) : MergeKey(n) = k}

\* How many the guest cart of a login holds.
Guest(q, k) == SumOver(Quantities(rows), GuestRows(q, k))

LEMMA OfKeyIs ==
  ASSUME NEW rs \in Seq(Line), NEW k
  PROVE  /\ IsFiniteSet(OfKey(rs, k)) /\ Counts(Quantities(rs), OfKey(rs, k))
         /\ Quantity(rs, k) = SumOver(Quantities(rs), OfKey(rs, k)) /\ Quantity(rs, k) \in Nat
<1>1. OfKey(rs, k) \subseteq DOMAIN rs /\ IsFiniteSet(DOMAIN rs) /\ Counts(Quantities(rs), DOMAIN rs)
  BY RowsOfFinite DEF OfKey
<1>2. IsFiniteSet(OfKey(rs, k)) /\ Counts(Quantities(rs), OfKey(rs, k))
  BY <1>1, FS_Subset DEF Counts
<1>3. Quantity(rs, k) = SumOver(Quantities(rs), OfKey(rs, k))
  BY DEF Quantity, OfKey
<1> QED
  BY <1>2, <1>3, SumIsNat

LEMMA GuestIs ==
  ASSUME TInv, NEW q \in Request, NEW k
  PROVE  /\ IsFiniteSet(GuestRows(q, k)) /\ Counts(Quantities(rows), GuestRows(q, k))
         /\ GuestRows(q, k) \subseteq OfKey(rows, k) /\ Guest(q, k) \in Nat
<1>1. rows \in Seq(Line)
  BY TypeFacts
<1>2. GuestRows(q, k) \subseteq OfKey(rows, k)
  BY DEF GuestRows, OfKey, RowsOf, MergeKey
<1>3. IsFiniteSet(GuestRows(q, k)) /\ Counts(Quantities(rows), GuestRows(q, k))
  BY <1>1, <1>2, OfKeyIs, FS_Subset DEF Counts
<1> QED
  BY <1>2, <1>3, SumIsNat DEF Guest


LEMMA Raise == \A a, s, x, d \in Nat : s + x = a + (x + d) => s = a + d
OBVIOUS

\* One row gets more.
LEMMA RowRaised ==
  ASSUME TInv, NEW new \in Seq(Line), DOMAIN new = DOMAIN rows,
         \A m \in DOMAIN rows : new[m].key = rows[m].key,
         NEW n \in DOMAIN rows, NEW d \in Nat, new[n].quantity = rows[n].quantity + d,
         \A m \in DOMAIN rows : m # n => new[m].quantity = rows[m].quantity, NEW k
  PROVE  Quantity(new, k) = IF MergeKey(n) = k THEN Quantity(rows, k) + d ELSE Quantity(rows, k)
<1> DEFINE K == OfKey(rows, k)
           f == Quantities(rows)
           g == Quantities(new)
<1>1. rows \in Seq(Line) /\ rows \in [DOMAIN rows -> Line] /\ n \in DOMAIN rows
  BY RowsAre DEF TInv, ItemTypes
<1>2. OfKey(new, k) = K /\ K \subseteq DOMAIN rows
  BY DEF OfKey
<1>3. /\ IsFiniteSet(K) /\ Counts(f, K) /\ Counts(g, K)
      /\ Quantity(rows, k) = SumOver(f, K) /\ Quantity(new, k) = SumOver(g, K)
      /\ Quantity(rows, k) \in Nat /\ Quantity(new, k) \in Nat
  BY <1>1, <1>2, OfKeyIs
<1>4. \A m \in DOMAIN rows : f[m] = rows[m].quantity /\ g[m] = new[m].quantity
  BY DEF Quantities
<1>5. n \in K <=> MergeKey(n) = k
  BY DEF OfKey, MergeKey
<1> HIDE DEF K, f, g
<1>6. CASE MergeKey(n) # k
  <2>1. \A m \in K : f[m] = g[m]
    BY <1>2, <1>4, <1>5, <1>6
  <2>2. SumOver(f, K) = SumOver(g, K)
    BY <1>3, <2>1, SumDependsOnValues
  <2> QED
    BY <1>3, <1>6, <2>2
<1>7. CASE MergeKey(n) = k
  <2>1. n \in K /\ \A m \in K \ {n} : g[m] = f[m]
    BY <1>2, <1>4, <1>5, <1>7
  <2>2. SumOver(g, K) + f[n] = SumOver(f, K) + g[n]
    BY <1>3, <2>1, SumOfChanged
  <2>3. f[n] \in Nat /\ g[n] = f[n] + d
    BY <1>1, <1>4 DEF Line
  <2>4. Quantity(new, k) = Quantity(rows, k) + d
    BY <1>3, <2>2, <2>3, Raise
  <2> QED
    BY <1>7, <2>4
<1> QED
  BY <1>6, <1>7

\* One row is added.
LEMMA RowAppended ==
  ASSUME TInv, NEW r \in Line, r.cart \in DOMAIN carts, NEW k
  PROVE  Quantity(Append(rows, r), k)
           = IF DedupKey[r.key] = k THEN Quantity(rows, k) + r.quantity ELSE Quantity(rows, k)
<1> DEFINE new == Append(rows, r)
           L == Len(rows) + 1
           K == OfKey(rows, k)
           f == Quantities(rows)
           g == Quantities(new)
<1>1. rows \in Seq(Line) /\ ItemTypes
  BY DEF TInv, ItemTypes
<1>2. /\ Kept(new, carts) /\ DOMAIN new = DOMAIN rows \cup {L} /\ L \notin DOMAIN rows
      /\ \A n \in DOMAIN rows : new[n] = rows[n]
      /\ new[L] = r
  BY <1>1, AppendKept
<1>3. new \in Seq(Line)
  BY <1>2 DEF Kept
<1> HIDE DEF new, L
<1>4. OfKey(new, k) = IF DedupKey[r.key] = k THEN K \cup {L} ELSE K
  BY <1>2 DEF OfKey
<1>5. K \subseteq DOMAIN rows /\ L \notin K
  BY <1>2 DEF OfKey
<1>6. /\ IsFiniteSet(K) /\ Counts(f, K) /\ Quantity(rows, k) = SumOver(f, K)
      /\ Counts(g, OfKey(new, k)) /\ Quantity(new, k) = SumOver(g, OfKey(new, k))
  BY <1>1, <1>3, OfKeyIs
<1>7. (\A n \in K : f[n] = g[n]) /\ g[L] = r.quantity
  BY <1>2, <1>5 DEF Quantities
<1> HIDE DEF K, f, g
<1>8. SumOver(f, K) = SumOver(g, K)
  BY <1>6, <1>7, SumDependsOnValues
<1>9. CASE DedupKey[r.key] # k
  BY <1>4, <1>6, <1>8, <1>9 DEF new
<1>10. CASE DedupKey[r.key] = k
  <2>1. Counts(g, K \cup {L}) /\ OfKey(new, k) = K \cup {L}
    BY <1>4, <1>6, <1>10
  <2>2. SumOver(g, K \cup {L}) = SumOver(g, K) + g[L]
    BY <1>5, <1>6, <2>1, SumAddsOne
  <2> QED
    BY <1>6, <1>7, <1>8, <1>10, <2>1, <2>2 DEF new
<1> QED
  BY <1>9, <1>10

\* What a request adds is there.
LEMMA AddAdds ==
  ASSUME TInv, ItemStages, SInv, NEW q \in Request, WriteLine(q) \/ InsertLine(q), InOrder, InOrder',
         pc'[q] = "written", NEW k
  PROVE  /\ op[q].kind = "add"
         /\ Quantity(rows', k) = IF DedupKey[op[q].key] = k THEN Quantity(rows, k) + op[q].quantity
                                 ELSE Quantity(rows, k)
<1>0. /\ RequestStep(q) /\ ItemTypes /\ FoundOK(q) /\ op[q] \in Op /\ LineRead(q)
      /\ rows \in Seq(Line)
  BY TypeFacts DEF RequestStep, ItemStep, SInv
<1>1. op[q].kind = "add" /\ pc[q] = "read"
  <2>1. pc[q] = "read" /\ op[q].kind \in {"add", "set", "remove"}
    BY DEF WriteLine, InsertLine, ItemStages
  <2>2. UNCHANGED op /\ "written" \in Surely
    BY <1>0, RequestActs DEF Surely
  <2>3. op[q].kind \in {"add", "login"}
    BY <2>2 DEF InOrder
  <2> QED
    BY <2>1, <2>3
<1>2. op[q].quantity \in Nat
  BY <1>0 DEF Op
<1>3. CASE WriteLine(q)
  <2>1. PICK n \in DOMAIN found[q] : rows' = Filled(n, found[q][n] + op[q].quantity)
    BY <1>1, <1>3 DEF WriteLine
  <2> DEFINE x == found[q][n] + op[q].quantity
  <2>2. /\ n \in DOMAIN rows /\ found[q][n] \in Nat \ {0} /\ x \in Nat
        /\ rows[n].quantity = found[q][n] /\ rows[n].key = op[q].key
    BY <1>0, <1>1, <1>2 DEF FoundOK, LineRead
  <2> HIDE DEF x
  <2>3. /\ Kept(rows', carts) /\ DOMAIN rows' = DOMAIN rows
        /\ \A m \in DOMAIN rows : m # n => rows'[m] = rows[m]
        /\ rows'[n].quantity = x
    BY <1>0, <2>1, <2>2, FilledKept DEF x
  <2>4. /\ rows' \in Seq(Line) /\ \A m \in DOMAIN rows : rows'[m].key = rows[m].key
        /\ \A m \in DOMAIN rows : m # n => rows'[m].quantity = rows[m].quantity
        /\ rows'[n].quantity = rows[n].quantity + op[q].quantity
    BY <2>2, <2>3 DEF Kept, x
  <2>5. Quantity(rows', k) = IF MergeKey(n) = k THEN Quantity(rows, k) + op[q].quantity
                             ELSE Quantity(rows, k)
    BY <1>2, <2>2, <2>3, <2>4, RowRaised
  <2> QED
    BY <1>1, <2>2, <2>5 DEF MergeKey
<1>4. CASE InsertLine(q)
  <2> DEFINE r == [cart |-> cart[q], key |-> op[q].key,
                   quantity |-> op[q].quantity, total |-> op[q].quantity]
  <2>1. rows' = Append(rows, r) /\ Exists(cart[q])
    <3>1. ~Goto(q, "failed")
      BY StageOf
    <3> QED
      BY <1>1, <1>4, <3>1 DEF InsertLine
  <2>2. r \in Line /\ r.cart \in DOMAIN carts /\ r.key = op[q].key /\ r.quantity = op[q].quantity
    BY <1>0, <2>1, CartIdsKnown DEF Line, Op, ItemTypes, Exists
  <2> HIDE DEF r
  <2> QED
    BY <1>1, <2>1, <2>2, RowAppended
<1> QED
  BY <1>3, <1>4

\* What a merge adds to a row of the customer's is of what there is of the key, and
\* all of it but for twins.
LEMMA MatchedGuest ==
  ASSUME TInv, NEW q \in Request, pc[q] = "merging", GuestRead(q), NEW k \in DOMAIN match[q]
  PROVE  /\ FromGuest(q, k) \in Nat /\ FromGuest(q, k) <= Guest(q, k)
         /\ ~Twins(q, k) => FromGuest(q, k) = Guest(q, k)
<1> DEFINE x == match[q][k].from
           G == GuestRows(q, k)
           f == Quantities(rows)
<1>1. found[q] = [n \in RowsOf(rows, cart[q]) |-> rows[n].quantity]
  BY DEF GuestRead
<1>2. x \in DOMAIN found[q] /\ MergeKey(x) = k
  BY TypeFacts DEF MatchOK
<1>3. FromGuest(q, k) = found[q][x]
  BY DEF FromGuest
<1> HIDE DEF x
<1>4. x \in RowsOf(rows, cart[q]) /\ found[q][x] = rows[x].quantity
  BY <1>1, <1>2
<1>5. f[x] = rows[x].quantity /\ f[x] \in Nat
  <2>1. x \in DOMAIN rows /\ rows[x] \in Line
    BY <1>4, TypeFacts DEF RowsOf
  <2> QED
    BY <2>1 DEF Quantities, Line
<1>6. x \in G /\ IsFiniteSet(G) /\ Counts(f, G) /\ Guest(q, k) = SumOver(f, G)
  BY <1>2, <1>4, GuestIs DEF GuestRows, Guest
<1>7. ~Twins(q, k) => G = {x}
  <2> SUFFICES ASSUME ~Twins(q, k), NEW g \in G PROVE g = x
    BY <1>6
  <2>1. g \in DOMAIN found[q] /\ MergeKey(g) = k
    BY <1>1 DEF GuestRows
  <2> QED
    BY <1>2, <2>1 DEF Twins
<1> HIDE DEF G, f
<1>8. SumOver(f, {x}) = f[x]
  BY <1>5, SumOfOne
<1>9. SumOver(f, {x}) <= SumOver(f, G)
  <2>1. {x} \in SUBSET G
    BY <1>6
  <2> QED
    BY <1>6, <2>1, SumGrows
<1>10. FromGuest(q, k) = f[x]
  BY <1>3, <1>4, <1>5
<1> QED
  BY <1>5, <1>6, <1>7, <1>8, <1>9, <1>10

\* A merge adds what the guest cart holds, once, but for twins, of which it adds one.
LEMMA MergeAdds ==
  ASSUME TInv, NEW q \in Request, CommitMerge(q), GuestRead(q), OwnMatched(q), NEW k
  PROVE  /\ Quantity(rows', k) <= Quantity(rows, k) + Guest(q, k)
         /\ ~Twins(q, k) => Quantity(rows', k) = Quantity(rows, k) + Guest(q, k)
<1> DEFINE L == Len(rows)
           N == Cardinality(Unmatched(q))
           gs == SetToSeq(Unmatched(q))
           m == Merged(q)
           K == OfKey(rows, k)
           f == Quantities(rows)
           g == Quantities(m)
<1>0. /\ rows' = m /\ pc[q] = "merging" /\ own[q] # 0
      /\ rows \in Seq(Line) /\ rows \in [DOMAIN rows -> Line]
  BY TypeFacts DEF CommitMerge, Merged, StageOK
<1>1. N \in Nat /\ gs \in [1 .. N -> Unmatched(q)] /\ \A u \in Unmatched(q) : \E i \in 1 .. N : gs[i] = u
  BY UnmatchedIs, SetToSeqIs
<1>2. L \in Nat /\ DOMAIN rows = 1 .. L
  BY RowsAre, TypeFacts
<1>3. /\ m \in Seq(Line) /\ Len(m) = L + N
      /\ \A n \in DOMAIN rows : n \in DOMAIN m /\ m[n] = Raised(q)[n]
      /\ \A i \in 1 .. N : m[L + i] = Inserted(q)[i]
  BY <1>0, MergedIs DEF Kept
<1>4. \A i \in 1 .. N : gs[i] \in Unmatched(q) /\ Inserted(q)[i].key = rows[gs[i]].key
  BY <1>0, InsertedIs
<1>5. DOMAIN m = 1 .. L + N
  BY <1>3, LenProperties
<1>6. \A n \in DOMAIN rows : m[n].key = rows[n].key /\ (~Hit(q, n) => m[n] = rows[n])
  BY <1>3, RaisedIs
<1>7. found[q] = [n \in RowsOf(rows, cart[q]) |-> rows[n].quantity]
  BY <1>0 DEF GuestRead
<1>8. /\ IsFiniteSet(K) /\ Counts(f, K) /\ Quantity(rows, k) = SumOver(f, K)
      /\ Counts(g, OfKey(m, k)) /\ Quantity(m, k) = SumOver(g, OfKey(m, k))
      /\ K \subseteq DOMAIN rows
  BY <1>0, <1>3, OfKeyIs DEF OfKey
<1>9. /\ \A n \in DOMAIN rows : f[n] = rows[n].quantity
      /\ \A n \in DOMAIN m : g[n] = m[n].quantity
  BY DEF Quantities
<1>10. IsFiniteSet(GuestRows(q, k)) /\ Guest(q, k) \in Nat /\ Guest(q, k) = SumOver(f, GuestRows(q, k))
  BY GuestIs DEF Guest
<1>11. \A i \in 1 .. N : L + i \in DOMAIN m /\ m[L + i].key = rows[gs[i]].key
  <2>1. \A i \in 1 .. N : L + i \in DOMAIN m
    BY <1>1, <1>2, <1>5
  <2>2. \A i \in 1 .. N : m[L + i].key = rows[gs[i]].key
    BY <1>3, <1>4
  <2> QED
    BY <2>1, <2>2
<1>12. \A n \in DOMAIN m : n \in DOMAIN rows \/ (n - L \in 1 .. N /\ n = L + (n - L))
  BY <1>1, <1>2, <1>5
<1>13. \A i \in 1 .. N : L + i \notin DOMAIN rows
  BY <1>1, <1>2
<1>14. \A x : x \in OfKey(m, k) <=> x \in DOMAIN m /\ DedupKey[m[x].key] = k
  BY DEF OfKey
<1>15. \A x : x \in K <=> x \in DOMAIN rows /\ MergeKey(x) = k
  BY DEF OfKey, MergeKey
<1>16. \A x \in DOMAIN rows : x \in OfKey(m, k) <=> x \in K
  BY <1>3, <1>6, <1>14, <1>15 DEF MergeKey
<1>17. \A i \in 1 .. N : L + i \in OfKey(m, k) <=> MergeKey(gs[i]) = k
  BY <1>11, <1>14 DEF MergeKey
<1> HIDE DEF L, N, gs, m, K, f, g
<1>20. CASE k \in DOMAIN match[q]
  <2> DEFINE n == match[q][k].row
             d == FromGuest(q, k)
  <2>1. n \in DOMAIN rows /\ MergeKey(n) = k /\ rows[n].quantity > 0
    BY <1>0, <1>20, TypeFacts DEF OwnMatched, MatchOK
  <2>2. \A x \in DOMAIN rows : MergeKey(x) = k => (Hit(q, x) <=> x = n)
    BY <1>20, <2>1 DEF Hit
  <2>3. OfKey(m, k) = K
    <3>1. \A i \in 1 .. N : MergeKey(gs[i]) # k
      BY <1>4, <1>20 DEF Unmatched
    <3>2. \A x \in OfKey(m, k) : x \in DOMAIN rows
      BY <1>12, <1>14, <1>17, <3>1
    <3> QED
      BY <1>8, <1>16, <3>2
  <2>4. m[n].quantity = rows[n].quantity + d
    BY <1>3, <2>1, <2>2, RaisedIs
  <2>5. n \in K /\ \A x \in K \ {n} : g[x] = f[x]
    <3>1. \A x \in K \ {n} : m[x] = rows[x]
      BY <1>6, <1>15, <2>2
    <3> QED
      BY <1>3, <1>8, <1>9, <1>15, <2>1, <3>1
  <2>6. g[n] = f[n] + d /\ f[n] \in Nat
    <3>1. f[n] = rows[n].quantity /\ g[n] = m[n].quantity
      BY <1>3, <1>9, <2>1
    <3>2. rows[n].quantity \in Nat
      BY <1>0, <2>1 DEF Line
    <3> QED
      BY <2>4, <3>1, <3>2
  <2>7. d \in Nat /\ d <= Guest(q, k) /\ (~Twins(q, k) => d = Guest(q, k))
    BY <1>0, <1>20, MatchedGuest
  <2> HIDE DEF n, d
  <2>8. Counts(g, K)
    BY <1>8, <2>3
  <2>9. SumOver(g, K) + f[n] = SumOver(f, K) + g[n]
    BY <1>8, <2>5, <2>8, SumOfChanged
  <2>10. SumOver(g, K) \in Nat /\ SumOver(f, K) \in Nat
    BY <1>8, <2>8, SumIsNat
  <2>11. SumOver(g, K) = SumOver(f, K) + d
    BY <2>6, <2>7, <2>9, <2>10, Raise
  <2>12. Quantity(rows', k) = Quantity(rows, k) + d /\ Quantity(rows, k) \in Nat
    BY <1>0, <1>8, <2>3, <2>10, <2>11
  <2> QED
    BY <1>10, <2>7, <2>12
<1>30. CASE k \notin DOMAIN match[q]
  <2> DEFINE I == {i \in 1 .. N : MergeKey(gs[i]) = k}
             P == Places(I)
  <2>1. I \in SUBSET (1 .. N)
    OBVIOUS
  <2>2. /\ IsFiniteSet(P) /\ P \subseteq DOMAIN m /\ P \cap DOMAIN rows = {}
        /\ SumOver(g, P) = SumOver(found[q], Originals(q, I))
    BY <1>0, <2>1, InsertedSum DEF N, m, g
  <2>3. Originals(q, I) = GuestRows(q, k)
    <3>1. \A u : u \in Originals(q, I) <=> u \in Unmatched(q) /\ MergeKey(u) = k
      BY <1>1 DEF Originals, gs
    <3>2. \A u : u \in GuestRows(q, k) <=> u \in RowsOf(rows, cart[q]) /\ MergeKey(u) = k
      BY DEF GuestRows
    <3>3. \A u : MergeKey(u) = k => (u \in Unmatched(q) <=> u \in RowsOf(rows, cart[q]))
      BY <1>7, <1>30 DEF Unmatched
    <3> QED
      BY <3>1, <3>2, <3>3
  <2>4. SumOver(found[q], GuestRows(q, k)) = Guest(q, k)
    <3>1. \A u \in GuestRows(q, k) : found[q][u] = f[u]
      BY <1>7, <1>9 DEF GuestRows, RowsOf
    <3>2. SumOver(found[q], GuestRows(q, k)) = SumOver(f, GuestRows(q, k))
      BY <1>10, <3>1, SumDependsOnValues
    <3> QED
      BY <1>10, <3>2
  <2>5. OfKey(m, k) = K \cup P
    <3>1. \A x : x \in P <=> \E i \in 1 .. N : MergeKey(gs[i]) = k /\ x = L + i
      BY DEF Places, L
    <3>2. \A x \in P : x \in OfKey(m, k)
      BY <1>17, <3>1
    <3>3. \A x \in OfKey(m, k) : x \in DOMAIN rows \/ x \in P
      BY <1>12, <1>14, <1>17, <3>1
    <3> HIDE DEF P
    <3> QED
      BY <1>8, <1>16, <3>2, <3>3
  <2>6. \A x \in K : g[x] = f[x]
    <3>1. \A x \in K : ~Hit(q, x)
      BY <1>15, <1>30 DEF Hit
    <3> QED
      BY <1>3, <1>6, <1>8, <1>9, <3>1
  <2>7. Counts(g, K) /\ Counts(g, P) /\ K \cap P = {}
    BY <1>8, <2>2, <2>5 DEF Counts
  <2> HIDE DEF P, I
  <2>8. SumOver(g, K \cup P) = SumOver(g, K) + SumOver(g, P)
    BY <1>8, <2>2, <2>7, SumOfUnion
  <2>9. SumOver(g, K) = SumOver(f, K)
    BY <1>8, <2>6, SumDependsOnValues
  <2>10. Quantity(rows', k) = Quantity(rows, k) + Guest(q, k) /\ Quantity(rows, k) \in Nat
    BY <1>0, <1>8, <2>2, <2>3, <2>4, <2>5, <2>8, <2>9, OfKeyIs
  <2> QED
    BY <1>10, <2>10
<1> QED
  BY <1>20, <1>30

\* Deleting the guest cart takes off what it holds.
LEMMA DeleteTakesOff ==
  ASSUME TInv, NEW q \in Request, DeleteGuest(q), NEW k
  PROVE  Quantity(rows', k) + Guest(q, k) = Quantity(rows, k)
<1> DEFINE c == cart[q]
           K == OfKey(rows, k)
           G == GuestRows(q, k)
           f == Quantities(rows)
           g == Quantities(rows')
<1>0. rows' = Erased(RowsOf(rows, c)) /\ rows \in Seq(Line) /\ ItemTypes /\ rows \in [DOMAIN rows -> Line]
  BY TypeFacts DEF DeleteGuest
<1>1. /\ rows' \in Seq(Line) /\ DOMAIN rows' = DOMAIN rows
      /\ \A n \in DOMAIN rows : rows'[n].key = rows[n].key
      /\ \A n \in DOMAIN rows : n \notin RowsOf(rows, c) => rows'[n] = rows[n]
      /\ \A n \in DOMAIN rows : n \in RowsOf(rows, c) => rows'[n].quantity = 0
  BY <1>0, ErasedKept DEF Kept
<1>2. OfKey(rows', k) = K /\ K \subseteq DOMAIN rows
  BY <1>1 DEF OfKey
<1>3. /\ IsFiniteSet(K) /\ Counts(f, K) /\ Counts(g, K)
      /\ Quantity(rows, k) = SumOver(f, K) /\ Quantity(rows', k) = SumOver(g, K)
  <2>1. IsFiniteSet(K) /\ Counts(f, K) /\ Quantity(rows, k) = SumOver(f, K)
    BY <1>0, OfKeyIs
  <2>2. Counts(g, OfKey(rows', k)) /\ Quantity(rows', k) = SumOver(g, OfKey(rows', k))
    BY <1>1, OfKeyIs
  <2> QED
    BY <1>2, <2>1, <2>2
<1>4. G \subseteq K /\ IsFiniteSet(G) /\ Counts(f, G) /\ Guest(q, k) = SumOver(f, G)
  BY GuestIs DEF Guest
<1>5. \A n \in K : n \in G <=> n \in RowsOf(rows, c)
  BY DEF OfKey, GuestRows, MergeKey
<1>6. \A n \in DOMAIN rows : f[n] = rows[n].quantity /\ g[n] = rows'[n].quantity
  BY <1>1 DEF Quantities
<1> DEFINE T == K \ G
<1> HIDE DEF K, G, f, g, c
<1>7. (\A n \in K \ T : g[n] = 0) /\ (\A n \in T : g[n] = f[n])
  BY <1>1, <1>2, <1>5, <1>6
<1>8. T \in SUBSET K /\ IsFiniteSet(T) /\ T \cap G = {} /\ T \cup G = K /\ Counts(f, T)
  <2>1. T \in SUBSET K /\ T \cap G = {} /\ T \cup G = K
    BY <1>4
  <2> QED
    BY <1>3, <2>1, FS_Subset DEF Counts
<1> HIDE DEF T
<1>9. SumOver(g, K) = SumOver(g, T)
  BY <1>3, <1>7, <1>8, SumIgnoresZeros
<1>10. SumOver(g, T) = SumOver(f, T)
  BY <1>7, <1>8, SumDependsOnValues
<1>11. SumOver(f, T \cup G) = SumOver(f, T) + SumOver(f, G)
  BY <1>4, <1>8, SumOfUnion
<1> QED
  BY <1>3, <1>4, <1>8, <1>9, <1>10, <1>11

-----------------------------------------------------------------------------
\* What was asked for, and what is there

\* The requests whose items are in a cart, and those of which they may be.
Wrote == {q \in Kind("add") : pc[q] \in {"written", "summed", "replying", "done"}}
SureAdds == {q \in Kind("add") : pc[q] \in Surely}

NoTwins(k) == \A q \in Kind("login") : ~Twins(q, k)

\* Nothing is lost: until its guest cart is deleted, a merge even has twice what is in it.
Lower(k) ==
  InOrder /\ NoTwins(k) =>
    /\ Quantity(rows, k) >= Quantity(start.rows, k) + Asked(k, Wrote)
    /\ \A q \in Request : pc[q] = "merged" =>
         Quantity(rows, k) >= Quantity(start.rows, k) + Asked(k, Wrote) + Guest(q, k)

\* Nothing is there twice, but for what such a merge has.
Upper(k) ==
  InOrder /\ (\A q \in Kind("login") : pc[q] # "cut") =>
    \/ Quantity(rows, k) <= Quantity(start.rows, k) + Asked(k, SureAdds)
    \/ \E q \in Request :
         /\ pc[q] = "merged"
         /\ Quantity(rows, k) <= Quantity(start.rows, k) + Asked(k, SureAdds) + Guest(q, k)

QInv == ItemStages /\ SInv /\ \A k \in Key : Lower(k) /\ Upper(k)

LEMMA AskedIs ==
  ASSUME TInv, NEW k, NEW S \in SUBSET Request
  PROVE  /\ Asked(k, S) \in Nat
         /\ \A T \in SUBSET S : Asked(k, T) <= Asked(k, S)
         /\ \A q \in Request \ S :
              Asked(k, S \cup {q}) = IF DedupKey[op[q].key] = k THEN Asked(k, S) + op[q].quantity ELSE Asked(k, S)
<1> DEFINE f == [q \in Request |-> op[q].quantity]
           Of(U) == {q \in U : DedupKey[op[q].key] = k}
<1>1. \A q \in Request : f[q] \in Nat /\ f[q] = op[q].quantity
  BY TypeFacts DEF Op
<1>2. \A U \in SUBSET Request : IsFiniteSet(Of(U)) /\ Counts(f, Of(U)) /\ Asked(k, U) = SumOver(f, Of(U))
  <2> SUFFICES ASSUME NEW U \in SUBSET Request
               PROVE  IsFiniteSet(Of(U)) /\ Counts(f, Of(U)) /\ Asked(k, U) = SumOver(f, Of(U))
    OBVIOUS
  <2>1. IsFiniteSet(Request) /\ Of(U) \in SUBSET Request
    BY CartsAssumption
  <2> QED
    BY <1>1, <2>1, FS_Subset DEF Counts, Asked
<1>3. \A T \in SUBSET S : Of(T) \in SUBSET Of(S)
  OBVIOUS
<1>4. ASSUME NEW q \in Request \ S
      PROVE  /\ q \notin Of(S)
             /\ Of(S \cup {q}) = IF DedupKey[op[q].key] = k THEN Of(S) \cup {q} ELSE Of(S)
  OBVIOUS
<1> HIDE DEF f, Of
<1>5. Asked(k, S) \in Nat
  BY <1>2, SumIsNat
<1>6. ASSUME NEW T \in SUBSET S PROVE Asked(k, T) <= Asked(k, S)
  <2>1. SumOver(f, Of(T)) <= SumOver(f, Of(S))
    BY <1>2, <1>3, SumGrows
  <2> QED
    BY <1>2, <2>1
<1>7. ASSUME NEW q \in Request \ S
      PROVE  Asked(k, S \cup {q}) = IF DedupKey[op[q].key] = k THEN Asked(k, S) + op[q].quantity ELSE Asked(k, S)
  <2>1. Asked(k, S \cup {q}) = SumOver(f, Of(S \cup {q})) /\ Asked(k, S) = SumOver(f, Of(S))
    BY <1>2
  <2>2. CASE DedupKey[op[q].key] # k
    BY <1>4, <2>1, <2>2
  <2>3. CASE DedupKey[op[q].key] = k
    <3>1. Of(S \cup {q}) = Of(S) \cup {q} /\ q \notin Of(S)
      BY <1>4, <2>3
    <3>2. IsFiniteSet(Of(S)) /\ Counts(f, Of(S) \cup {q})
      BY <1>2, <3>1
    <3>3. SumOver(f, Of(S) \cup {q}) = SumOver(f, Of(S)) + f[q]
      BY <3>1, <3>2, SumAddsOne
    <3> QED
      BY <1>1, <2>1, <2>3, <3>1, <3>3
  <2> QED
    BY <2>2, <2>3
<1> QED
  BY <1>5, <1>6, <1>7

\* Which adds have written, after a step.
LEMMA AddsGoOn ==
  ASSUME TInv, CInv, NEW q \in Request, RequestStep(q), InOrder'
  PROVE  /\ Wrote \subseteq Request /\ SureAdds \subseteq Request
         /\ \/ WriteLine(q) \/ InsertLine(q)
            \/ Wrote' \subseteq Wrote /\ SureAdds \subseteq SureAdds'
         /\ (WriteLine(q) \/ InsertLine(q)) /\ pc'[q] = "written" /\ op[q].kind = "add" =>
              /\ Wrote' = Wrote \cup {q} /\ q \notin Wrote
              /\ SureAdds' = SureAdds \cup {q} /\ q \notin SureAdds
         /\ pc'[q] = "failed" => Wrote' = Wrote /\ SureAdds' = SureAdds
<1>1. UNCHANGED op /\ \A r \in Request : r # q => pc'[r] = pc[r]
  BY RequestActs
<1> DEFINE Stored == {"written", "summed", "replying", "done"}
<1>2. \A r \in Request : /\ r \in Wrote <=> op[r].kind = "add" /\ pc[r] \in Stored
                         /\ r \in Wrote' <=> op[r].kind = "add" /\ pc'[r] \in Stored
                         /\ r \in SureAdds <=> op[r].kind = "add" /\ pc[r] \in Surely
                         /\ r \in SureAdds' <=> op[r].kind = "add" /\ pc'[r] \in Surely
  BY <1>1 DEF Wrote, SureAdds, Kind
<1>3. /\ Wrote \subseteq Request /\ SureAdds \subseteq Request
      /\ Wrote' \subseteq Request /\ SureAdds' \subseteq Request
  BY DEF Wrote, SureAdds, Kind
<1>4. op[q].kind = "add" /\ ~WriteLine(q) /\ ~InsertLine(q) =>
        (q \in Wrote' => q \in Wrote) /\ (q \in SureAdds => q \in SureAdds')
  <2>1. op[q].kind = "add" =>
          pc[q] \notin {"guest read", "assigning", "own read", "matched", "merging", "merged",
                       "discarding"}
    BY DEF CInv, LoginStages
  <2>2. op[q].kind = "add" => ~ReadGuest(q) /\ ~PlaceOrder(q)
    BY DEF ReadGuest, PlaceOrder
  <2> QED
    BY <1>2, <2>1, <2>2, Moves DEF Surely, Ended
<1>5. WriteLine(q) \/ InsertLine(q) => q \notin Wrote /\ q \notin SureAdds
  BY <1>2 DEF WriteLine, InsertLine, Surely
<1>6. pc'[q] = "failed" => (q \in Wrote' <=> q \in Wrote) /\ (q \in SureAdds <=> q \in SureAdds')
  BY <1>2, Moves DEF Surely, Ended
<1>7. \A r \in Request : r # q => (r \in Wrote' <=> r \in Wrote) /\ (r \in SureAdds <=> r \in SureAdds')
  BY <1>1, <1>2
<1>8. pc'[q] = "written" /\ op[q].kind = "add" => q \in Wrote' /\ q \in SureAdds'
  BY <1>2 DEF Surely
<1>9. op[q].kind # "add" => q \notin Wrote' /\ q \notin SureAdds
  BY <1>2
<1> QED
  BY <1>3, <1>4, <1>5, <1>6, <1>7, <1>8, <1>9

\* What a login found and matched stays.
LEMMA TwinsStay ==
  ASSUME TInv, NEW q \in Request, RequestStep(q), NEW k, NoTwins(k)'
  PROVE  NoTwins(k)
<1> SUFFICES ASSUME NEW r \in Request, op[r].kind = "login", Twins(r, k) PROVE FALSE
  BY DEF NoTwins, Kind
<1>1. /\ op' = op /\ k \in DOMAIN match[r] /\ FoundOK(r)
      /\ pc[r] \notin {"idle", "routed", "guest read", "own read"}
  BY RequestActs, TypeFacts DEF Twins, StageOK, Idle
<1>2. match'[r] = match[r] /\ found'[r] = found[r]
  <2>1. CASE r # q
    BY <2>1, RequestActs
  <2>2. CASE r = q
    BY <1>1, <2>2 DEF RequestStep, Route, RouteToCart, RouteToNewCart, RouteNowhere, Begin, ItemStep,
      ReadLine, WriteLine, InsertLine, SumLines, WriteTotals, ReadGuest, LoginStep, ReadOwn,
      AssignCart, MatchLines, SumMerged, CommitMerge, DeleteGuest, Reply, PlaceOrder, Cut, work
  <2> QED
    BY <2>1, <2>2
<1>3. \A g \in DOMAIN found[r] : MergeKey(g)' = MergeKey(g)
  <2>1. \A g \in DOMAIN found[r] : g \in DOMAIN rows /\ rows'[g].key = rows[g].key
    BY <1>1, RowsStay DEF FoundOK, Kept
  <2> QED
    BY <2>1 DEF MergeKey
<1>4. Twins(r, k)'
  BY <1>1, <1>2, <1>3 DEF Twins
<1> QED
  BY <1>1, <1>4 DEF NoTwins, Kind

\* A request that adds, a merge or its end changes how many there are; nothing else does.
LEMMA QuantitySteps ==
  ASSUME TInv, TInv', CInv, ItemStages, SInv, NEW q \in Request, RequestStep(q), InOrder', NEW k
  PROVE  \/ /\ pc'[q] = "written" /\ op[q].kind = "add" /\ (WriteLine(q) \/ InsertLine(q))
            /\ Quantity(rows', k) = IF DedupKey[op[q].key] = k THEN Quantity(rows, k) + op[q].quantity
                                    ELSE Quantity(rows, k)
         \/ /\ CommitMerge(q) /\ pc[q] = "merging" /\ pc'[q] = "merged"
            /\ Quantity(rows', k) <= Quantity(rows, k) + Guest(q, k) /\ Guest(q, k)' = Guest(q, k)
            /\ ~Twins(q, k) => Quantity(rows', k) = Quantity(rows, k) + Guest(q, k)
         \/ /\ DeleteGuest(q) /\ pc[q] = "merged" /\ pc'[q] # "merged"
            /\ Quantity(rows', k) + Guest(q, k) = Quantity(rows, k)
         \/ /\ Quantity(rows', k) = Quantity(rows, k)
            /\ pc'[q] # "merged" /\ (pc[q] = "merged" => pc'[q] = "cut")
            /\ (WriteLine(q) \/ InsertLine(q)) => pc'[q] = "failed"
<1>1. /\ InOrder /\ GuestRead(q) /\ OwnMatched(q)
      /\ rows \in Seq(Line) /\ UNCHANGED op
  BY InOrderBefore, RequestActs, TypeFacts DEF SInv
<1>2. CASE UNCHANGED rows /\ ~WriteLine(q) /\ ~InsertLine(q) /\ ~CommitMerge(q) /\ ~DeleteGuest(q)
  <2>1. pc'[q] # "merged" /\ (pc[q] = "merged" => pc'[q] = "cut")
    BY <1>2, Moves
  <2> QED
    BY <1>2, <2>1
<1>3. CASE WriteLine(q) \/ InsertLine(q)
  <2>1. pc[q] = "read" /\ pc'[q] \in {"written", "failed"}
    BY <1>3, StageOf DEF WriteLine, InsertLine
  <2>2. CASE pc'[q] = "written"
    BY <1>1, <1>3, <2>2, AddAdds
  <2>3. CASE pc'[q] = "failed"
    <3>1. ~Goto(q, "written")
      BY <2>3, StageOf
    <3>2. UNCHANGED rows
      BY <1>3, <3>1 DEF WriteLine, InsertLine
    <3> QED
      BY <1>3, <2>1, <2>3, <3>2
  <2> QED
    BY <2>1, <2>2, <2>3
<1>4. CASE CommitMerge(q)
  <2>1. pc[q] = "merging" /\ pc'[q] = "merged" /\ UNCHANGED <<cart, own>>
    BY <1>4, StageOf DEF CommitMerge, work
  <2>2. /\ Quantity(rows', k) <= Quantity(rows, k) + Guest(q, k)
        /\ ~Twins(q, k) => Quantity(rows', k) = Quantity(rows, k) + Guest(q, k)
    BY <1>1, <1>4, MergeAdds
  <2>3. cart[q] # own[q]
    <3>1. op[q].kind = "login" /\ own[q] # 0
      BY <2>1, TypeFacts DEF CInv, LoginStages, StageOK
    <3>2. ~Again(q)
      BY <1>1, <2>1 DEF InOrder, Surely
    <3> QED
      BY <3>1, <3>2 DEF Again, Kind
  <2>4. ~Writes(q, cart[q])
    BY <2>1, <2>3 DEF Writes, WriteLine, InsertLine, WriteTotals, DeleteGuest, PlaceOrder, Begin
  <2>5. /\ RowsOf(rows', cart[q]) = RowsOf(rows, cart[q])
        /\ \A n \in RowsOf(rows, cart[q]) : rows'[n] = rows[n]
    BY <2>4, RowsUntouched
  <2>6. GuestRows(q, k)' = GuestRows(q, k)
    BY <2>1, <2>5 DEF GuestRows, MergeKey
  <2>7. \A n \in GuestRows(q, k) : Quantities(rows')[n] = Quantities(rows)[n]
    <3>1. \A n \in GuestRows(q, k) : n \in DOMAIN rows /\ n \in DOMAIN rows' /\ rows'[n] = rows[n]
      BY <2>5 DEF GuestRows, RowsOf
    <3> QED
      BY <3>1 DEF Quantities
  <2>8. SumOver(Quantities(rows'), GuestRows(q, k)) = SumOver(Quantities(rows), GuestRows(q, k))
    BY <2>7, GuestIs, SumDependsOnValues
  <2>9. Guest(q, k)' = Guest(q, k)
    BY <2>6, <2>8 DEF Guest
  <2> QED
    BY <1>4, <2>1, <2>2, <2>9
<1>5. CASE DeleteGuest(q)
  <2>1. Quantity(rows', k) + Guest(q, k) = Quantity(rows, k) /\ pc[q] \in {"merged", "discarding"}
    BY <1>5, DeleteTakesOff DEF DeleteGuest
  <2>2. pc'[q] # "merged" /\ ~WriteLine(q) /\ ~InsertLine(q)
    BY <1>5, StageOf DEF DeleteGuest, WriteLine, InsertLine
  <2>3. pc[q] = "discarding" => Quantity(rows', k) = Quantity(rows, k)
    <3> SUFFICES ASSUME pc[q] = "discarding" PROVE Quantity(rows', k) = Quantity(rows, k)
      OBVIOUS
    <3>1. GuestRows(q, k) = {}
      BY <1>1 DEF GuestRead, GuestRows
    <3>2. Guest(q, k) = 0
      BY <3>1, SumOfEmpty DEF Guest
    <3>3. rows' \in Seq(Line)
      BY RowsStay DEF Kept
    <3> QED
      BY <2>1, <3>2, <3>3, OfKeyIs
  <2> QED
    BY <1>5, <2>1, <2>2, <2>3
<1>6. CASE PlaceOrder(q)
  <2>1. op[q].kind = "order" /\ pc'[q] = "done"
    BY <1>6, StageOf DEF PlaceOrder
  <2> QED
    BY <1>1, <2>1 DEF InOrder, Surely
<1> QED
  BY <1>2, <1>3, <1>4, <1>5, <1>6, RowWriters

LEMMA RaiseLow ==
  \A n, n1, b, a, a1, x \in Nat : n >= b + a /\ n1 = n + x /\ a1 = a + x => n1 >= b + a1
OBVIOUS

LEMMA RaiseHigh ==
  \A n, n1, b, a, a1, x \in Nat : n <= b + a /\ n1 = n + x /\ a1 = a + x => n1 <= b + a1
OBVIOUS

LEMMA MoreLow ==
  \A n, n1, b, a, a1, g \in Nat :
    n >= b + a /\ n1 = n + g /\ a1 <= a => n1 >= b + a1 /\ n1 >= b + a1 + g
OBVIOUS

LEMMA MoreHigh ==
  \A n, n1, b, a, a1, g \in Nat : n <= b + a /\ n1 <= n + g /\ a <= a1 => n1 <= b + a1 + g
OBVIOUS

LEMMA LessLow ==
  \A n, n1, b, a, a1, g \in Nat : n >= b + a + g /\ n1 + g = n /\ a1 <= a => n1 >= b + a1
OBVIOUS

LEMMA LessHigh ==
  \A n, n1, b, a, a1, g \in Nat : 
    (n <= b + a \/ n <= b + a + g) /\ n1 + g = n /\ a <= a1 => n1 <= b + a1
OBVIOUS

LEMMA StartCounted ==
  ASSUME TInv, NEW k
  PROVE  Quantity(start.rows, k) \in Nat
<1>1. start \in Start
  BY CartsAssumption DEF TInv, ItemTypes
<1> QED
  BY <1>1, OfKeyIs DEF Start

LEMMA QInvStep ==
  ASSUME TInv, TInv', CInv, QInv, NEW q \in Request, RequestStep(q)
  PROVE  QInv'
<1>1. ItemStages' /\ SInv'
  BY ItemStagesKept, SInvStep DEF QInv
<1>2. ASSUME NEW k \in Key, InOrder'
      PROVE  Lower(k)' /\ Upper(k)'
  <2> DEFINE n == Quantity(rows, k)
             n1 == Quantity(rows', k)
             b == Quantity(start.rows, k)
             w == Asked(k, Wrote)
             w1 == Asked(k, Wrote')
             s == Asked(k, SureAdds)
             s1 == Asked(k, SureAdds')
             g == Guest(q, k)
             Uncut == \A l \in Kind("login") : pc[l] # "cut"
             Clear == NoTwins(k)
  <2>1. /\ UNCHANGED <<start, op>>
        /\ \A r \in Request : r # q => pc'[r] = pc[r] /\ pc[r] \in Ended \cup {"idle"}
        /\ \A r \in Request : pc[r] = "cut" => pc'[r] = "cut"
    <3>1. pc[q] # "cut"
      BY Moves DEF Ended
    <3>2. /\ UNCHANGED <<start, op>>
          /\ \A r \in Request : r # q => pc'[r] = pc[r] /\ pc[r] \in Ended \cup {"idle"}
      BY <1>2, RequestActs, OneAtATime
    <3> QED
      BY <3>1, <3>2
  <2>2. /\ Quantity(start.rows, k)' = b /\ Quantity(rows, k)' = n1
        /\ Asked(k, Wrote)' = w1 /\ Asked(k, SureAdds)' = s1
    BY <2>1 DEF Asked
  <2>3. /\ Wrote \subseteq Request /\ SureAdds \subseteq Request
        /\ Wrote' \subseteq Request /\ SureAdds' \subseteq Request
    BY DEF Wrote, SureAdds, Kind
  <2>4. w \in Nat /\ w1 \in Nat /\ s \in Nat /\ s1 \in Nat
    BY <2>3, AskedIs
  <2>5. n \in Nat /\ n1 \in Nat /\ b \in Nat /\ g \in Nat
    <3>1. rows \in Seq(Line) /\ rows' \in Seq(Line)
      BY DEF TInv, ItemTypes
    <3> QED
      BY <3>1, OfKeyIs, StartCounted, GuestIs
  <2>6. InOrder /\ Lower(k) /\ Upper(k) /\ ItemStages /\ SInv
    BY <1>2, InOrderBefore DEF QInv
  <2>7. (Uncut' => Uncut) /\ (Clear' => Clear)
    <3>1. Uncut' => Uncut
      BY <2>1 DEF Kind
    <3>2. Clear' => Clear
      BY TwinsStay
    <3> QED
      BY <3>1, <3>2
  <2>8. \A r \in Request : r # q => pc'[r] # "merged" /\ pc[r] # "merged"
    BY <2>1 DEF Ended
  <2>9. Clear => n >= b + w /\ (pc[q] = "merged" => n >= b + w + g)
    BY <2>6 DEF Lower
  <2>10. Uncut => n <= b + s \/ (pc[q] = "merged" /\ n <= b + s + g)
    BY <2>6, <2>8 DEF Upper
  <2>11. /\ \/ WriteLine(q) \/ InsertLine(q)
            \/ w1 <= w /\ s <= s1
         /\ pc'[q] = "failed" => w1 = w /\ s1 = s
    <3>1. /\ \/ WriteLine(q) \/ InsertLine(q)
             \/ Wrote' \in SUBSET Wrote /\ SureAdds \in SUBSET SureAdds'
          /\ pc'[q] = "failed" => Wrote' = Wrote /\ SureAdds' = SureAdds
      BY <1>2, AddsGoOn
    <3>2. \A T \in SUBSET Wrote : Asked(k, T) <= Asked(k, Wrote)
      BY <2>3, AskedIs
    <3>3. \A T \in SUBSET SureAdds' : Asked(k, T) <= Asked(k, SureAdds')
      BY <2>3, AskedIs
    <3> QED
      BY <3>1, <3>2, <3>3
  <2>12. pc'[q] = "written" /\ op[q].kind = "add" /\ (WriteLine(q) \/ InsertLine(q)) =>
           IF DedupKey[op[q].key] = k THEN w1 = w + op[q].quantity /\ s1 = s + op[q].quantity
           ELSE w1 = w /\ s1 = s
    <3> SUFFICES ASSUME pc'[q] = "written", op[q].kind = "add", WriteLine(q) \/ InsertLine(q)
                 PROVE  IF DedupKey[op[q].key] = k THEN w1 = w + op[q].quantity /\ s1 = s + op[q].quantity
                        ELSE w1 = w /\ s1 = s
      OBVIOUS
    <3>1. /\ Wrote' = Wrote \cup {q} /\ q \in Request \ Wrote
          /\ SureAdds' = SureAdds \cup {q} /\ q \in Request \ SureAdds
      BY <1>2, AddsGoOn
    <3>2. w1 = IF DedupKey[op[q].key] = k THEN w + op[q].quantity ELSE w
      BY <2>3, <3>1, AskedIs
    <3>3. s1 = IF DedupKey[op[q].key] = k THEN s + op[q].quantity ELSE s
      BY <2>3, <3>1, AskedIs
    <3> QED
      BY <3>2, <3>3
  <2>13. op[q].quantity \in Nat
    BY TypeFacts DEF Op
  <2>14. \/ /\ pc'[q] = "written" /\ op[q].kind = "add" /\ (WriteLine(q) \/ InsertLine(q))
            /\ n1 = IF DedupKey[op[q].key] = k THEN n + op[q].quantity ELSE n
         \/ /\ CommitMerge(q) /\ pc[q] = "merging" /\ pc'[q] = "merged"
            /\ n1 <= n + g /\ (Clear => n1 = n + g) /\ Guest(q, k)' = g
         \/ /\ DeleteGuest(q) /\ pc[q] = "merged" /\ pc'[q] # "merged" /\ n1 + g = n
         \/ /\ n1 = n /\ pc'[q] # "merged" /\ (pc[q] = "merged" => pc'[q] = "cut")
            /\ (WriteLine(q) \/ InsertLine(q)) => pc'[q] = "failed"
    <3>1. pc[q] = "merging" => q \in Kind("login")
      BY DEF CInv, LoginStages, Kind
    <3>2. pc[q] = "merging" /\ Clear => ~Twins(q, k)
      BY <3>1 DEF NoTwins
    <3> QED
      BY <1>2, <2>6, <3>2, QuantitySteps
  <2>20. /\ Clear' => n1 >= b + w1 /\ (pc'[q] = "merged" => n1 >= b + w1 + Guest(q, k)')
         /\ Uncut' => n1 <= b + s1 \/ (pc'[q] = "merged" /\ n1 <= b + s1 + Guest(q, k)')
    <3> HIDE DEF n, n1, b, w, w1, s, s1, g, Uncut, Clear
    <3>1. CASE /\ pc'[q] = "written" /\ op[q].kind = "add" /\ (WriteLine(q) \/ InsertLine(q))
               /\ n1 = IF DedupKey[op[q].key] = k THEN n + op[q].quantity ELSE n
      <4>1. pc[q] # "merged"
        BY <3>1 DEF WriteLine, InsertLine
      <4>2. CASE DedupKey[op[q].key] = k
        <5>1. n1 = n + op[q].quantity /\ w1 = w + op[q].quantity /\ s1 = s + op[q].quantity
          BY <2>12, <3>1, <4>2
        <5>2. Clear => n1 >= b + w1
          BY <2>4, <2>5, <2>9, <2>13, <5>1, RaiseLow
        <5>3. n <= b + s => n1 <= b + s1
          BY <2>4, <2>5, <2>13, <5>1, RaiseHigh
        <5> QED
          BY <2>7, <2>10, <3>1, <4>1, <5>2, <5>3
      <4>3. CASE DedupKey[op[q].key] # k
        <5>1. n1 = n /\ w1 = w /\ s1 = s
          BY <2>12, <3>1, <4>3
        <5> QED
          BY <2>7, <2>9, <2>10, <3>1, <4>1, <5>1
      <4> QED
        BY <4>2, <4>3
    <3>2. CASE /\ CommitMerge(q) /\ pc[q] = "merging" /\ pc'[q] = "merged"
               /\ n1 <= n + g /\ (Clear => n1 = n + g) /\ Guest(q, k)' = g
      <4>1. w1 <= w /\ s <= s1
        BY <2>11, <3>2 DEF WriteLine, InsertLine
      <4>2. Clear => n1 >= b + w1 /\ n1 >= b + w1 + g
        BY <2>4, <2>5, <2>9, <3>2, <4>1, MoreLow
      <4>3. n <= b + s => n1 <= b + s1 + g
        BY <2>4, <2>5, <3>2, <4>1, MoreHigh
      <4>4. Uncut' => n <= b + s
        BY <2>7, <2>10, <3>2
      <4>5. Clear' => n1 >= b + w1 + Guest(q, k)'
        BY <2>7, <3>2, <4>2, Zenon
      <4>6. Uncut' => n1 <= b + s1 + Guest(q, k)'
        BY <3>2, <4>3, <4>4, Zenon
      <4>7. pc'[q] = "merged" /\ (Clear' => n1 >= b + w1)
        BY <2>7, <3>2, <4>2
      <4> QED
        BY <4>5, <4>6, <4>7
    <3>3. CASE DeleteGuest(q) /\ pc[q] = "merged" /\ pc'[q] # "merged" /\ n1 + g = n
      <4>1. w1 <= w /\ s <= s1
        BY <2>11, <3>3 DEF WriteLine, InsertLine
      <4>2. Clear => n1 >= b + w1
        BY <2>4, <2>5, <2>9, <3>3, <4>1, LessLow
      <4>3. n <= b + s \/ n <= b + s + g => n1 <= b + s1
        BY <2>4, <2>5, <3>3, <4>1, LessHigh
      <4> QED
        BY <2>7, <2>10, <3>3, <4>2, <4>3
    <3>4. CASE /\ n1 = n /\ pc'[q] # "merged" /\ (pc[q] = "merged" => pc'[q] = "cut")
               /\ (WriteLine(q) \/ InsertLine(q)) => pc'[q] = "failed"
      <4>1. w1 <= w /\ s <= s1
        BY <2>4, <2>11, <3>4
      <4>2. Clear => n1 >= b + w1
        BY <2>4, <2>5, <2>9, <3>4, <4>1
      <4>3. n <= b + s => n1 <= b + s1
        BY <2>4, <2>5, <3>4, <4>1
      <4>4. Uncut' => pc[q] # "merged"
        BY <2>1, <3>4 DEF CInv, LoginStages, Kind, Uncut
      <4>5. Uncut' => n1 <= b + s1
        BY <2>7, <2>10, <4>3, <4>4
      <4> QED
        BY <2>7, <3>4, <4>2, <4>5
    <3> QED
      BY <2>14, <3>1, <3>2, <3>3, <3>4
  <2> HIDE DEF n, n1, b, w, w1, s, s1, g
  <2>21. Lower(k)'
    BY <2>2, <2>8, <2>20 DEF Lower
  <2>22. Upper(k)'
    BY <2>2, <2>20 DEF Upper
  <2> QED
    BY <2>21, <2>22
<1>3. ASSUME NEW k \in Key PROVE Lower(k)' /\ Upper(k)'
  BY <1>2 DEF Lower, Upper
<1> QED
  BY <1>1, <1>3 DEF QInv

LEMMA QInvKept == TInv /\ TInv' /\ CInv /\ QInv /\ [Next]_vars => QInv'
<1> SUFFICES ASSUME TInv, TInv', CInv, QInv, [Next]_vars PROVE QInv'
  OBVIOUS
<1>1. ASSUME UNCHANGED <<start, tables, cookie, pc, op, work, met>> PROVE QInv'
  <2>1. UNCHANGED <<start, rows, carts, pc, op, cart, own, found, match, met>>
    BY <1>1 DEF tables, work
  <2>2. /\ InOrder' <=> InOrder
        /\ \A k : NoTwins(k)' <=> NoTwins(k)
        /\ \A q, k : GuestRows(q, k)' = GuestRows(q, k)
    <3>1. (InOrder' <=> InOrder) /\ \A q, k : GuestRows(q, k)' = GuestRows(q, k)
      BY <2>1 DEF InOrder, Again, Kind, GuestRows, MergeKey
    <3>2. \A k : NoTwins(k)' <=> NoTwins(k)
      BY <2>1 DEF NoTwins, Kind, Twins, MergeKey
    <3> QED
      BY <3>1, <3>2
  <2>3. ItemStages'
    BY <2>1 DEF QInv, ItemStages
  <2>4. SInv'
    <3>1. \A q \in Request : /\ LineRead(q)' <=> LineRead(q)
                             /\ GuestRead(q)' <=> GuestRead(q)
                             /\ OwnMatched(q)' <=> OwnMatched(q)
      BY <2>1, <2>2 DEF LineRead, GuestRead, OwnMatched
    <3> QED
      BY <2>1, <2>2, <3>1 DEF QInv, SInv
  <2>5. \A k \in Key : Lower(k)' /\ Upper(k)'
    <3>1. \A q, k : Guest(q, k)' = Guest(q, k)
      BY <2>1, <2>2 DEF Guest
    <3>2. Wrote' = Wrote /\ SureAdds' = SureAdds /\ Kind("login")' = Kind("login")
      BY <2>1 DEF Wrote, SureAdds, Kind
    <3>3. \A k : Asked(k, Wrote)' = Asked(k, Wrote) /\ Asked(k, SureAdds)' = Asked(k, SureAdds)
      BY <2>1, <3>2 DEF Asked
    <3>4. \A k : Lower(k)' <=> Lower(k)
      BY <2>1, <2>2, <3>1, <3>3 DEF Lower
    <3>5. \A k : Upper(k)' <=> Upper(k)
      BY <2>1, <2>2, <3>1, <3>2, <3>3 DEF Upper
    <3> QED
      BY <3>4, <3>5 DEF QInv
  <2> QED
    BY <2>3, <2>4, <2>5 DEF QInv
<1> QED
  BY <1>1, OtherSteps, QInvStep

LEMMA Least == \A n \in Nat : n >= n + 0 /\ n <= n + 0
OBVIOUS

LEMMA StartQuantities == Init => QInv
<1> SUFFICES ASSUME Init PROVE QInv
  OBVIOUS
<1>0. TInv
  BY StartTyped
<1>1. rows = start.rows /\ start \in Starts /\ \A q \in Request : pc[q] = "idle"
  BY DEF Init
<1>2. ItemStages /\ \A q \in Request : LineRead(q) /\ GuestRead(q) /\ OwnMatched(q)
  BY <1>1 DEF ItemStages, LineRead, GuestRead, OwnMatched
<1>4. Wrote = {} /\ SureAdds = {}
  BY <1>1 DEF Wrote, SureAdds, Kind, Surely
<1>5. \A k : Asked(k, {}) = 0
  BY SumOfEmpty DEF Asked
<1>6. \A k : Quantity(rows, k) \in Nat /\ Quantity(start.rows, k) = Quantity(rows, k)
  BY <1>0, <1>1, StartCounted
<1>7. ASSUME NEW k PROVE Lower(k) /\ Upper(k)
  <2>1. Quantity(rows, k) >= Quantity(start.rows, k) + 0 /\ Quantity(rows, k) <= Quantity(start.rows, k) + 0
    BY <1>6, Least
  <2>2. Asked(k, Wrote) = 0 /\ Asked(k, SureAdds) = 0
    BY <1>4, <1>5
  <2>3. \A q \in Request : pc[q] # "merged"
    BY <1>1
  <2> QED
    BY <2>1, <2>2, <2>3 DEF Lower, Upper
<1> QED
  BY <1>2, <1>7 DEF QInv, SInv

LEMMA PremiseInOrder == OnlyAddsAndLogins => InOrder
<1> SUFFICES ASSUME OnlyAddsAndLogins, NEW q \in Request, pc[q] \in Surely
             PROVE  op[q].kind \in {"add", "login"} /\ ~Again(q)
  BY DEF OnlyAddsAndLogins, InOrder
<1>1. q \in Begun
  BY DEF Begun, Surely
<1> QED
  BY <1>1 DEF OnlyAddsAndLogins, Kind

LEMMA AtLeastLess == \A n, b, a, x \in Nat : n >= b + a /\ x <= a => n >= b + x
OBVIOUS

LEMMA AtMostMore == \A n, b, a, x \in Nat : n <= b + a /\ a <= x => n <= b + x
OBVIOUS

\* What customers put into carts is in some cart, through any number of logins one
\* after the other, even if one dies anywhere in its merge (mergeCartOnLogin): lost
\* is only what a guest cart has in rows that differ in the order of their options, and
\* that the customer's has too (updateCartItemQuantities).
THEOREM ItemsSurvival == Spec => []ItemsSurviveLogin
<1>1. TInv /\ QInv => ItemsSurviveLogin
  <2> SUFFICES ASSUME TInv, QInv, OnlyAddsAndLogins, NEW k \in Key, NoTwins(k)
               PROVE  Quantity(rows, k) >= Quantity(start.rows, k)
                                             + Asked(k, {q \in Kind("add") : pc[q] = "done"})
    BY DEF ItemsSurviveLogin, NoTwins
  <2> DEFINE D == {q \in Kind("add") : pc[q] = "done"}
  <2>1. D \in SUBSET Wrote /\ Wrote \in SUBSET Request /\ D \in SUBSET Request
    BY DEF Wrote, Kind
  <2>2. Quantity(rows, k) >= Quantity(start.rows, k) + Asked(k, Wrote)
    BY PremiseInOrder DEF QInv, Lower
  <2> HIDE DEF D
  <2>3. Asked(k, D) <= Asked(k, Wrote) /\ Asked(k, D) \in Nat /\ Asked(k, Wrote) \in Nat
    BY <2>1, AskedIs
  <2>4. Quantity(rows, k) \in Nat /\ Quantity(start.rows, k) \in Nat
    BY OfKeyIs, StartCounted DEF TInv, ItemTypes
  <2>5. Quantity(rows, k) >= Quantity(start.rows, k) + Asked(k, D)
    BY <2>2, <2>3, <2>4, AtLeastLess
  <2> QED
    BY <2>5 DEF D
<1> QED
  BY <1>1, StartTyped, TypesKept, StartCarts, CartsKept, StartQuantities, QInvKept, PTL DEF Spec

\* And it is there once, unless a login died (deleteCart ends the merge): a guest
\* cart that was not deleted is merged again.
THEOREM ItemsOnce == Spec => []ItemsAddedOnce
<1>1. TInv /\ CInv /\ QInv => ItemsAddedOnce
  <2> SUFFICES ASSUME TInv, CInv, QInv, OnlyAddsAndLogins, NEW k \in Key,
                      \A q \in Kind("login") : pc[q] \notin {"merged", "cut"}
               PROVE  Quantity(rows, k) <= Quantity(start.rows, k) + Asked(k, Begun \cap Kind("add"))
    BY DEF ItemsAddedOnce
  <2> DEFINE B == Begun \cap Kind("add")
  <2>1. SureAdds \in SUBSET B /\ B \in SUBSET Request /\ SureAdds \in SUBSET Request
    BY DEF SureAdds, Surely, Begun, Kind
  <2>2. \A q \in Request : pc[q] # "merged"
    BY DEF CInv, LoginStages, Kind
  <2>3. Quantity(rows, k) <= Quantity(start.rows, k) + Asked(k, SureAdds)
    BY <2>2, PremiseInOrder DEF QInv, Upper
  <2> HIDE DEF B
  <2>4. Asked(k, SureAdds) <= Asked(k, B) /\ Asked(k, B) \in Nat /\ Asked(k, SureAdds) \in Nat
    BY <2>1, AskedIs
  <2>5. Quantity(rows, k) \in Nat /\ Quantity(start.rows, k) \in Nat
    BY OfKeyIs, StartCounted DEF TInv, ItemTypes
  <2>6. Quantity(rows, k) <= Quantity(start.rows, k) + Asked(k, B)
    BY <2>3, <2>4, <2>5, AtMostMore
  <2> QED
    BY <2>6 DEF B
<1> QED
  BY <1>1, StartTyped, TypesKept, StartCarts, CartsKept, StartQuantities, QInvKept, PTL DEF Spec
=============================================================================
