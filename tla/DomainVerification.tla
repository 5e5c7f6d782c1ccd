-------------------------- MODULE DomainVerification --------------------------
(***************************************************************************)
(* Custom domains: merchants add, verify and remove them, and a queued job   *)
(* looks for the DNS record and the certificate of each.                     *)
(*                                                                         *)
(*   modules/domain/domain.route.merchant.ts  POST /custom, verify, DELETE *)
(*   modules/domain/domain.service.ts         addCustomDomain,             *)
(*                          verifyCustomDomain, removeCustomDomain         *)
(*   modules/domain/domain.repo.ts            the statements they run      *)
(*   jobs/domainVerificationProcessor.ts      processDomainVerification    *)
(*   services/queue.service.ts                the queue of the job         *)
(*                                                                         *)
(* No step is in a transaction with another one.  The record of a            *)
(* verification is never taken out of the DNS again; a certificate may or    *)
(* may not be there whenever Caddy is asked.                                 *)
(***************************************************************************)
EXTENDS Naturals

CONSTANTS
  Verification,   \* requests for a custom domain, and their rows
  Store, Domain,
  Owner, Name,    \* the store and the domain of each
  Attempts,       \* attempts of a job, 288 in the code
  MaxFaults,      \* bound on errors and crashes
  MaxRequests,    \* bound on the requests of merchants
  NoDomain,       \* no custom domain
  Nobody          \* no verification

ASSUME DomainAssumption ==
  /\ Owner \in [Verification -> Store]
  /\ Name \in [Verification -> Domain]
  /\ Attempts \in Nat \ {0}
  /\ MaxFaults \in Nat /\ MaxRequests \in Nat
  /\ NoDomain \notin Domain
  /\ Nobody \notin Verification

VARIABLES
  row,         \* the status of the row of each verification
  custom,      \* the custom_domain that verifications gave each store
  published,   \* the verifications whose record is in the DNS
  pc,          \* where the four tasks of each verification are
  job,         \* its job in the queue
  made,        \* attemptsMade of the job
  stalled,     \* its worker died once
  asked,       \* requests of merchants so far
  faults,      \* errors and crashes so far
  caught       \* history: removed while it was being verified

vars == <<row, custom, published, pc, job, made, stalled, asked, faults, caught>>

Pending == "pending_dns"
Past == {"dns_verified", "ssl_provisioning", "live"}
Row == {Pending, "failed"} \cup Past
Task == {"add", "job", "verify", "remove"} \X Verification
Stage == {"idle", "free", "created", "found", "proved", "giving", "waited", "giving again",
          "missed", "deleted", "clearing", "done", "refused", "cut"}

-----------------------------------------------------------------------------
\* Helpers

Goto(t, stage) == pc' = [pc EXCEPT ![t] = stage]

Ask == asked < MaxRequests /\ asked' = asked + 1

Stored(v) == row[v] \in Row

\* updateStatus matches no row once it was deleted.
SetRow(v, status) == row' = IF Stored(v) THEN [row EXCEPT ![v] = status] ELSE row

Verifying(v) ==
  {pc[<<"job", v>>], pc[<<"verify", v>>]}
    \cap {"found", "proved", "giving", "waited", "giving again"} # {}

-----------------------------------------------------------------------------
Init ==
  /\ row = [v \in Verification |-> "none"]
  /\ custom = [s \in Store |-> NoDomain]
  /\ published = {}
  /\ pc = [t \in Task |-> "idle"]
  /\ job = [v \in Verification |-> "none"]
  /\ made = [v \in Verification |-> 0]
  /\ stalled = [v \in Verification |-> FALSE]
  /\ asked = 0 /\ faults = 0
  /\ caught = {}

-----------------------------------------------------------------------------
\* POST /custom

\* checkDomainExists: a failed verification does not count.
CheckFree(v) ==
  /\ pc[<<"add", v>>] = "idle"
  /\ Ask
  /\ LET taken == \/ \E s \in Store : custom[s] = Name[v]
                  \/ \E w \in Verification : Name[w] = Name[v] /\ row[w] \in Past \cup {Pending}
     IN Goto(<<"add", v>>, IF taken THEN "refused" ELSE "free")
  /\ UNCHANGED <<row, custom, published, job, made, stalled, faults, caught>>

\* Broken: what was checked is relied on.
CreateUnchecked(v) ==
  /\ pc[<<"add", v>>] = "free"
  /\ row' = [row EXCEPT ![v] = Pending]
  /\ Goto(<<"add", v>>, "created")
  /\ UNCHANGED <<custom, published, job, made, stalled, faults, caught, asked>>

\* The INSERT, with the unique index on the domain.
CreateRow(v) ==
  /\ pc[<<"add", v>>] = "free"
  /\ IF \E w \in Verification : Name[w] = Name[v] /\ Stored(w)
     THEN /\ Goto(<<"add", v>>, "refused")
          /\ UNCHANGED row
     ELSE /\ Goto(<<"add", v>>, "created")
          /\ row' = [row EXCEPT ![v] = Pending]
  /\ UNCHANGED <<custom, published, job, made, stalled, faults, caught, asked>>

EnqueueJob(v) ==
  /\ pc[<<"add", v>>] = "created"
  /\ job' = [job EXCEPT ![v] = "waiting"]
  /\ Goto(<<"add", v>>, "done")
  /\ UNCHANGED <<row, custom, published, made, stalled, faults, caught, asked>>

-----------------------------------------------------------------------------
\* verifyCustomDomain, for the merchant and for the job

\* The merchant asks for it.
Look(v) ==
  /\ pc[<<"verify", v>>] = "idle"
  /\ Stored(v)
  /\ Ask
  /\ Goto(<<"verify", v>>, "found")
  /\ UNCHANGED <<row, custom, published, job, made, stalled, faults, caught>>

\* A worker takes the job; it is done unless the row is still pending.
TakeJob(v) ==
  /\ job[v] = "waiting"
  /\ IF row[v] = Pending
     THEN /\ job' = [job EXCEPT ![v] = "active"]
          /\ Goto(<<"job", v>>, "found")
     ELSE /\ job' = [job EXCEPT ![v] = "completed"]
          /\ UNCHANGED pc
  /\ UNCHANGED <<row, custom, published, made, stalled, faults, caught, asked>>

\* Broken: whatever is in the DNS will do.
ProveAnything(t) ==
  LET v == t[2] IN
    /\ pc[t] = "found"
    /\ SetRow(v, "dns_verified")
    /\ Goto(t, "proved")
    /\ UNCHANGED <<custom, published, job, made, stalled, faults, caught, asked>>

ProveDns(t) ==
  LET v == t[2] IN
    /\ pc[t] = "found" /\ v \in published
    /\ SetRow(v, "dns_verified")
    /\ Goto(t, "proved")
    /\ UNCHANGED <<custom, published, job, made, stalled, faults, caught, asked>>

\* The record is not there.  The job returns and is not tried again; in its last
\* attempt it has the verdict still to write.
MissDns(t) ==
  LET v == t[2]
      last == t[1] = "job" /\ made[v] >= Attempts - 1
  IN
    /\ pc[t] = "found" /\ v \notin published
    /\ Goto(t, IF last THEN "missed" ELSE "idle")
    /\ job' = IF t[1] = "job" /\ ~last THEN [job EXCEPT ![v] = "completed"] ELSE job
    /\ UNCHANGED <<row, custom, published, made, stalled, faults, caught, asked>>

\* The last attempt gives its verdict, whatever the row has become since the look.
MarkFailed(t) ==
  LET v == t[2] IN
    /\ pc[t] = "missed"
    /\ SetRow(v, "failed")
    /\ job' = [job EXCEPT ![v] = "completed"]
    /\ Goto(t, "idle")
    /\ UNCHANGED <<custom, published, made, stalled, faults, caught, asked>>

\* Broken: an error ends the job.
GiveUp(v) ==
  /\ made' = [made EXCEPT ![v] = @ + 1]
  /\ job' = [job EXCEPT ![v] = "failed"]
  /\ Goto(<<"job", v>>, "idle")

\* The processor throws.
Throw(v) ==
  /\ made' = [made EXCEPT ![v] = @ + 1]
  /\ job' = [job EXCEPT ![v] = IF made[v] + 1 < Attempts THEN "waiting" ELSE "failed"]
  /\ Goto(<<"job", v>>, "idle")

\* A job waits half a minute for the certificate and looks at it once more.
EndLook(t) ==
  IF t[1] = "job" /\ pc[t] \in {"proved", "giving"}
  THEN Goto(t, "waited") /\ UNCHANGED job
  ELSE /\ Goto(t, "idle")
       /\ job' = IF t[1] = "job" THEN [job EXCEPT ![t[2]] = "completed"] ELSE job

\* Broken: the store is not told.
MarkRowOnly(t) ==
  /\ pc[t] \in {"proved", "waited"}
  /\ SetRow(t[2], "live")
  /\ EndLook(t)
  /\ UNCHANGED <<custom, published, made, stalled, faults, caught, asked>>

\* There is a certificate.
MarkLive(t) ==
  /\ pc[t] \in {"proved", "waited"}
  /\ SetRow(t[2], "live")
  /\ Goto(t, IF pc[t] = "proved" THEN "giving" ELSE "giving again")
  /\ UNCHANGED <<custom, published, job, made, stalled, faults, caught, asked>>

\* There is none, or Caddy does not answer.
MarkProvisioning(t) ==
  /\ pc[t] \in {"proved", "waited"}
  /\ SetRow(t[2], "ssl_provisioning")
  /\ IF pc[t] = "waited" THEN Throw(t[2]) ELSE EndLook(t) /\ UNCHANGED made
  /\ UNCHANGED <<custom, published, stalled, faults, caught, asked>>

\* updateStoreCustomDomain; an error of its unique index is caught.
Give(t) ==
  LET v == t[2] IN
    /\ pc[t] \in {"giving", "giving again"}
    /\ custom' = IF \E s \in Store \ {Owner[v]} : custom[s] = Name[v] THEN custom
                 ELSE [custom EXCEPT ![Owner[v]] = Name[v]]
    /\ EndLook(t)
    /\ UNCHANGED <<row, published, made, stalled, faults, caught, asked>>

-----------------------------------------------------------------------------
\* DELETE /custom

DeleteRow(v) ==
  /\ pc[<<"remove", v>>] = "idle"
  /\ Stored(v)
  /\ Ask
  /\ row' = [row EXCEPT ![v] = "removed"]
  /\ caught' = IF Verifying(v) THEN caught \cup {v} ELSE caught
  /\ Goto(<<"remove", v>>, "deleted")
  /\ UNCHANGED <<custom, published, job, made, stalled, faults>>

\* Broken: the store is left alone.
LeaveStore(v) ==
  /\ pc[<<"remove", v>>] = "deleted"
  /\ Goto(<<"remove", v>>, "done")
  /\ UNCHANGED <<row, custom, published, job, made, stalled, faults, caught, asked>>

ReadStore(v) ==
  /\ pc[<<"remove", v>>] = "deleted"
  /\ Goto(<<"remove", v>>, IF custom[Owner[v]] = Name[v] THEN "clearing" ELSE "done")
  /\ UNCHANGED <<row, custom, published, job, made, stalled, faults, caught, asked>>

\* Broken: an empty name is written instead of NULL.
ClearStoreBlank(v) ==
  /\ pc[<<"remove", v>>] = "clearing"
  /\ custom' = [custom EXCEPT ![Owner[v]] = ""]
  /\ Goto(<<"remove", v>>, "done")
  /\ UNCHANGED <<row, published, job, made, stalled, faults, caught, asked>>

\* clearStoreCustomDomain, whatever the domain is by now.
ClearStore(v) ==
  /\ pc[<<"remove", v>>] = "clearing"
  /\ custom' = [custom EXCEPT ![Owner[v]] = NoDomain]
  /\ Goto(<<"remove", v>>, "done")
  /\ UNCHANGED <<row, published, job, made, stalled, faults, caught, asked>>

-----------------------------------------------------------------------------
\* The surroundings

\* The merchant learns what to publish from the row.
Publish(v) ==
  /\ v \notin published /\ Stored(v)
  /\ published' = published \cup {v}
  /\ UNCHANGED <<row, custom, pc, job, made, stalled, faults, caught, asked>>

\* An error after the record was found is caught, and the look at the certificate
\* is over.
CatchError(t) ==
  /\ pc[t] \in {"proved", "giving", "waited", "giving again"}
  /\ faults < MaxFaults
  /\ faults' = faults + 1
  /\ EndLook(t)
  /\ UNCHANGED <<row, custom, published, made, stalled, caught, asked>>

\* Any other error fails the job.
JobFails(v) ==
  /\ job[v] = "active"
  /\ faults < MaxFaults
  /\ faults' = faults + 1
  /\ Throw(v)
  /\ UNCHANGED <<row, custom, published, stalled, caught, asked>>

\* The worker dies; the queue hands the job to another one, once.
Stall(v) ==
  /\ job[v] = "active"
  /\ faults < MaxFaults
  /\ faults' = faults + 1
  /\ job' = [job EXCEPT ![v] = IF stalled[v] THEN "failed" ELSE "waiting"]
  /\ stalled' = [stalled EXCEPT ![v] = TRUE]
  /\ Goto(<<"job", v>>, "idle")
  /\ UNCHANGED <<row, custom, published, made, caught, asked>>

\* A request is cut short; a merchant may ask for a verification again.
Cut(t) ==
  /\ t[1] # "job" /\ pc[t] \notin {"idle", "done", "refused", "cut"}
  /\ faults < MaxFaults
  /\ faults' = faults + 1
  /\ Goto(t, IF t[1] = "verify" THEN "idle" ELSE "cut")
  /\ UNCHANGED <<row, custom, published, job, made, stalled, caught, asked>>

-----------------------------------------------------------------------------
LookStep(t) ==
  ProveDns(t) \/ MissDns(t) \/ MarkFailed(t) \/ MarkLive(t) \/ MarkProvisioning(t) \/ Give(t)

JobStep(v) == TakeJob(v) \/ LookStep(<<"job", v>>)

Next ==
  \/ \E v \in Verification :
       \/ CheckFree(v) \/ CreateRow(v) \/ EnqueueJob(v)
       \/ Look(v) \/ TakeJob(v)
       \/ DeleteRow(v) \/ ReadStore(v) \/ ClearStore(v)
       \/ Publish(v) \/ JobFails(v) \/ Stall(v)
  \/ \E t \in Task : LookStep(t) \/ CatchError(t) \/ Cut(t)

Spec == Init /\ [][Next]_vars

\* Workers take the jobs there are and do not stop in the middle of one.
FairSpec == Spec /\ \A v \in Verification : WF_vars(JobStep(v))
-----------------------------------------------------------------------------
\* Correctness

TypeOK ==
  /\ row \in [Verification -> Row \cup {"none", "removed"}]
  /\ custom \in [Store -> Domain \cup {NoDomain}]
  /\ published \subseteq Verification
  /\ pc \in [Task -> Stage]
  /\ job \in [Verification -> {"none", "waiting", "active", "completed", "failed"}]
  /\ made \in [Verification -> 0 .. Attempts]
  /\ stalled \in [Verification -> BOOLEAN]
  /\ asked \in 0 .. MaxRequests /\ faults \in 0 .. MaxFaults
  /\ caught \subseteq Verification

(* A domain passes for verified only with the record made for its row, and a *)
(* store has only domains it proved, however verifications, removals and     *)
(* other stores' requests for the domain interleave.                         *)
OnlyProvedGoesLive ==
  /\ \A v \in Verification : row[v] \in Past => v \in published
  /\ \A s \in Store : custom[s] # NoDomain =>
       \E v \in published : Owner[v] = s /\ Name[v] = custom[s]

(* A store that has a domain has a row for it.  It keeps the domain of a row *)
(* that was removed only if a verification was under way at the time and     *)
(* entered it afterwards, or if the removal was cut short.                   *)
CustomNeedsRow ==
  \A s \in Store : custom[s] # NoDomain =>
    \E v \in Verification :
      /\ Owner[v] = s /\ Name[v] = custom[s]
      /\ \/ Stored(v) \/ v \in caught
         \/ pc[<<"remove", v>>] \in {"deleted", "clearing", "cut"}

(* A domain whose row says live is the store's, unless a crash came between  *)
(* the two updates, another domain of the store was proved (it replaces this *)
(* one and takes the store's domain with it when it is removed), or another  *)
(* row of the domain was removed: its store had the domain a while longer,   *)
(* or the removal cleared what this row had given the store.                 *)
LiveIsServed ==
  \A v \in Verification :
    (row[v] = "live" /\ ~Verifying(v)) =>
      \/ custom[Owner[v]] = Name[v]
      \/ faults > 0
      \/ \E w \in published : Owner[w] = Owner[v] /\ Name[w] # Name[v]
      \/ \E w \in Verification : Name[w] = Name[v] /\ row[w] = "removed"

\* The row of each domain.
HolderOf(rows) ==
  [d \in Domain |-> IF \E v \in Verification : Name[v] = d /\ rows[v] \in Row
                    THEN CHOOSE v \in Verification : Name[v] = d /\ rows[v] \in Row
                    ELSE Nobody]

Registry ==
  INSTANCE DomainRegistry WITH
    holder <- HolderOf(row),
    spent <- {v \in Verification : row[v] = "removed"}

(* Of merchants who ask for a domain at once one gets it: the look before    *)
(* the INSERT decides nothing, the unique index does.  A row that was        *)
(* removed is never written back by a verification that read it before.      *)
ImplementsRegistry == Registry!Spec

(* A record that is in place when a job waits is noticed, whatever errors and *)
(* crashes interrupt the looks, until every attempt has failed or a second    *)
(* worker has died with the job.  A job that has come before the record has   *)
(* is over: nothing is promised about it.                                     *)
PublishedIsNoticed ==
  \A v \in Verification :
    (v \in published /\ row[v] = Pending /\ job[v] = "waiting") ~>
      \/ row[v] # Pending
      \/ made[v] = Attempts
      \/ stalled[v] /\ job[v] = "failed"
=============================================================================
