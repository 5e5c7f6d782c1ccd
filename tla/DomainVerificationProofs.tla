----------------------- MODULE DomainVerificationProofs -----------------------
(***************************************************************************)
(* Custom domains, for every set of verifications, stores and domains and    *)
(* every number of attempts, errors and requests: only a proved domain goes  *)
(* live, and a domain has one row at a time.                                 *)
(***************************************************************************)
EXTENDS DomainVerification, TLAPS

Looking == {"found", "proved", "giving", "waited", "giving again"}
Middle == Looking \cup {"missed"}
AddStage == {"idle", "free", "created", "done", "refused", "cut"}
RemoveStage == {"idle", "deleted", "clearing", "done", "cut"}

\* Which stages each kind of task goes through.
StagesOfKind ==
  \A v \in Verification :
    /\ pc[<<"add", v>>] \in AddStage
    /\ pc[<<"remove", v>>] \in RemoveStage
    /\ pc[<<"job", v>>] \in {"idle"} \cup Middle
    /\ pc[<<"verify", v>>] \in {"idle", "found", "proved", "giving"}

\* A row and a job are made by the request and by nothing else.
MadeByRequest ==
  \A v \in Verification :
    /\ pc[<<"add", v>>] \in {"idle", "free", "refused"} => row[v] = "none"
    /\ pc[<<"add", v>>] \in {"idle", "free", "created"} => job[v] = "none"

\* A worker is in a job while it is active, and an attempt is left then.
JobIsActive ==
  \A v \in Verification :
    /\ pc[<<"job", v>>] # "idle" <=> job[v] = "active"
    /\ job[v] \in {"none", "waiting", "active"} => made[v] < Attempts

\* A task past the look at the DNS has seen the record.
SeenIsPublished ==
  \A t \in Task : pc[t] \in Looking \ {"found"} => t[2] \in published

OneRowPerDomain ==
  \A v, w \in Verification : Stored(v) /\ Stored(w) /\ Name[v] = Name[w] => v = w

IInv ==
  /\ TypeOK /\ StagesOfKind /\ MadeByRequest /\ JobIsActive
  /\ SeenIsPublished /\ OnlyProvedGoesLive /\ OneRowPerDomain

LEMMA InitEstablishes == Init => IInv
<1> SUFFICES ASSUME Init PROVE IInv
  OBVIOUS
<1> USE DEF Init
<1>1. \A t \in Task : pc[t] = "idle"
  OBVIOUS
<1>2. \A k \in {"add", "job", "verify", "remove"}, v \in Verification : pc[<<k, v>>] = "idle"
  BY <1>1 DEF Task
<1>3. TypeOK
  BY DomainAssumption DEF TypeOK, Stage
<1>4. StagesOfKind
  BY <1>2 DEF StagesOfKind, AddStage, RemoveStage
<1>5. MadeByRequest /\ JobIsActive
  BY <1>2, DomainAssumption DEF MadeByRequest, JobIsActive
<1>6. SeenIsPublished
  BY <1>1 DEF SeenIsPublished, Looking
<1>7. OnlyProvedGoesLive /\ OneRowPerDomain
  BY DEF OnlyProvedGoesLive, OneRowPerDomain, Stored, Row, Past, Pending
<1> QED
  BY <1>3, <1>4, <1>5, <1>6, <1>7 DEF IInv

\* Steps of POST /custom.
LEMMA AddKeeps ==
  ASSUME IInv, NEW v \in Verification,
         CheckFree(v) \/ CreateRow(v) \/ EnqueueJob(v)
  PROVE  IInv'
<1> USE DEF Goto, Ask
<1>0. <<"add", v>> \in Task
  BY DEF Task
<1>1. PICK s \in AddStage : pc' = [pc EXCEPT ![<<"add", v>>] = s]
  BY DEF CheckFree, CreateRow, EnqueueJob, AddStage
<1>2. /\ pc'[<<"add", v>>] = s
      /\ \A t \in Task : t # <<"add", v>> => pc'[t] = pc[t]
  BY <1>0, <1>1 DEF IInv, TypeOK
<1>3. TypeOK'
  <2>1. pc' \in [Task -> Stage]
    BY <1>1 DEF IInv, TypeOK, AddStage, Stage
  <2>2. asked' \in 0 .. MaxRequests
    BY DomainAssumption DEF CheckFree, CreateRow, EnqueueJob, IInv, TypeOK
  <2> QED
    BY <2>1, <2>2 DEF CheckFree, CreateRow, EnqueueJob, IInv, TypeOK, Row, Pending
<1>4. StagesOfKind'
  <2> SUFFICES ASSUME NEW w \in Verification
               PROVE  /\ pc'[<<"add", w>>] \in AddStage
                      /\ pc'[<<"remove", w>>] \in RemoveStage
                      /\ pc'[<<"job", w>>] \in {"idle"} \cup Middle
                      /\ pc'[<<"verify", w>>] \in {"idle", "found", "proved", "giving"}
    BY DEF StagesOfKind
  <2> QED
    BY <1>2 DEF IInv, StagesOfKind, Task
<1>5. MadeByRequest'
  <2> SUFFICES ASSUME NEW w \in Verification
               PROVE  /\ pc'[<<"add", w>>] \in {"idle", "free", "refused"} => row'[w] = "none"
                      /\ pc'[<<"add", w>>] \in {"idle", "free", "created"} => job'[w] = "none"
    BY DEF MadeByRequest
  <2>1. pc' \in [Task -> Stage] /\ <<"add", w>> \in Task
    BY <1>3 DEF TypeOK, Task
  <2> QED
    BY <1>2, <2>1 DEF CheckFree, CreateRow, EnqueueJob, IInv, TypeOK, MadeByRequest
<1>6. JobIsActive'
  <2> SUFFICES ASSUME NEW w \in Verification
               PROVE  /\ pc'[<<"job", w>>] # "idle" <=> job'[w] = "active"
                      /\ job'[w] \in {"none", "waiting", "active"} => made'[w] < Attempts
    BY DEF JobIsActive
  <2>1. pc'[<<"job", w>>] = pc[<<"job", w>>]
    BY <1>2 DEF Task
  <2> QED
    BY <2>1 DEF CheckFree, CreateRow, EnqueueJob, IInv, TypeOK, MadeByRequest, JobIsActive
<1>7. SeenIsPublished'
  BY <1>2 DEF CheckFree, CreateRow, EnqueueJob, IInv, SeenIsPublished, AddStage, Looking
<1>8. OnlyProvedGoesLive'
  BY DEF CheckFree, CreateRow, EnqueueJob, IInv, TypeOK, OnlyProvedGoesLive, Past, Pending
<1>9. OneRowPerDomain'
  BY DEF CheckFree, CreateRow, EnqueueJob, IInv, TypeOK, OneRowPerDomain, Stored, Row
<1> QED
  BY <1>3, <1>4, <1>5, <1>6, <1>7, <1>8, <1>9 DEF IInv

\* A verification goes from one of its stages to another: what that says of the
\* stages of all tasks.
LEMMA LookMovesOneTask ==
  ASSUME IInv, NEW t \in Task, NEW s \in {"idle"} \cup Middle,
         pc[t] \in Middle,
         pc' = [pc EXCEPT ![t] = s],
         t[1] = "verify" => s \in {"idle", "found", "proved", "giving"}
  PROVE  /\ pc' \in [Task -> Stage]
         /\ StagesOfKind'
         /\ t[1] \in {"job", "verify"} /\ t[2] \in Verification /\ t = <<t[1], t[2]>>
         /\ \A v \in Verification : pc'[<<"add", v>>] = pc[<<"add", v>>]
<1>1. t[1] \in {"add", "job", "verify", "remove"} /\ t[2] \in Verification /\ t = <<t[1], t[2]>>
  BY DEF Task
<1>2. t[1] \in {"job", "verify"}
  BY <1>1 DEF IInv, StagesOfKind, Middle, Looking, AddStage, RemoveStage
<1>3. pc' \in [Task -> Stage]
  BY DEF IInv, TypeOK, Middle, Looking, Stage
<1>4. pc'[t] = s /\ \A u \in Task : u # t => pc'[u] = pc[u]
  BY DEF IInv, TypeOK
<1>5. ASSUME NEW v \in Verification
      PROVE  /\ pc'[<<"add", v>>] = pc[<<"add", v>>]
             /\ pc'[<<"remove", v>>] = pc[<<"remove", v>>]
             /\ pc'[<<"job", v>>] \in {"idle"} \cup Middle
             /\ pc'[<<"verify", v>>] \in {"idle", "found", "proved", "giving"}
  <2>1. \A k \in {"add", "job", "verify", "remove"} : <<k, v>> \in Task
    BY DEF Task
  <2>2. <<"add", v>> # t /\ <<"remove", v>> # t
    BY <1>1, <1>2
  <2>3. CASE t = <<"job", v>>
    <3>1. <<"verify", v>> # t
      BY <2>3
    <3> QED
      BY <1>4, <2>1, <2>2, <2>3, <3>1 DEF IInv, StagesOfKind
  <2>4. CASE t = <<"verify", v>>
    <3>1. <<"job", v>> # t /\ t[1] = "verify"
      BY <2>4
    <3> QED
      BY <1>4, <2>1, <2>2, <2>4, <3>1 DEF IInv, StagesOfKind
  <2>5. CASE t # <<"job", v>> /\ t # <<"verify", v>>
    BY <1>4, <2>1, <2>2, <2>5 DEF IInv, StagesOfKind
  <2> QED
    BY <2>3, <2>4, <2>5
<1> QED
  BY <1>1, <1>2, <1>3, <1>5 DEF IInv, StagesOfKind

\* A step of a verification keeps the invariant if it goes on, writes a row past
\* pending or enters a domain only with the record seen, and leaves the job alone
\* or ends it with an attempt left for the next one.
LEMMA LookKeeps ==
  ASSUME IInv, NEW t \in Task, NEW s \in {"idle"} \cup Middle, NEW v \in Verification,
         t[2] = v, pc[t] \in Middle,
         pc' = [pc EXCEPT ![t] = s],
         t[1] = "verify" => s \in {"idle", "found", "proved", "giving"},
         s \notin {"idle", "found", "missed"} => v \in published,
         NEW r \in Row, SetRow(v, r) \/ UNCHANGED row,
         r \in Past => v \in published,
         \/ UNCHANGED custom
         \/ v \in published /\ custom' = [custom EXCEPT ![Owner[v]] = Name[v]],
         \/ UNCHANGED <<job, made>> /\ (t[1] = "job" => s # "idle")
         \/ /\ t[1] = "job" /\ s = "idle"
            /\ job'[v] \in {"waiting", "completed", "failed"}
            /\ job' = [job EXCEPT ![v] = job'[v]]
            /\ made'[v] \in 0 .. Attempts
            /\ made' = [made EXCEPT ![v] = made'[v]]
            /\ job'[v] = "waiting" => made'[v] < Attempts,
         faults' \in 0 .. MaxFaults, asked' \in 0 .. MaxRequests,
         stalled' \in [Verification -> BOOLEAN],
         UNCHANGED <<published, caught>>
  PROVE  IInv'
<1>1. /\ pc' \in [Task -> Stage]
      /\ StagesOfKind'
      /\ t[1] \in {"job", "verify"} /\ t = <<t[1], v>>
      /\ \A w \in Verification : pc'[<<"add", w>>] = pc[<<"add", w>>]
  BY LookMovesOneTask
<1>2. /\ row' \in [Verification -> Row \cup {"none", "removed"}]
      /\ \A w \in Verification : /\ w # v => row'[w] = row[w]
                                 /\ row'[w] = "none" <=> row[w] = "none"
                                 /\ row'[w] \in Row <=> row[w] \in Row
                                 /\ row'[w] # row[w] => w = v /\ row'[w] = r
  BY DEF IInv, TypeOK, SetRow, Stored, Row, Past, Pending
<1>3. /\ job' \in [Verification -> {"none", "waiting", "active", "completed", "failed"}]
      /\ made' \in [Verification -> 0 .. Attempts]
      /\ \A w \in Verification : w # v => job'[w] = job[w] /\ made'[w] = made[w]
  BY DEF IInv, TypeOK
<1>4. TypeOK'
  <2>1. custom' \in [Store -> Domain \cup {NoDomain}]
    BY DomainAssumption DEF IInv, TypeOK
  <2> QED
    BY <1>1, <1>2, <1>3, <2>1 DEF IInv, TypeOK
<1>5. /\ pc'[t] = s
      /\ \A u \in Task : u # t => pc'[u] = pc[u]
  BY DEF IInv, TypeOK
<1>6. MadeByRequest'
  <2>1. t[1] = "job" => job[v] = "active"
    BY <1>1 DEF IInv, JobIsActive, Middle, Looking
  <2> SUFFICES ASSUME NEW w \in Verification
               PROVE  /\ pc'[<<"add", w>>] \in {"idle", "free", "refused"} => row'[w] = "none"
                      /\ pc'[<<"add", w>>] \in {"idle", "free", "created"} => job'[w] = "none"
    BY DEF MadeByRequest
  <2> QED
    BY <1>1, <1>2, <1>3, <2>1 DEF IInv, MadeByRequest
<1>7. JobIsActive'
  <2> SUFFICES ASSUME NEW w \in Verification
               PROVE  /\ pc'[<<"job", w>>] # "idle" <=> job'[w] = "active"
                      /\ job'[w] \in {"none", "waiting", "active"} => made'[w] < Attempts
    BY DEF JobIsActive
  <2>0. <<"job", w>> \in Task
    BY DEF Task
  <2>1. CASE t = <<"job", w>>
    <3>1. t[1] = "job" /\ w = v
      BY <2>1
    <3>2. pc[t] # "idle"
      BY DEF Middle, Looking
    <3> QED
      BY <1>5, <2>1, <3>1, <3>2 DEF IInv, JobIsActive
  <2>2. CASE t # <<"job", w>>
    <3>1. pc'[<<"job", w>>] = pc[<<"job", w>>]
      BY <1>5, <2>0, <2>2
    <3>2. job'[w] = job[w] /\ made'[w] = made[w]
      BY <1>1, <1>3, <2>2
    <3> QED
      BY <3>1, <3>2 DEF IInv, JobIsActive
  <2> QED
    BY <2>1, <2>2
<1>8. SeenIsPublished'
  BY <1>5 DEF IInv, SeenIsPublished, Looking
<1>9. OnlyProvedGoesLive'
  <2>1. ASSUME NEW w \in Verification, row'[w] \in Past
        PROVE  w \in published'
    BY <1>2, <2>1 DEF IInv, OnlyProvedGoesLive
  <2>2. ASSUME NEW x \in Store, custom'[x] # NoDomain
        PROVE  \E w \in published' : Owner[w] = x /\ Name[w] = custom'[x]
    BY <2>2 DEF IInv, TypeOK, OnlyProvedGoesLive
  <2> QED
    BY <2>1, <2>2 DEF OnlyProvedGoesLive
<1>10. OneRowPerDomain'
  BY <1>2 DEF IInv, OneRowPerDomain, Stored
<1> QED
  BY <1>4, <1>1, <1>6, <1>7, <1>8, <1>9, <1>10 DEF IInv

\* What is known of a task in the middle of a verification.
LEMMA InTheMiddle ==
  ASSUME IInv, NEW t \in Task, pc[t] \in Middle
  PROVE  /\ t[2] \in Verification /\ t[1] \in {"job", "verify"} /\ t = <<t[1], t[2]>>
         /\ t[1] = "verify" => pc[t] \in {"found", "proved", "giving"}
         /\ t[1] = "job" => job[t[2]] = "active" /\ made[t[2]] < Attempts
         /\ pc[t] \notin {"found", "missed"} => t[2] \in published
<1>1. t[1] \in {"add", "job", "verify", "remove"} /\ t[2] \in Verification /\ t = <<t[1], t[2]>>
  BY DEF Task
<1>2. t[1] \in {"job", "verify"} /\ (t[1] = "verify" => pc[t] \in {"found", "proved", "giving"})
  BY <1>1 DEF IInv, StagesOfKind, Middle, Looking, AddStage, RemoveStage
<1>3. t[1] = "job" => job[t[2]] = "active" /\ made[t[2]] < Attempts
  BY <1>1 DEF IInv, JobIsActive, Middle, Looking
<1>4. pc[t] \notin {"found", "missed"} => t[2] \in published
  BY DEF IInv, SeenIsPublished, Middle, Looking
<1> QED
  BY <1>1, <1>2, <1>3, <1>4

\* How a job that throws is left.
LEMMA ThrowEndsJob ==
  ASSUME IInv, NEW v \in Verification, made[v] < Attempts, Throw(v)
  PROVE  /\ job'[v] \in {"waiting", "failed"} /\ job' = [job EXCEPT ![v] = job'[v]]
         /\ made'[v] \in 0 .. Attempts /\ made' = [made EXCEPT ![v] = made'[v]]
         /\ job'[v] = "waiting" => made'[v] < Attempts
         /\ pc' = [pc EXCEPT ![<<"job", v>>] = "idle"]
<1>1. made[v] \in 0 .. Attempts /\ Attempts \in Nat
  BY DomainAssumption DEF IInv, TypeOK
<1> QED
  BY <1>1 DEF Throw, Goto, IInv, TypeOK

LEMMA EndLookGoesOn ==
  ASSUME IInv, NEW t \in Task, pc[t] \in Looking \ {"found"}, EndLook(t), UNCHANGED made
  PROVE  \E s \in {"idle", "waited"} :
           /\ pc' = [pc EXCEPT ![t] = s]
           /\ t[1] = "verify" => s = "idle"
           /\ \/ UNCHANGED <<job, made>> /\ (t[1] = "job" => s # "idle")
              \/ /\ t[1] = "job" /\ s = "idle"
                 /\ job'[t[2]] = "completed" /\ job' = [job EXCEPT ![t[2]] = job'[t[2]]]
                 /\ made'[t[2]] \in 0 .. Attempts /\ made' = [made EXCEPT ![t[2]] = made'[t[2]]]
<1>1. t[2] \in Verification /\ t[1] \in {"job", "verify"}
  BY InTheMiddle DEF Middle
<1>2. made' = [made EXCEPT ![t[2]] = made'[t[2]]] /\ made'[t[2]] \in 0 .. Attempts
  BY <1>1 DEF IInv, TypeOK
<1>3. CASE t[1] = "job" /\ pc[t] \in {"proved", "giving"}
  BY <1>3 DEF EndLook, Goto
<1>4. CASE t[1] = "job" /\ pc[t] \notin {"proved", "giving"}
  BY <1>1, <1>2, <1>4 DEF EndLook, Goto, IInv, TypeOK
<1>5. CASE t[1] # "job"
  BY <1>5 DEF EndLook, Goto
<1> QED
  BY <1>3, <1>4, <1>5

LEMMA LookStepKeeps ==
  ASSUME IInv, NEW t \in Task, LookStep(t) \/ CatchError(t)
  PROVE  IInv'
<1>0. /\ pc[t] \in Middle
      /\ asked' \in 0 .. MaxRequests /\ faults' \in 0 .. MaxFaults
      /\ stalled' \in [Verification -> BOOLEAN]
      /\ UNCHANGED <<published, caught>>
  <2>1. /\ asked \in 0 .. MaxRequests /\ faults \in 0 .. MaxFaults
        /\ stalled \in [Verification -> BOOLEAN]
    BY DEF IInv, TypeOK
  <2>2. CASE CatchError(t)
    <3>1. faults < MaxFaults /\ faults' = faults + 1 /\ MaxFaults \in Nat
      BY <2>2, DomainAssumption DEF CatchError
    <3>2. pc[t] \in Middle /\ UNCHANGED <<asked, stalled, published, caught>>
      BY <2>2 DEF CatchError, Middle, Looking
    <3> QED
      BY <2>1, <3>1, <3>2
  <2>3. CASE LookStep(t)
    BY <2>1, <2>3 DEF LookStep, ProveDns, MissDns, MarkFailed, MarkLive, MarkProvisioning, Give,
                      Middle, Looking
  <2> QED
    BY <2>2, <2>3
<1>1. /\ t[2] \in Verification /\ t[1] \in {"job", "verify"} /\ t = <<t[1], t[2]>>
      /\ t[1] = "verify" => pc[t] \in {"found", "proved", "giving"}
      /\ t[1] = "job" => job[t[2]] = "active" /\ made[t[2]] < Attempts
      /\ pc[t] \notin {"found", "missed"} => t[2] \in published
  BY <1>0, InTheMiddle
<1>2. {"dns_verified", "live", "ssl_provisioning", "failed"} \subseteq Row
  BY DEF Row, Past
<1>3. CASE ProveDns(t)
  <2>1. /\ pc' = [pc EXCEPT ![t] = "proved"] /\ t[2] \in published
        /\ SetRow(t[2], "dns_verified") /\ UNCHANGED <<custom, job, made>>
    BY <1>3 DEF ProveDns, Goto
  <2>2. "proved" \in {"idle"} \cup Middle /\ "dns_verified" \in Row
    BY <1>2 DEF Middle, Looking
  <2>3. UNCHANGED <<job, made>> /\ (t[1] = "job" => "proved" # "idle")
    BY <2>1
  <2> QED
    BY <1>0, <1>1, <2>1, <2>2, <2>3, LookKeeps
<1>4. CASE MissDns(t)
  <2>1. "failed" \notin Past /\ "missed" \in Middle /\ UNCHANGED <<row, custom, made>>
    BY <1>4 DEF MissDns, Past, Middle
  <2>2. CASE t[1] = "job" /\ made[t[2]] < Attempts - 1
    <3>1. ~(made[t[2]] >= Attempts - 1)
      BY <1>1, <2>2, DomainAssumption DEF IInv, TypeOK
    <3>2. /\ pc' = [pc EXCEPT ![t] = "idle"]
          /\ job' = [job EXCEPT ![t[2]] = "completed"]
      BY <1>4, <2>2, <3>1 DEF MissDns, Goto
    <3>3. /\ job' = [job EXCEPT ![t[2]] = job'[t[2]]] /\ job'[t[2]] = "completed"
          /\ made' = [made EXCEPT ![t[2]] = made'[t[2]]] /\ made'[t[2]] \in 0 .. Attempts
      BY <1>1, <2>1, <3>2 DEF IInv, TypeOK
    <3> QED
      BY <1>0, <1>1, <1>2, <2>1, <2>2, <3>2, <3>3, LookKeeps
  <2>3. CASE t[1] = "job" /\ ~(made[t[2]] < Attempts - 1)
    <3>1. made[t[2]] >= Attempts - 1
      BY <1>1, <2>3, DomainAssumption DEF IInv, TypeOK
    <3>2. pc' = [pc EXCEPT ![t] = "missed"] /\ UNCHANGED <<job, made>>
      BY <1>4, <2>1, <2>3, <3>1 DEF MissDns, Goto
    <3>3. /\ UNCHANGED <<job, made>> /\ (t[1] = "job" => "missed" # "idle")
          /\ t[1] # "verify" /\ "missed" \in {"idle"} \cup Middle
      BY <2>1, <2>3, <3>2
    <3> QED
      BY <1>0, <1>1, <1>2, <2>1, <2>3, <3>2, <3>3, LookKeeps
  <2>4. CASE t[1] # "job"
    <3>1. pc' = [pc EXCEPT ![t] = "idle"] /\ UNCHANGED job
      BY <1>4, <2>4 DEF MissDns, Goto
    <3> QED
      BY <1>0, <1>1, <1>2, <2>1, <2>4, <3>1, LookKeeps
  <2> QED
    BY <2>2, <2>3, <2>4
<1>9. CASE MarkFailed(t)
  <2>1. /\ pc' = [pc EXCEPT ![t] = "idle"] /\ SetRow(t[2], "failed")
        /\ job' = [job EXCEPT ![t[2]] = "completed"] /\ UNCHANGED <<custom, made>>
        /\ t[1] = "job"
    BY <1>1, <1>9 DEF MarkFailed, Goto
  <2>2. "failed" \notin Past
    BY DEF Past
  <2>3. /\ job' = [job EXCEPT ![t[2]] = job'[t[2]]] /\ job'[t[2]] = "completed"
        /\ made' = [made EXCEPT ![t[2]] = made'[t[2]]] /\ made'[t[2]] \in 0 .. Attempts
    BY <1>1, <2>1 DEF IInv, TypeOK
  <2> QED
    BY <1>0, <1>1, <1>2, <2>1, <2>2, <2>3, LookKeeps
<1>5. CASE MarkLive(t)
  <2>1. PICK s \in {"giving", "giving again"} :
          /\ pc' = [pc EXCEPT ![t] = s] /\ (t[1] = "verify" => s = "giving")
    BY <1>1, <1>5 DEF MarkLive, Goto
  <2>2. SetRow(t[2], "live") /\ UNCHANGED <<custom, job, made>> /\ pc[t] \notin {"found", "missed"}
    BY <1>5 DEF MarkLive
  <2> QED
    BY <1>0, <1>1, <1>2, <2>1, <2>2, LookKeeps DEF Middle, Looking
<1>6. CASE MarkProvisioning(t)
  <2>1. SetRow(t[2], "ssl_provisioning") /\ UNCHANGED custom /\ pc[t] \in Looking \ {"found"}
    BY <1>6 DEF MarkProvisioning, Looking
  <2>2. CASE pc[t] = "waited"
    <3>1. t[1] = "job" /\ t = <<"job", t[2]>>
      BY <1>1, <2>2
    <3>2. Throw(t[2])
      BY <1>6, <2>2 DEF MarkProvisioning
    <3>3. /\ job'[t[2]] \in {"waiting", "failed"} /\ job' = [job EXCEPT ![t[2]] = job'[t[2]]]
          /\ made'[t[2]] \in 0 .. Attempts /\ made' = [made EXCEPT ![t[2]] = made'[t[2]]]
          /\ job'[t[2]] = "waiting" => made'[t[2]] < Attempts
          /\ pc' = [pc EXCEPT ![<<"job", t[2]>>] = "idle"]
      BY <1>1, <3>1, <3>2, ThrowEndsJob
    <3>4. pc' = [pc EXCEPT ![t] = "idle"]
      BY <3>1, <3>3
    <3> QED
      BY <1>0, <1>1, <1>2, <2>1, <2>2, <3>1, <3>3, <3>4, LookKeeps
  <2>3. CASE pc[t] # "waited"
    <3>1. EndLook(t) /\ UNCHANGED made
      BY <1>6, <2>3 DEF MarkProvisioning
    <3>2. PICK s \in {"idle", "waited"} :
            /\ pc' = [pc EXCEPT ![t] = s]
            /\ t[1] = "verify" => s = "idle"
            /\ \/ UNCHANGED <<job, made>> /\ (t[1] = "job" => s # "idle")
               \/ /\ t[1] = "job" /\ s = "idle"
                  /\ job'[t[2]] = "completed" /\ job' = [job EXCEPT ![t[2]] = job'[t[2]]]
                  /\ made'[t[2]] \in 0 .. Attempts /\ made' = [made EXCEPT ![t[2]] = made'[t[2]]]
      BY <2>1, <3>1, EndLookGoesOn
    <3>3. s \in {"idle"} \cup Middle /\ "missed" \notin Looking
      BY DEF Middle, Looking
    <3> QED
      BY <1>0, <1>1, <1>2, <2>1, <3>2, <3>3, LookKeeps
  <2> QED
    BY <2>2, <2>3
<1>7. CASE Give(t)
  <2>1. /\ pc[t] \in Looking \ {"found"} /\ EndLook(t) /\ UNCHANGED <<made, row>>
        /\ \/ UNCHANGED custom
           \/ custom' = [custom EXCEPT ![Owner[t[2]]] = Name[t[2]]]
    BY <1>7 DEF Give, Looking
  <2>2. PICK s \in {"idle", "waited"} :
          /\ pc' = [pc EXCEPT ![t] = s]
          /\ t[1] = "verify" => s = "idle"
          /\ \/ UNCHANGED <<job, made>> /\ (t[1] = "job" => s # "idle")
             \/ /\ t[1] = "job" /\ s = "idle"
                /\ job'[t[2]] = "completed" /\ job' = [job EXCEPT ![t[2]] = job'[t[2]]]
                /\ made'[t[2]] \in 0 .. Attempts /\ made' = [made EXCEPT ![t[2]] = made'[t[2]]]
    BY <2>1, EndLookGoesOn
  <2>3. s \in {"idle"} \cup Middle /\ "missed" \notin Looking
    BY DEF Middle, Looking
  <2> QED
    BY <1>0, <1>1, <1>2, <2>1, <2>2, <2>3, LookKeeps
<1>8. CASE CatchError(t)
  <2>1. pc[t] \in Looking \ {"found"} /\ EndLook(t) /\ UNCHANGED <<made, row, custom>>
    BY <1>8 DEF CatchError, Looking
  <2>2. PICK s \in {"idle", "waited"} :
          /\ pc' = [pc EXCEPT ![t] = s]
          /\ t[1] = "verify" => s = "idle"
          /\ \/ UNCHANGED <<job, made>> /\ (t[1] = "job" => s # "idle")
             \/ /\ t[1] = "job" /\ s = "idle"
                /\ job'[t[2]] = "completed" /\ job' = [job EXCEPT ![t[2]] = job'[t[2]]]
                /\ made'[t[2]] \in 0 .. Attempts /\ made' = [made EXCEPT ![t[2]] = made'[t[2]]]
    BY <2>1, EndLookGoesOn
  <2>3. s \in {"idle"} \cup Middle /\ "missed" \notin Looking
    BY DEF Middle, Looking
  <2> QED
    BY <1>0, <1>1, <1>2, <2>1, <2>2, <2>3, LookKeeps
<1> QED
  BY <1>3, <1>4, <1>5, <1>6, <1>7, <1>8, <1>9 DEF LookStep

\* The steps that begin a verification.
LEMMA BeginKeeps ==
  ASSUME IInv, NEW v \in Verification, Look(v) \/ TakeJob(v)
  PROVE  IInv'
<1> USE DEF Goto
<1>1. PICK k \in {"verify", "job"} :
        \/ k = "job" /\ UNCHANGED pc
        \/ pc' = [pc EXCEPT ![<<k, v>>] = "found"] /\ (k = "verify" => UNCHANGED job)
  BY DEF Look, TakeJob
<1>2. \A w \in Verification : \A j \in {"add", "job", "verify", "remove"} : <<j, w>> \in Task
  BY DEF Task
<1>3. /\ asked' \in 0 .. MaxRequests
      /\ UNCHANGED <<row, custom, published, made, stalled, faults, caught>>
      /\ job' \in [Verification -> {"none", "waiting", "active", "completed", "failed"}]
  BY DomainAssumption DEF Look, TakeJob, Ask, IInv, TypeOK
<1>4. pc' \in [Task -> Stage]
  BY <1>1 DEF IInv, TypeOK, Stage
<1>5. TypeOK'
  BY <1>3, <1>4 DEF IInv, TypeOK
<1>6. \A t \in Task : pc'[t] = pc[t] \/ (t = <<k, v>> /\ pc'[t] = "found")
  BY <1>1 DEF IInv, TypeOK
<1>7. StagesOfKind'
  BY <1>2, <1>6 DEF IInv, StagesOfKind, Middle, Looking
<1>8. MadeByRequest' /\ JobIsActive'
  <2> SUFFICES ASSUME NEW w \in Verification
               PROVE  /\ pc'[<<"add", w>>] \in {"idle", "free", "refused"} => row'[w] = "none"
                      /\ pc'[<<"add", w>>] \in {"idle", "free", "created"} => job'[w] = "none"
                      /\ pc'[<<"job", w>>] # "idle" <=> job'[w] = "active"
                      /\ job'[w] \in {"none", "waiting", "active"} => made'[w] < Attempts
    BY DEF MadeByRequest, JobIsActive
  <2>1. pc'[<<"add", w>>] = pc[<<"add", w>>]
    BY <1>2, <1>6
  <2>2. CASE Look(v)
    <3>1. pc' = [pc EXCEPT ![<<"verify", v>>] = "found"] /\ UNCHANGED job
      BY <2>2 DEF Look
    <3>2. pc'[<<"job", w>>] = pc[<<"job", w>>]
      BY <1>2, <3>1 DEF IInv, TypeOK
    <3> QED
      BY <1>3, <2>1, <3>1, <3>2 DEF IInv, MadeByRequest, JobIsActive
  <2>3. CASE TakeJob(v)
    <3>1. job[v] = "waiting"
      BY <2>3 DEF TakeJob
    <3>2. CASE row[v] = Pending
      <4>1. job' = [job EXCEPT ![v] = "active"] /\ pc' = [pc EXCEPT ![<<"job", v>>] = "found"]
        BY <2>3, <3>2 DEF TakeJob
      <4>2. pc'[<<"job", w>>] = IF w = v THEN "found" ELSE pc[<<"job", w>>]
        BY <1>2, <4>1 DEF IInv, TypeOK
      <4> QED
        BY <1>3, <2>1, <3>1, <4>1, <4>2 DEF IInv, TypeOK, MadeByRequest, JobIsActive
    <3>3. CASE row[v] # Pending
      <4>1. job' = [job EXCEPT ![v] = "completed"] /\ UNCHANGED pc
        BY <2>3, <3>3 DEF TakeJob
      <4> QED
        BY <1>3, <2>1, <3>1, <4>1 DEF IInv, TypeOK, MadeByRequest, JobIsActive
    <3> QED
      BY <3>2, <3>3
  <2> QED
    BY <2>2, <2>3
<1>9. SeenIsPublished'
  BY <1>3, <1>6 DEF IInv, SeenIsPublished, Looking
<1>10. OnlyProvedGoesLive' /\ OneRowPerDomain'
  BY <1>3 DEF IInv, OnlyProvedGoesLive, OneRowPerDomain, Stored
<1> QED
  BY <1>5, <1>7, <1>8, <1>9, <1>10 DEF IInv

\* The steps of a removal, and requests cut short outside of a verification.
LEMMA RemoveKeeps ==
  ASSUME IInv, NEW v \in Verification, NEW k \in {"add", "remove"},
         \/ k = "remove" /\ (DeleteRow(v) \/ ReadStore(v) \/ ClearStore(v))
         \/ Cut(<<k, v>>)
  PROVE  IInv'
<1>1. \A w \in Verification : \A j \in {"add", "job", "verify", "remove"} : <<j, w>> \in Task
  BY DEF Task
<1>2. PICK s \in {"deleted", "clearing", "done", "cut"} :
        /\ pc' = [pc EXCEPT ![<<k, v>>] = s]
        /\ k = "add" => s = "cut"
        /\ UNCHANGED <<published, job, made, stalled>>
  BY DEF DeleteRow, ReadStore, ClearStore, Cut, Goto
<1>3. /\ asked' \in 0 .. MaxRequests /\ faults' \in 0 .. MaxFaults
      /\ caught' \subseteq Verification
  BY DomainAssumption DEF DeleteRow, ReadStore, ClearStore, Cut, Ask, IInv, TypeOK
<1>4. UNCHANGED row \/ (row' = [row EXCEPT ![v] = "removed"] /\ Stored(v))
  BY DEF DeleteRow, ReadStore, ClearStore, Cut
<1>5. UNCHANGED custom \/ custom' = [custom EXCEPT ![Owner[v]] = NoDomain]
  BY DEF DeleteRow, ReadStore, ClearStore, Cut
<1>6. \A t \in Task : pc'[t] = IF t = <<k, v>> THEN s ELSE pc[t]
  BY <1>2 DEF IInv, TypeOK
<1>7. TypeOK'
  <2>1. pc' \in [Task -> Stage]
    BY <1>2 DEF IInv, TypeOK, Stage
  <2> QED
    BY <1>2, <1>3, <1>4, <1>5, <2>1 DEF IInv, TypeOK
<1>8. StagesOfKind'
  <2>1. ASSUME NEW w \in Verification, NEW j \in {"add", "job", "verify", "remove"},
               j # k \/ w # v
        PROVE  pc'[<<j, w>>] = pc[<<j, w>>]
    BY <1>1, <1>6, <2>1
  <2>2. pc'[<<k, v>>] = s
    BY <1>1, <1>6
  <2>3. \A w \in Verification :
          /\ pc'[<<"job", w>>] = pc[<<"job", w>>] /\ pc'[<<"verify", w>>] = pc[<<"verify", w>>]
    BY <2>1
  <2>4. \A w \in Verification : pc'[<<"add", w>>] \in AddStage
    BY <1>2, <2>1, <2>2 DEF IInv, StagesOfKind, AddStage
  <2>5. \A w \in Verification : pc'[<<"remove", w>>] \in RemoveStage
    BY <2>1, <2>2 DEF IInv, StagesOfKind, RemoveStage
  <2> QED
    BY <2>3, <2>4, <2>5 DEF IInv, StagesOfKind
<1>9. MadeByRequest'
  BY <1>1, <1>2, <1>4, <1>6 DEF IInv, TypeOK, MadeByRequest, Stored, Row, Past, Pending
<1>10. JobIsActive'
  BY <1>1, <1>2, <1>6 DEF IInv, JobIsActive
<1>11. SeenIsPublished'
  BY <1>2, <1>6 DEF IInv, SeenIsPublished, Looking
<1>12. OnlyProvedGoesLive' /\ OneRowPerDomain'
  BY <1>2, <1>4, <1>5 DEF IInv, TypeOK, OnlyProvedGoesLive, OneRowPerDomain, Stored, Row, Past, Pending
<1> QED
  BY <1>7, <1>8, <1>9, <1>10, <1>11, <1>12 DEF IInv

\* A job that fails, a worker that dies, a verification cut short.
LEMMA BreakOffKeeps ==
  ASSUME IInv, NEW v \in Verification, JobFails(v) \/ Stall(v) \/ Cut(<<"verify", v>>)
  PROVE  IInv'
<1>1. faults' \in 0 .. MaxFaults /\ asked' \in 0 .. MaxRequests
  <2>1. faults' = faults + 1 /\ faults < MaxFaults /\ MaxFaults \in Nat /\ UNCHANGED asked
    BY DomainAssumption DEF JobFails, Stall, Cut
  <2> QED
    BY <2>1 DEF IInv, TypeOK
<1>2. /\ UNCHANGED <<row, custom, published, caught>>
      /\ stalled' \in [Verification -> BOOLEAN]
  BY DEF JobFails, Stall, Cut, IInv, TypeOK
<1>3. "failed" \in Row /\ "failed" \notin Past
  BY DEF Row, Past
<1>4. CASE Cut(<<"verify", v>>)
  <2> DEFINE t == <<"verify", v>>
  <2>1. t \in Task /\ t[1] = "verify" /\ t[2] = v
    BY DEF Task
  <2>2. pc[t] \in Middle /\ pc' = [pc EXCEPT ![t] = "idle"] /\ UNCHANGED <<job, made>>
    BY <1>4 DEF Cut, Goto, IInv, StagesOfKind, Middle, Looking
  <2> HIDE DEF t
  <2> QED
    BY <1>1, <1>2, <1>3, <2>1, <2>2, LookKeeps
<1>5. CASE JobFails(v) \/ Stall(v)
  <2> DEFINE t == <<"job", v>>
  <2>1. t \in Task /\ t[1] = "job" /\ t[2] = v
    BY DEF Task
  <2>2. job[v] = "active" /\ made[v] < Attempts /\ pc[t] \in Middle
    BY <1>5 DEF JobFails, Stall, IInv, StagesOfKind, JobIsActive
  <2>3. /\ job'[v] \in {"waiting", "failed"} /\ job' = [job EXCEPT ![v] = job'[v]]
        /\ made'[v] \in 0 .. Attempts /\ made' = [made EXCEPT ![v] = made'[v]]
        /\ job'[v] = "waiting" => made'[v] < Attempts
        /\ pc' = [pc EXCEPT ![t] = "idle"]
    <3>1. CASE JobFails(v)
      BY <2>2, <3>1, ThrowEndsJob DEF JobFails
    <3>2. CASE Stall(v)
      BY <2>2, <3>2 DEF Stall, Goto, IInv, TypeOK
    <3> QED
      BY <1>5, <3>1, <3>2
  <2> HIDE DEF t
  <2> QED
    BY <1>1, <1>2, <1>3, <2>1, <2>2, <2>3, LookKeeps
<1> QED
  BY <1>4, <1>5

LEMMA StepKeeps == IInv /\ [Next]_vars => IInv'
<1> SUFFICES ASSUME IInv, [Next]_vars PROVE IInv'
  OBVIOUS
<1>1. CASE UNCHANGED vars
  BY <1>1 DEF vars, IInv, TypeOK, StagesOfKind, MadeByRequest, JobIsActive, SeenIsPublished,
              OnlyProvedGoesLive, OneRowPerDomain, Stored
<1>2. ASSUME NEW v \in Verification, CheckFree(v) \/ CreateRow(v) \/ EnqueueJob(v)
      PROVE  IInv'
  BY <1>2, AddKeeps
<1>3. ASSUME NEW v \in Verification, Look(v) \/ TakeJob(v)
      PROVE  IInv'
  BY <1>3, BeginKeeps
<1>4. ASSUME NEW v \in Verification, DeleteRow(v) \/ ReadStore(v) \/ ClearStore(v)
      PROVE  IInv'
  BY <1>4, RemoveKeeps
<1>5. ASSUME NEW v \in Verification, Publish(v)
      PROVE  IInv'
  BY <1>5 DEF Publish, IInv, TypeOK, StagesOfKind, MadeByRequest, JobIsActive, SeenIsPublished,
              OnlyProvedGoesLive, OneRowPerDomain, Stored
<1>6. ASSUME NEW v \in Verification, JobFails(v) \/ Stall(v)
      PROVE  IInv'
  BY <1>6, BreakOffKeeps
<1>7. ASSUME NEW t \in Task, LookStep(t) \/ CatchError(t)
      PROVE  IInv'
  BY <1>7, LookStepKeeps
<1>8. ASSUME NEW t \in Task, Cut(t)
      PROVE  IInv'
  <2>1. PICK k \in {"add", "verify", "remove"}, v \in Verification : t = <<k, v>>
    BY <1>8 DEF Task, Cut
  <2> QED
    BY <1>8, <2>1, BreakOffKeeps, RemoveKeeps
<1> QED
  BY <1>1, <1>2, <1>3, <1>4, <1>5, <1>6, <1>7, <1>8 DEF Next

\* Every variable has its type in every reachable state.
THEOREM TypeCorrect == Spec => []TypeOK
<1>1. IInv => TypeOK
  BY DEF IInv
<1> QED
  BY InitEstablishes, StepKeeps, <1>1, PTL DEF Spec

\* A domain goes live with the record of its own row only, and a store has only
\* domains it proved (verifyCustomDomain, processDomainVerification).
THEOREM ProvedBeforeLive == Spec => []OnlyProvedGoesLive
<1>1. IInv => OnlyProvedGoesLive
  BY DEF IInv
<1> QED
  BY InitEstablishes, StepKeeps, <1>1, PTL DEF Spec

-----------------------------------------------------------------------------
\* A store's domain and the rows for it

\* What a removal leaves behind.
GoneIsRemoved ==
  \A v \in Verification :
    v \in caught \/ pc[<<"remove", v>>] # "idle" => row[v] = "removed"

\* A verification began with a row, which is gone only if it was caught.
LookHasRow ==
  \A v \in Verification : Verifying(v) => Stored(v) \/ v \in caught

\* A removal that read its domain in the store's row read one that was proved.
ClearingWasProved ==
  \A v \in Verification : pc[<<"remove", v>>] = "clearing" =>
    \E w \in published : Owner[w] = Owner[v] /\ Name[w] = Name[v]

Giving(v) == \E k \in {"job", "verify"} : pc[<<k, v>>] \in {"giving", "giving again"}

\* The store has the domain, or the reason why not is one LiveIsServed grants.
Served(v) ==
  \/ custom[Owner[v]] = Name[v]
  \/ faults > 0
  \/ \E w \in published : Owner[w] = Owner[v] /\ Name[w] # Name[v]
  \/ \E w \in Verification : Name[w] = Name[v] /\ row[w] = "removed"

LiveOrGiving ==
  \A v \in Verification : row[v] = "live" => Served(v) \/ Giving(v)

StoreInv ==
  GoneIsRemoved /\ LookHasRow /\ CustomNeedsRow /\ ClearingWasProved /\ LiveOrGiving

\* Why the store may have the domain of v.
Excused(v) ==
  Stored(v) \/ v \in caught \/ pc[<<"remove", v>>] \in {"deleted", "clearing", "cut"}

\* A step that writes no store's row: it may move a removal on, write a live
\* row's status only by giving the domain, and begin a verification of a row only.
LEMMA QuietKeeps ==
  ASSUME IInv, StoreInv, UNCHANGED <<custom, caught>>,
         published \subseteq published', faults > 0 => faults' > 0,
         \A v \in Verification : /\ Stored(v) => Stored(v)'
                                 /\ row[v] = "removed" => row'[v] = "removed",
         \A v \in Verification :
           \/ pc'[<<"remove", v>>] = pc[<<"remove", v>>]
           \/ pc[<<"remove", v>>] # "idle" /\ pc'[<<"remove", v>>] = "cut"
           \/ ReadStore(v),
         \A v \in Verification : Verifying(v)' => Verifying(v) \/ Stored(v),
         \A v \in Verification : row'[v] = "live" =>
           faults' > 0 \/ Giving(v)' \/ (row[v] = "live" /\ ~Giving(v))
  PROVE  StoreInv'
<1>0. ASSUME NEW v \in Verification, ReadStore(v)
      PROVE  /\ pc[<<"remove", v>>] = "deleted"
             /\ \/ pc'[<<"remove", v>>] = "clearing" /\ custom[Owner[v]] = Name[v]
                \/ pc'[<<"remove", v>>] = "done" /\ custom[Owner[v]] # Name[v]
  <2>1. <<"remove", v>> \in Task
    BY DEF Task
  <2> QED
    BY <1>0, <2>1 DEF ReadStore, Goto, IInv, TypeOK
<1>1. GoneIsRemoved'
  BY <1>0 DEF StoreInv, GoneIsRemoved
<1>2. LookHasRow'
  BY DEF StoreInv, LookHasRow
<1>3. CustomNeedsRow'
  <2> SUFFICES ASSUME NEW s \in Store, custom'[s] # NoDomain
               PROVE  \E v \in Verification : Owner[v] = s /\ Name[v] = custom'[s] /\ Excused(v)'
    BY DEF CustomNeedsRow, Excused
  <2>1. PICK v \in Verification : Owner[v] = s /\ Name[v] = custom[s] /\ Excused(v)
    BY DEF StoreInv, CustomNeedsRow, Excused
  <2>2. Excused(v)'
    BY <1>0, <2>1 DEF Excused
  <2> QED
    BY <2>1, <2>2
<1>4. ClearingWasProved'
  <2> SUFFICES ASSUME NEW v \in Verification, pc'[<<"remove", v>>] = "clearing"
               PROVE  \E w \in published' : Owner[w] = Owner[v] /\ Name[w] = Name[v]
    BY DEF ClearingWasProved
  <2>1. CASE ReadStore(v)
    <3>1. custom[Owner[v]] = Name[v] /\ Owner[v] \in Store /\ Name[v] # NoDomain
      BY <1>0, <2>1, DomainAssumption
    <3> QED
      BY <3>1 DEF IInv, OnlyProvedGoesLive
  <2>2. CASE ~ReadStore(v)
    BY <2>2 DEF StoreInv, ClearingWasProved
  <2> QED
    BY <2>1, <2>2
<1>5. LiveOrGiving'
  <2> SUFFICES ASSUME NEW v \in Verification, row'[v] = "live", ~Giving(v)'
               PROVE  Served(v)'
    BY DEF LiveOrGiving
  <2>1. CASE faults' > 0
    BY <2>1 DEF Served
  <2>2. CASE Served(v)
    BY <2>2 DEF Served
  <2> QED
    BY <2>1, <2>2 DEF StoreInv, LiveOrGiving
<1> QED
  BY <1>1, <1>2, <1>3, <1>4, <1>5 DEF StoreInv

\* Verifying and Giving look at two tasks of the row.
LEMMA VerifyingIsLooking ==
  \A v \in Verification :
    Verifying(v) <=> pc[<<"job", v>>] \in Looking \/ pc[<<"verify", v>>] \in Looking
BY DEF Verifying, Looking

\* A task is of one row.
LEMMA OtherRowOtherTask ==
  \A t, k, w : w # t[2] => <<k, w>> # t
OBVIOUS

\* A step of one task in the middle of a verification leaves the rest alone.
LEMMA OneTaskMoves ==
  ASSUME IInv, NEW t \in Task, NEW s \in Stage, pc' = [pc EXCEPT ![t] = s],
         t[1] \in {"job", "verify"}
  PROVE  /\ pc'[t] = s /\ t[2] \in Verification /\ t = <<t[1], t[2]>>
         /\ \A v \in Verification : pc'[<<"remove", v>>] = pc[<<"remove", v>>]
         /\ \A v \in Verification, k \in {"job", "verify"} :
              <<k, v>> # t => pc'[<<k, v>>] = pc[<<k, v>>]
<1>1. t[2] \in Verification /\ t = <<t[1], t[2]>>
  BY DEF Task
<1>2. \A v \in Verification, k \in {"job", "verify", "remove"} : <<k, v>> \in Task
  BY DEF Task
<1>3. \A u \in Task : pc'[u] = IF u = t THEN s ELSE pc[u]
  BY DEF IInv, TypeOK
<1>4. \A v \in Verification : <<"remove", v>> # t
  BY <1>1
<1> QED
  BY <1>1, <1>2, <1>3, <1>4

\* ... and where nothing but its row is written and no live row loses its giver,
\* the stores' rows stay right.
LEMMA LookIsQuiet ==
  ASSUME IInv, StoreInv, NEW t \in Task, NEW s \in Stage, pc[t] \in Middle,
         pc' = [pc EXCEPT ![t] = s], s \in Looking => pc[t] \in Looking,
         UNCHANGED <<custom, caught, published>>, faults > 0 => faults' > 0,
         NEW r \in Row, SetRow(t[2], r) \/ UNCHANGED row,
         \/ faults' > 0
         \/ r = "live" /\ s \in {"giving", "giving again"}
         \/ SetRow(t[2], r) /\ r # "live"
         \/ pc[t] \notin {"giving", "giving again"} /\ UNCHANGED row
  PROVE  StoreInv'
<1> DEFINE v == t[2]
<1>1. v \in Verification /\ t[1] \in {"job", "verify"} /\ t = <<t[1], v>> /\ t[2] = v
  BY InTheMiddle
<1> HIDE DEF v
<1>2. /\ pc'[t] = s
      /\ \A w \in Verification : pc'[<<"remove", w>>] = pc[<<"remove", w>>]
      /\ \A w \in Verification, k \in {"job", "verify"} :
           <<k, w>> # t => pc'[<<k, w>>] = pc[<<k, w>>]
  BY <1>1, OneTaskMoves
<1>3. /\ \A w \in Verification : w # v => row'[w] = row[w]
      /\ Stored(v) => row'[v] \in Row
      /\ ~Stored(v) => row'[v] = row[v]
      /\ SetRow(v, r) /\ Stored(v) => row'[v] = r
  BY <1>1 DEF SetRow, Stored, IInv, TypeOK, v
<1>4. \A w \in Verification : /\ Stored(w) => Stored(w)'
                              /\ row[w] = "removed" => row'[w] = "removed"
  BY <1>3 DEF Stored, Row, Past, Pending
<1>5. ASSUME NEW w \in Verification, Verifying(w)'
      PROVE  Verifying(w) \/ Stored(w)
  <2>1. pc'[<<"job", w>>] \in Looking \/ pc'[<<"verify", w>>] \in Looking
    BY <1>5 DEF Verifying, Looking
  <2>2. pc[<<"job", w>>] \in Looking \/ pc[<<"verify", w>>] \in Looking
    <3>1. CASE w = v /\ pc[t] \in Looking
      BY <1>1, <3>1
    <3>2. CASE w = v /\ pc[t] \notin Looking
      <4>1. pc'[t] \notin Looking
        BY <1>2, <3>2
      <4>2. PICK k \in {"job", "verify"} : pc'[<<k, w>>] \in Looking
        BY <2>1
      <4> QED
        BY <1>2, <4>1, <4>2
    <3>3. CASE w # v
      <4>1. <<"job", w>> # t /\ <<"verify", w>> # t
        BY <1>1, <3>3, OtherRowOtherTask
      <4> QED
        BY <1>2, <2>1, <4>1
    <3> QED
      BY <3>1, <3>2, <3>3
  <2> QED
    BY <2>2, VerifyingIsLooking
<1>6. ASSUME NEW w \in Verification, row'[w] = "live", ~(faults' > 0), ~Giving(w)'
      PROVE  row[w] = "live" /\ ~Giving(w)
  <2>1. CASE w # v
    <3>1. <<"job", w>> # t /\ <<"verify", w>> # t
      BY <1>1, <2>1, OtherRowOtherTask
    <3>2. \A k \in {"job", "verify"} : pc'[<<k, w>>] = pc[<<k, w>>]
      BY <1>2, <3>1
    <3> QED
      BY <1>3, <1>6, <2>1, <3>2 DEF Giving
  <2>2. CASE w = v
    <3>1. Stored(v)
      BY <1>3, <1>6, <2>2 DEF Stored, Row, Past
    <3>2. s \notin {"giving", "giving again"}
      BY <1>1, <1>2, <1>6, <2>2 DEF Giving
    <3>3. pc[t] \notin {"giving", "giving again"} /\ UNCHANGED row
      BY <1>3, <1>6, <2>2, <3>1, <3>2 DEF v
    <3>4. ASSUME NEW k \in {"job", "verify"}
          PROVE  pc[<<k, v>>] \notin {"giving", "giving again"}
      <4>1. CASE <<k, v>> = t
        BY <3>3, <4>1
      <4>2. CASE <<k, v>> # t
        <5>1. pc'[<<k, v>>] = pc[<<k, v>>]
          BY <1>1, <1>2, <4>2
        <5> QED
          BY <1>6, <2>2, <5>1 DEF Giving
      <4> QED
        BY <4>1, <4>2
    <3> QED
      BY <1>6, <2>2, <3>3, <3>4 DEF Giving
  <2> QED
    BY <2>1, <2>2
<1> QED
  BY <1>2, <1>4, <1>5, <1>6, QuietKeeps

\* Entering a domain of a store: a row is there for it, or was caught; and if the
\* domain is another store's by then, the row for that one was removed.
LEMMA GiveKeeps ==
  ASSUME IInv, StoreInv, NEW t \in Task, Give(t)
  PROVE  StoreInv'
<1> DEFINE v == t[2]
<1>1. /\ v \in Verification /\ t[1] \in {"job", "verify"} /\ t = <<t[1], v>>
      /\ v \in published /\ pc[t] \in Looking \ {"found"}
  BY InTheMiddle DEF Give, Middle, Looking
<1>2. /\ UNCHANGED <<row, published, made, faults, caught>>
      /\ EndLook(t)
      /\ custom' = IF \E s \in Store \ {Owner[v]} : custom[s] = Name[v] THEN custom
                   ELSE [custom EXCEPT ![Owner[v]] = Name[v]]
  BY DEF Give
<1>3. PICK s \in {"idle", "waited"} : pc' = [pc EXCEPT ![t] = s]
  BY <1>1, <1>2, EndLookGoesOn
<1>4. Owner[v] \in Store /\ custom \in [Store -> Domain \cup {NoDomain}]
  BY <1>1, DomainAssumption DEF IInv, TypeOK
<1> HIDE DEF v
<1>5. /\ \A w \in Verification : pc'[<<"remove", w>>] = pc[<<"remove", w>>]
      /\ \A w \in Verification, k \in {"job", "verify"} :
           <<k, w>> # t => pc'[<<k, w>>] = pc[<<k, w>>]
  <2>1. s \in Stage
    BY DEF Stage
  <2> QED
    BY <1>1, <1>3, <2>1, OneTaskMoves
<1>6. Verifying(v)
  BY <1>1, VerifyingIsLooking
<1>7. \A w \in Verification : Verifying(w)' => Verifying(w)
  <2> SUFFICES ASSUME NEW w \in Verification, Verifying(w)', w # v
               PROVE  Verifying(w)
    BY <1>6
  <2>1. <<"job", w>> # t /\ <<"verify", w>> # t
    BY <1>1
  <2> QED
    BY <1>5, <2>1 DEF Verifying
<1>8. GoneIsRemoved' /\ ClearingWasProved'
  BY <1>2, <1>5 DEF StoreInv, GoneIsRemoved, ClearingWasProved
<1>9. LookHasRow'
  BY <1>2, <1>7 DEF StoreInv, LookHasRow, Stored
<1>10. \A w \in Verification : Excused(w)' <=> Excused(w)
  BY <1>2, <1>5 DEF Excused, Stored
<1>11. CustomNeedsRow'
  <2> SUFFICES ASSUME NEW x \in Store, custom'[x] # NoDomain
               PROVE  \E w \in Verification : Owner[w] = x /\ Name[w] = custom'[x] /\ Excused(w)'
    BY DEF CustomNeedsRow, Excused
  <2>1. CASE custom'[x] = custom[x]
    <3>1. PICK w \in Verification : Owner[w] = x /\ Name[w] = custom[x] /\ Excused(w)
      BY <2>1 DEF StoreInv, CustomNeedsRow, Excused
    <3> QED
      BY <1>10, <2>1, <3>1
  <2>2. CASE custom'[x] # custom[x]
    <3>1. x = Owner[v] /\ custom'[x] = Name[v]
      BY <1>2, <1>4, <2>2
    <3>2. Excused(v)
      BY <1>1, <1>6 DEF StoreInv, LookHasRow, Excused
    <3> QED
      BY <1>1, <1>10, <3>1, <3>2
  <2> QED
    BY <2>1, <2>2
<1>12. LiveOrGiving'
  <2> SUFFICES ASSUME NEW w \in Verification, row[w] = "live", ~Giving(w)'
               PROVE  Served(w)'
    BY <1>2 DEF LiveOrGiving
  <2>1. CASE w = v
    <3>1. CASE custom'[Owner[v]] = Name[v]
      BY <2>1, <3>1 DEF Served
    <3>2. CASE custom'[Owner[v]] # Name[v]
      <4>1. PICK x \in Store \ {Owner[v]} : custom[x] = Name[v]
        BY <1>2, <1>4, <3>2
      <4>2. Name[v] # NoDomain
        BY <1>1, DomainAssumption
      <4>3. PICK u \in Verification : Owner[u] = x /\ Name[u] = Name[v] /\ Excused(u)
        BY <4>1, <4>2 DEF StoreInv, CustomNeedsRow, Excused
      <4>4. Stored(v) /\ u # v
        BY <2>1, <4>1, <4>3 DEF Stored, Row, Past
      <4>5. ~Stored(u)
        BY <1>1, <4>3, <4>4 DEF IInv, OneRowPerDomain
      <4>6. row[u] = "removed"
        BY <4>3, <4>5 DEF Excused, StoreInv, GoneIsRemoved
      <4> QED
        BY <1>2, <2>1, <4>3, <4>6 DEF Served
    <3> QED
      BY <3>1, <3>2
  <2>2. CASE w # v
    <3>1. <<"job", w>> # t /\ <<"verify", w>> # t
      BY <1>1, <2>2
    <3>2. Served(w)
      <4>1. ~Giving(w)
        BY <1>5, <3>1 DEF Giving
      <4> QED
        BY <4>1 DEF StoreInv, LiveOrGiving
    <3>3. CASE custom[Owner[w]] = Name[w] /\ custom'[Owner[w]] # Name[w]
      <4>1. Owner[w] \in Store
        BY DomainAssumption
      <4>2. Owner[w] = Owner[v] /\ Name[v] # Name[w]
        BY <1>2, <1>4, <3>3, <4>1
      <4> QED
        BY <1>1, <1>2, <4>2 DEF Served
    <3> QED
      BY <1>2, <3>2, <3>3 DEF Served
  <2> QED
    BY <2>1, <2>2
<1> QED
  BY <1>8, <1>9, <1>11, <1>12 DEF StoreInv

\* Deleting a row: the removal has begun, and a verification under way is caught.
LEMMA DeleteKeeps ==
  ASSUME IInv, StoreInv, NEW v \in Verification, DeleteRow(v)
  PROVE  StoreInv'
<1>1. /\ row' = [row EXCEPT ![v] = "removed"]
      /\ caught' = IF Verifying(v) THEN caught \cup {v} ELSE caught
      /\ pc' = [pc EXCEPT ![<<"remove", v>>] = "deleted"]
      /\ UNCHANGED <<custom, published, faults>>
  BY DEF DeleteRow, Goto
<1>2. \A w \in Verification, k \in {"job", "verify", "remove"} :
        /\ <<k, w>> \in Task
        /\ pc'[<<k, w>>] = IF k = "remove" /\ w = v THEN "deleted" ELSE pc[<<k, w>>]
  BY <1>1 DEF Task, IInv, TypeOK
<1>3. \A w \in Verification : row'[w] = IF w = v THEN "removed" ELSE row[w]
  BY <1>1 DEF IInv, TypeOK
<1>4. \A w \in Verification : (Verifying(w)' <=> Verifying(w)) /\ (Giving(w)' <=> Giving(w))
  BY <1>2 DEF Verifying, Giving
<1>5. GoneIsRemoved'
  BY <1>1, <1>2, <1>3 DEF StoreInv, GoneIsRemoved
<1>6. LookHasRow'
  BY <1>1, <1>3, <1>4 DEF StoreInv, LookHasRow, Stored
<1>7. CustomNeedsRow'
  <2> SUFFICES ASSUME NEW s \in Store, custom'[s] # NoDomain
               PROVE  \E w \in Verification : Owner[w] = s /\ Name[w] = custom'[s] /\ Excused(w)'
    BY DEF CustomNeedsRow, Excused
  <2>1. PICK w \in Verification : Owner[w] = s /\ Name[w] = custom[s] /\ Excused(w)
    BY <1>1 DEF StoreInv, CustomNeedsRow, Excused
  <2>2. Excused(w)'
    BY <1>1, <1>2, <1>3, <2>1 DEF Excused, Stored
  <2> QED
    BY <1>1, <2>1, <2>2
<1>8. ClearingWasProved'
  BY <1>1, <1>2 DEF StoreInv, ClearingWasProved
<1>9. LiveOrGiving'
  BY <1>1, <1>3, <1>4 DEF StoreInv, LiveOrGiving, Served
<1> QED
  BY <1>5, <1>6, <1>7, <1>8, <1>9 DEF StoreInv

\* Clearing the store's domain: the row is gone, and if the store had another
\* domain by then, the one that was read was a proved domain of the store too.
LEMMA ClearKeeps ==
  ASSUME IInv, StoreInv, NEW v \in Verification, ClearStore(v)
  PROVE  StoreInv'
<1>1. /\ custom' = [custom EXCEPT ![Owner[v]] = NoDomain]
      /\ pc[<<"remove", v>>] = "clearing"
      /\ pc' = [pc EXCEPT ![<<"remove", v>>] = "done"]
      /\ UNCHANGED <<row, published, faults, caught>>
  BY DEF ClearStore, Goto
<1>2. \A w \in Verification, k \in {"job", "verify", "remove"} :
        /\ <<k, w>> \in Task
        /\ pc'[<<k, w>>] = IF k = "remove" /\ w = v THEN "done" ELSE pc[<<k, w>>]
  BY <1>1 DEF Task, IInv, TypeOK
<1>3. \A s \in Store : custom'[s] = IF s = Owner[v] THEN NoDomain ELSE custom[s]
  BY <1>1 DEF IInv, TypeOK
<1>4. \A w \in Verification : (Verifying(w)' <=> Verifying(w)) /\ (Giving(w)' <=> Giving(w))
  BY <1>2 DEF Verifying, Giving
<1>5. GoneIsRemoved'
  BY <1>1, <1>2 DEF StoreInv, GoneIsRemoved
<1>6. LookHasRow'
  BY <1>1, <1>4 DEF StoreInv, LookHasRow, Stored
<1>7. CustomNeedsRow'
  BY <1>1, <1>2, <1>3 DEF StoreInv, CustomNeedsRow, Stored
<1>8. ClearingWasProved'
  BY <1>1, <1>2 DEF StoreInv, ClearingWasProved
<1>9. LiveOrGiving'
  <2> SUFFICES ASSUME NEW w \in Verification, row[w] = "live", ~Giving(w)
               PROVE  Served(w)'
    BY <1>1, <1>4 DEF LiveOrGiving
  <2>1. Served(w)
    BY DEF StoreInv, LiveOrGiving
  <2>2. CASE Owner[w] = Owner[v] /\ Name[w] = Name[v]
    <3>1. row[v] = "removed"
      BY <1>1 DEF StoreInv, GoneIsRemoved
    <3> QED
      BY <1>1, <2>2, <3>1 DEF Served
  <2>3. CASE Owner[w] = Owner[v] /\ Name[w] # Name[v]
    <3>1. PICK u \in published : Owner[u] = Owner[v] /\ Name[u] = Name[v]
      BY <1>1 DEF StoreInv, ClearingWasProved
    <3> QED
      BY <1>1, <2>3, <3>1 DEF Served
  <2>4. CASE Owner[w] # Owner[v]
    <3>1. custom'[Owner[w]] = custom[Owner[w]]
      BY <1>3, <2>4, DomainAssumption
    <3> QED
      BY <1>1, <2>1, <3>1 DEF Served
  <2> QED
    BY <2>2, <2>3, <2>4
<1> QED
  BY <1>5, <1>6, <1>7, <1>8, <1>9 DEF StoreInv

LEMMA AFaultCounts ==
  ASSUME IInv, faults' = faults + 1
  PROVE  faults' > 0
<1>1. faults \in 0 .. MaxFaults /\ MaxFaults \in Nat
  BY DomainAssumption DEF IInv, TypeOK
<1> QED
  BY <1>1

\* The looks at the DNS and the certificate.
LEMMA LookStepKeepsStore ==
  ASSUME IInv, StoreInv, NEW t \in Task, LookStep(t) \/ CatchError(t)
  PROVE  StoreInv'
<1>1. pc[t] \in Middle
  BY DEF LookStep, ProveDns, MissDns, MarkFailed, MarkLive, MarkProvisioning, Give, CatchError,
         Middle, Looking
<1>2. /\ t[2] \in Verification /\ t[1] \in {"job", "verify"} /\ t = <<t[1], t[2]>>
      /\ t[1] = "verify" => pc[t] \in {"found", "proved", "giving"}
      /\ t[1] = "job" => job[t[2]] = "active" /\ made[t[2]] < Attempts
  BY <1>1, InTheMiddle
<1>3. {"dns_verified", "live", "ssl_provisioning", "failed"} \subseteq Row
  BY DEF Row, Past
<1>4. /\ {"idle", "proved", "giving", "giving again", "waited", "missed"} \subseteq Stage
      /\ {"found", "proved", "giving", "waited", "giving again"} \subseteq Looking
      /\ "idle" \notin Looking /\ "missed" \notin Looking
  BY DEF Stage, Looking
<1>5. CASE ProveDns(t)
  <2>1. /\ pc' = [pc EXCEPT ![t] = "proved"] /\ pc[t] = "found" /\ SetRow(t[2], "dns_verified")
        /\ UNCHANGED <<custom, caught, published, faults>>
    BY <1>5 DEF ProveDns, Goto
  <2> QED
    BY <1>1, <1>3, <1>4, <2>1, LookIsQuiet
<1>6. CASE MissDns(t)
  <2>1. PICK s \in {"idle", "missed"} : pc' = [pc EXCEPT ![t] = s]
    BY <1>6 DEF MissDns, Goto
  <2>2. pc[t] = "found" /\ UNCHANGED <<row, custom, caught, published, faults>>
    BY <1>6 DEF MissDns
  <2> QED
    BY <1>1, <1>3, <1>4, <2>1, <2>2, LookIsQuiet
<1>11. CASE MarkFailed(t)
  <2>1. /\ pc' = [pc EXCEPT ![t] = "idle"] /\ SetRow(t[2], "failed")
        /\ UNCHANGED <<custom, caught, published, faults>>
    BY <1>11 DEF MarkFailed, Goto
  <2> QED
    BY <1>1, <1>3, <1>4, <2>1, LookIsQuiet
<1>7. CASE MarkLive(t)
  <2>1. PICK s \in {"giving", "giving again"} : pc' = [pc EXCEPT ![t] = s]
    BY <1>7 DEF MarkLive, Goto
  <2>2. pc[t] \in Looking /\ SetRow(t[2], "live") /\ UNCHANGED <<custom, caught, published, faults>>
    BY <1>7, <1>4 DEF MarkLive
  <2> QED
    BY <1>1, <1>3, <1>4, <2>1, <2>2, LookIsQuiet
<1>8. CASE MarkProvisioning(t)
  <2>1. /\ SetRow(t[2], "ssl_provisioning") /\ UNCHANGED <<custom, caught, published, faults>>
        /\ pc[t] \in Looking \ {"found"}
    BY <1>8 DEF MarkProvisioning, Looking
  <2>2. \E s \in Stage : pc' = [pc EXCEPT ![t] = s]
    <3>1. CASE pc[t] = "waited"
      <4>1. t = <<"job", t[2]>> /\ Throw(t[2])
        BY <1>2, <1>8, <3>1 DEF MarkProvisioning
      <4> QED
        BY <1>4, <4>1 DEF Throw, Goto
    <3>2. CASE pc[t] # "waited"
      BY <1>4, <1>8, <2>1, <3>2, EndLookGoesOn DEF MarkProvisioning
    <3> QED
      BY <3>1, <3>2
  <2> QED
    BY <1>1, <1>3, <2>1, <2>2, LookIsQuiet
<1>9. CASE Give(t)
  BY <1>9, GiveKeeps
<1>10. CASE CatchError(t)
  <2>1. /\ UNCHANGED <<row, custom, caught, published, made>> /\ EndLook(t)
        /\ pc[t] \in Looking \ {"found"}
        /\ faults' > 0
    BY <1>10, AFaultCounts DEF CatchError, Looking
  <2>2. PICK s \in Stage : pc' = [pc EXCEPT ![t] = s]
    BY <1>4, <2>1, EndLookGoesOn
  <2> QED
    BY <1>1, <1>3, <2>1, <2>2, LookIsQuiet
<1> QED
  BY <1>5, <1>6, <1>7, <1>8, <1>9, <1>10, <1>11 DEF LookStep

\* A verification that is broken off: the fault excuses what it leaves undone.
LEMMA BreakOffKeepsStore ==
  ASSUME IInv, StoreInv, NEW v \in Verification,
         JobFails(v) \/ Stall(v) \/ Cut(<<"verify", v>>)
  PROVE  StoreInv'
<1>1. PICK k \in {"job", "verify"} :
        /\ pc' = [pc EXCEPT ![<<k, v>>] = "idle"]
        /\ k = "job" => job[v] = "active"
        /\ k = "verify" => pc[<<k, v>>] # "idle"
  BY DEF JobFails, Stall, Cut, Throw, Goto
<1>2. /\ UNCHANGED <<row, custom, caught, published>>
      /\ faults' > 0
  BY AFaultCounts DEF JobFails, Stall, Cut
<1>3. "failed" \in Row /\ "idle" \in Stage
  BY DEF Row, Stage
<1> DEFINE t == <<k, v>>
<1>4. t \in Task /\ pc[t] \in Middle /\ "idle" \notin Looking
  BY <1>1 DEF Task, IInv, StagesOfKind, JobIsActive, Middle, Looking
<1> HIDE DEF t
<1>5. pc' = [pc EXCEPT ![t] = "idle"]
  BY <1>1 DEF t
<1> QED
  BY <1>2, <1>3, <1>4, <1>5, LookIsQuiet

LEMMA StoreInvHolds == Spec => []StoreInv
<1>1. Init => StoreInv
  <2> SUFFICES ASSUME Init PROVE StoreInv
    OBVIOUS
  <2>1. \A v \in Verification, k \in {"job", "verify", "remove"} : pc[<<k, v>>] = "idle"
    BY DEF Init, Task
  <2>2. LookHasRow
    BY <2>1, VerifyingIsLooking DEF LookHasRow, Looking
  <2> QED
    BY <2>1, <2>2 DEF Init, StoreInv, GoneIsRemoved, CustomNeedsRow, ClearingWasProved, LiveOrGiving
<1>2. IInv /\ StoreInv /\ [Next]_vars => StoreInv'
  <2> SUFFICES ASSUME IInv, StoreInv, [Next]_vars PROVE StoreInv'
    OBVIOUS
  <2>0. \A v \in Verification, k \in {"add", "job", "verify", "remove"} : <<k, v>> \in Task
    BY DEF Task
  \* Steps outside of the verifications.
  <2>1. ASSUME UNCHANGED <<custom, caught>>, published \subseteq published',
               faults > 0 => faults' > 0,
               NEW u \in Verification, NEW k \in {"add", "remove"}, NEW s \in Stage,
               pc' = [pc EXCEPT ![<<k, u>>] = s] \/ UNCHANGED pc,
               k = "remove" => ReadStore(u) \/ (pc[<<k, u>>] # "idle" /\ s = "cut"),
               UNCHANGED row \/ (row[u] = "none" /\ row' = [row EXCEPT ![u] = Pending])
        PROVE  StoreInv'
    <3>1. \A v \in Verification, j \in {"job", "verify"} : pc'[<<j, v>>] = pc[<<j, v>>]
      BY <2>0, <2>1 DEF IInv, TypeOK
    <3>2. \A v \in Verification : (Verifying(v)' <=> Verifying(v)) /\ (Giving(v)' <=> Giving(v))
      BY <3>1 DEF Verifying, Giving
    <3>3. ASSUME NEW v \in Verification
          PROVE  \/ pc'[<<"remove", v>>] = pc[<<"remove", v>>]
                 \/ pc[<<"remove", v>>] # "idle" /\ pc'[<<"remove", v>>] = "cut"
                 \/ ReadStore(v)
      BY <2>0, <2>1 DEF IInv, TypeOK
    <3>4. ASSUME NEW v \in Verification
          PROVE  /\ Stored(v) => Stored(v)'
                 /\ row[v] = "removed" => row'[v] = "removed"
                 /\ row'[v] = "live" => row[v] = "live"
      BY <2>1 DEF IInv, TypeOK, Stored, Row, Past, Pending
    <3> QED
      BY <2>1, <3>2, <3>3, <3>4, QuietKeeps
  <2>2. ASSUME NEW v \in Verification, CheckFree(v) \/ CreateRow(v) \/ EnqueueJob(v)
        PROVE  StoreInv'
    <3>1. PICK s \in Stage : pc' = [pc EXCEPT ![<<"add", v>>] = s]
      BY <2>2 DEF CheckFree, CreateRow, EnqueueJob, Goto, Stage
    <3>2. UNCHANGED row \/ (row[v] = "none" /\ row' = [row EXCEPT ![v] = Pending])
      BY <2>2 DEF CheckFree, CreateRow, EnqueueJob, IInv, MadeByRequest
    <3>3. UNCHANGED <<custom, caught, published, faults>>
      BY <2>2 DEF CheckFree, CreateRow, EnqueueJob
    <3> QED
      BY <2>1, <3>1, <3>2, <3>3
  <2>3. ASSUME NEW v \in Verification, Publish(v)
        PROVE  StoreInv'
    BY <2>1, <2>3 DEF Publish, Stage
  <2>4. ASSUME NEW v \in Verification, ReadStore(v)
        PROVE  StoreInv'
    <3>1. PICK s \in Stage : pc' = [pc EXCEPT ![<<"remove", v>>] = s]
      BY <2>4 DEF ReadStore, Goto, Stage
    <3>2. UNCHANGED <<row, custom, caught, published, faults>>
      BY <2>4 DEF ReadStore
    <3> QED
      BY <2>1, <2>4, <3>1, <3>2
  \* The beginning of a verification.
  <2>5. ASSUME NEW v \in Verification, Look(v) \/ TakeJob(v)
        PROVE  StoreInv'
    <3>1. UNCHANGED <<row, custom, caught, published, faults>>
      BY <2>5 DEF Look, TakeJob
    <3>2. PICK k \in {"job", "verify"} :
            UNCHANGED pc \/ (pc' = [pc EXCEPT ![<<k, v>>] = "found"] /\ Stored(v))
      BY <2>5 DEF Look, TakeJob, Goto, Stored, Row
    <3>3. \A t \in Task : pc'[t] = pc[t] \/ (t = <<k, v>> /\ pc'[t] = "found" /\ Stored(v))
      BY <3>2 DEF IInv, TypeOK
    <3>4. \A w \in Verification : pc'[<<"remove", w>>] = pc[<<"remove", w>>]
      BY <2>0, <3>3
    <3>5. ASSUME NEW w \in Verification, Verifying(w)'
          PROVE  Verifying(w) \/ Stored(w)
      <4>1. CASE w = v /\ Stored(v)
        BY <4>1
      <4>2. CASE ~(w = v /\ Stored(v))
        <5>1. \A j \in {"job", "verify"} : pc'[<<j, w>>] = pc[<<j, w>>]
          BY <2>0, <3>3, <4>2
        <5> QED
          BY <3>5, <5>1 DEF Verifying
      <4> QED
        BY <4>1, <4>2
    <3>6. ASSUME NEW w \in Verification, Giving(w), row[w] = "live"
          PROVE  Giving(w)'
      <4>1. PICK j \in {"job", "verify"} : pc[<<j, w>>] \in {"giving", "giving again"}
        BY <3>6 DEF Giving
      <4>2. pc'[<<j, w>>] = pc[<<j, w>>]
        <5>1. CASE Look(v)
          BY <2>0, <4>1, <5>1 DEF Look, Goto, IInv, TypeOK
        <5>2. CASE TakeJob(v)
          <6>1. pc[<<"job", v>>] = "idle"
            BY <5>2 DEF TakeJob, IInv, JobIsActive
          <6> QED
            BY <2>0, <4>1, <5>2, <6>1 DEF TakeJob, Goto, IInv, TypeOK
        <5> QED
          BY <2>5, <5>1, <5>2
      <4> QED
        BY <4>1, <4>2 DEF Giving
    <3> QED
      BY <3>1, <3>4, <3>5, <3>6, QuietKeeps DEF Stored
  \* The middle and the end of one.
  <2>6. ASSUME NEW t \in Task, LookStep(t) \/ CatchError(t)
        PROVE  StoreInv'
    BY <2>6, LookStepKeepsStore
  <2>7. ASSUME NEW v \in Verification, JobFails(v) \/ Stall(v) \/ Cut(<<"verify", v>>)
        PROVE  StoreInv'
    BY <2>7, BreakOffKeepsStore
  <2>8. ASSUME NEW v \in Verification, NEW k \in {"add", "remove"}, Cut(<<k, v>>)
        PROVE  StoreInv'
    <3>1. /\ pc' = [pc EXCEPT ![<<k, v>>] = "cut"] /\ pc[<<k, v>>] # "idle"
          /\ UNCHANGED <<row, custom, caught, published>>
          /\ faults' > 0
      BY <2>8, AFaultCounts DEF Cut, Goto
    <3>2. "cut" \in Stage
      BY DEF Stage
    <3> QED
      BY <2>1, <3>1, <3>2
  <2>9. ASSUME NEW v \in Verification, DeleteRow(v) \/ ClearStore(v)
        PROVE  StoreInv'
    BY <2>9, DeleteKeeps, ClearKeeps
  <2>10. CASE UNCHANGED vars
    BY <2>10 DEF vars, StoreInv, GoneIsRemoved, LookHasRow, Verifying, Stored, CustomNeedsRow,
                 ClearingWasProved, LiveOrGiving, Served, Giving
  <2>11. ASSUME NEW t \in Task, Cut(t)
         PROVE  StoreInv'
    <3>1. PICK k \in {"add", "verify", "remove"}, v \in Verification : t = <<k, v>>
      BY <2>11 DEF Task, Cut
    <3> QED
      BY <2>7, <2>8, <2>11, <3>1
  <2> QED
    BY <2>2, <2>3, <2>4, <2>5, <2>6, <2>7, <2>9, <2>10, <2>11 DEF Next
<1> QED
  BY <1>1, <1>2, InitEstablishes, StepKeeps, PTL DEF Spec

(* A store that has a domain has a row for it, unless a verification was     *)
(* under way when the row was removed, or the removal has not ended or was   *)
(* cut short (removeCustomDomain, updateStoreCustomDomain).                  *)
THEOREM DomainHasRow == Spec => []CustomNeedsRow
<1>1. StoreInv => CustomNeedsRow
  BY DEF StoreInv
<1> QED
  BY StoreInvHolds, <1>1, PTL

(* A domain whose row says live is the store's, but for a crash, another     *)
(* domain of the store or a removed row of the domain.                       *)
THEOREM LiveHasStore == Spec => []LiveIsServed
<1>1. StoreInv => LiveIsServed
  <2> SUFFICES ASSUME StoreInv, NEW v \in Verification, row[v] = "live", ~Verifying(v)
               PROVE  Served(v)
    BY DEF LiveIsServed, Served
  <2>1. ~Giving(v)
    BY VerifyingIsLooking DEF Giving, Looking
  <2> QED
    BY <2>1 DEF StoreInv, LiveOrGiving
<1> QED
  BY StoreInvHolds, <1>1, PTL

-----------------------------------------------------------------------------
\* The registry

Single(rows) ==
  \A v, w \in Verification :
    rows[v] \in Row /\ rows[w] \in Row /\ Name[v] = Name[w] => v = w

\* Of the rows of a domain there is one, so the registry's choice is no choice.
LEMMA HolderIsTheRow ==
  ASSUME NEW rows, Single(rows), NEW d \in Domain
  PROVE  /\ \A v \in Verification : Name[v] = d /\ rows[v] \in Row => HolderOf(rows)[d] = v
         /\ (\A v \in Verification : ~(Name[v] = d /\ rows[v] \in Row)) => HolderOf(rows)[d] = Nobody
<1>1. ASSUME NEW v \in Verification, Name[v] = d, rows[v] \in Row
      PROVE  HolderOf(rows)[d] = v
  <2> DEFINE w == CHOOSE u \in Verification : Name[u] = d /\ rows[u] \in Row
  <2>1. w \in Verification /\ Name[w] = d /\ rows[w] \in Row
    BY <1>1
  <2>2. w = v
    BY <1>1, <2>1 DEF Single
  <2> QED
    BY <1>1, <2>2 DEF HolderOf
<1>2. ASSUME \A v \in Verification : ~(Name[v] = d /\ rows[v] \in Row)
      PROVE  HolderOf(rows)[d] = Nobody
  BY <1>2 DEF HolderOf
<1> QED
  BY <1>1, <1>2

\* Rows that only change their status do not change the holders.
LEMMA SameRowsSameHolders ==
  ASSUME NEW rows, NEW news, Single(rows),
         \A v \in Verification : news[v] \in Row <=> rows[v] \in Row
  PROVE  HolderOf(news) = HolderOf(rows)
<1>1. Single(news)
  BY DEF Single
<1>2. ASSUME NEW d \in Domain
      PROVE  HolderOf(news)[d] = HolderOf(rows)[d]
  <2>1. CASE \E v \in Verification : Name[v] = d /\ rows[v] \in Row
    BY <1>1, <2>1, HolderIsTheRow
  <2>2. CASE ~\E v \in Verification : Name[v] = d /\ rows[v] \in Row
    BY <1>1, <2>2, HolderIsTheRow
  <2> QED
    BY <2>1, <2>2
<1> QED
  BY <1>2 DEF HolderOf

\* One row that comes, or goes, changes the holder of its domain.
LEMMA OneRowOneHolder ==
  ASSUME NEW rows, NEW news, NEW v \in Verification, NEW h,
         Single(rows), Single(news),
         \A w \in Verification : w # v => (news[w] \in Row <=> rows[w] \in Row),
         \/ rows[v] \in Row /\ news[v] \notin Row /\ h = Nobody
         \/ news[v] \in Row /\ h = v
  PROVE  HolderOf(news) = [HolderOf(rows) EXCEPT ![Name[v]] = h]
<1>1. Name[v] \in Domain
  BY DomainAssumption
<1>2. HolderOf(news)[Name[v]] = h
  BY <1>1, HolderIsTheRow DEF Single
<1>3. ASSUME NEW d \in Domain, d # Name[v]
      PROVE  HolderOf(news)[d] = HolderOf(rows)[d]
  <2>1. CASE \E w \in Verification : Name[w] = d /\ rows[w] \in Row
    BY <1>3, <2>1, HolderIsTheRow
  <2>2. CASE ~\E w \in Verification : Name[w] = d /\ rows[w] \in Row
    BY <1>3, <2>2, HolderIsTheRow
  <2> QED
    BY <2>1, <2>2
<1> QED
  BY <1>1, <1>2, <1>3 DEF HolderOf

SpentRows(rows) == {v \in Verification : rows[v] = "removed"}

\* Only the INSERT makes a row, only DELETE takes one away.
LEMMA OtherStepsLeaveRows ==
  ASSUME IInv, [Next]_vars,
         \A v \in Verification : ~CreateRow(v) /\ ~DeleteRow(v)
  PROVE  \A v \in Verification : /\ row'[v] \in Row <=> row[v] \in Row
                                 /\ row'[v] = "removed" <=> row[v] = "removed"
<1>1. ASSUME NEW u \in Verification, NEW r \in Row, SetRow(u, r)
      PROVE  \A v \in Verification : /\ row'[v] \in Row <=> row[v] \in Row
                                     /\ row'[v] = "removed" <=> row[v] = "removed"
  <2>1. "removed" \notin Row
    BY DEF Row, Past, Pending
  <2> QED
    BY <1>1, <2>1 DEF SetRow, Stored, IInv, TypeOK
<1>2. {"dns_verified", "live", "ssl_provisioning", "failed"} \subseteq Row
  BY DEF Row, Past
<1>3. \/ UNCHANGED row
      \/ \E t \in Task : LookStep(t)
  BY DEF Next, vars, CheckFree, EnqueueJob, Look, TakeJob, ReadStore, ClearStore, Publish,
         JobFails, Stall, CatchError, Cut
<1>4. ASSUME NEW t \in Task, LookStep(t)
      PROVE  UNCHANGED row \/ \E r \in Row : SetRow(t[2], r)
  BY <1>2, <1>4 DEF LookStep, ProveDns, MissDns, MarkFailed, MarkLive, MarkProvisioning, Give
<1>5. \A t \in Task : t[2] \in Verification
  BY DEF Task
<1> QED
  BY <1>1, <1>3, <1>4, <1>5

\* Merchants who ask for a domain at once, verifications and removals: of one
\* domain the table has one row, and a row that was removed stays so
\* (createDomainVerification, updateDomainVerificationStatus,
\* deleteDomainVerification).
THEOREM DomainsImplementRegistry == Spec => ImplementsRegistry
<1>1. Init => Registry!Init
  <2> SUFFICES ASSUME Init PROVE Registry!Init
    OBVIOUS
  <2>1. \A v \in Verification : row[v] \notin Row /\ row[v] # "removed"
    BY DEF Init, Row, Past, Pending
  <2>2. HolderOf(row) = [d \in Domain |-> Nobody]
    BY <2>1 DEF HolderOf
  <2> QED
    BY <2>1, <2>2 DEF Registry!Init
<1>2. IInv /\ IInv' /\ [Next]_vars => [Registry!Next]_(Registry!vars)
  <2> SUFFICES ASSUME IInv, IInv', [Next]_vars
               PROVE  [Registry!Next]_(Registry!vars)
    OBVIOUS
  <2>1. Single(row) /\ Single(row')
    BY DEF IInv, OneRowPerDomain, Single, Stored
  <2>2. "removed" \notin Row /\ "none" \notin Row /\ Pending \in Row
    BY DEF Row, Past, Pending
  <2>3. ASSUME NEW v \in Verification, CreateRow(v)
        PROVE  [Registry!Next]_(Registry!vars)
    <3>1. CASE UNCHANGED row
      BY <3>1 DEF Registry!vars, HolderOf
    <3>2. CASE ~UNCHANGED row
      <4>1. row' = [row EXCEPT ![v] = Pending]
        BY <2>3, <3>2 DEF CreateRow
      <4>2. \A w \in Verification : Name[w] = Name[v] => row[w] \notin Row
        BY <2>3, <3>2 DEF CreateRow, Stored
      <4>3. row[v] = "none"
        BY <2>3 DEF CreateRow, IInv, MadeByRequest
      <4>4. row' \in [Verification -> Row \cup {"none", "removed"}]
        BY DEF IInv, TypeOK
      <4>5. HolderOf(row') = [HolderOf(row) EXCEPT ![Name[v]] = v]
        <5>1. row'[v] \in Row /\ \A w \in Verification : w # v => row'[w] = row[w]
          BY <2>2, <4>1 DEF IInv, TypeOK
        <5> HIDE DEF HolderOf
        <5> QED
          BY <2>1, <5>1, OneRowOneHolder
      <4>6. HolderOf(row)[Name[v]] = Nobody
        BY <2>1, <4>2, HolderIsTheRow, DomainAssumption
      <4>7. SpentRows(row') = SpentRows(row) /\ v \notin SpentRows(row)
        BY <2>2, <4>1, <4>3 DEF SpentRows, IInv, TypeOK, Pending
      <4>8. Registry!Claim(v)
        BY <4>5, <4>6, <4>7 DEF Registry!Claim, SpentRows
      <4> QED
        BY <4>8 DEF Registry!Next
    <3> QED
      BY <3>1, <3>2
  <2>4. ASSUME NEW v \in Verification, DeleteRow(v)
        PROVE  [Registry!Next]_(Registry!vars)
    <3>1. row' = [row EXCEPT ![v] = "removed"] /\ row[v] \in Row
      BY <2>4 DEF DeleteRow, Stored
    <3>2. \A w \in Verification : row'[w] = IF w = v THEN "removed" ELSE row[w]
      BY <3>1 DEF IInv, TypeOK
    <3>3. HolderOf(row') = [HolderOf(row) EXCEPT ![Name[v]] = Nobody]
      <4>1. row'[v] \notin Row /\ \A w \in Verification : w # v => row'[w] = row[w]
        BY <2>2, <3>2
      <4> DEFINE news == row'
                 h == Nobody
      <4>2. \A w \in Verification : w # v => (news[w] \in Row <=> row[w] \in Row)
        BY <4>1
      <4>3. row[v] \in Row /\ news[v] \notin Row /\ h = Nobody
        BY <3>1, <4>1
      <4>4. Single(row) /\ Single(news)
        BY <2>1
      <4> HIDE DEF news, h
      <4>5. HolderOf(news) = [HolderOf(row) EXCEPT ![Name[v]] = h]
        BY <4>2, <4>3, <4>4, OneRowOneHolder
      <4> QED
        BY <4>5 DEF news, h
    <3>4. HolderOf(row)[Name[v]] = v
      BY <2>1, <3>1, HolderIsTheRow, DomainAssumption
    <3>5. SpentRows(row') = SpentRows(row) \cup {v}
      BY <3>2 DEF SpentRows
    <3>6. Registry!Release(v)
      BY <3>3, <3>4, <3>5 DEF Registry!Release, SpentRows
    <3> QED
      BY <3>6 DEF Registry!Next
  <2>5. CASE \A v \in Verification : ~CreateRow(v) /\ ~DeleteRow(v)
    <3>1. \A v \in Verification : /\ row'[v] \in Row <=> row[v] \in Row
                                  /\ row'[v] = "removed" <=> row[v] = "removed"
      BY <2>5, OtherStepsLeaveRows
    <3>2. HolderOf(row') = HolderOf(row)
      BY <2>1, <3>1, SameRowsSameHolders
    <3>3. SpentRows(row') = SpentRows(row)
      BY <3>1 DEF SpentRows
    <3> QED
      BY <3>2, <3>3 DEF Registry!vars, SpentRows
  <2> QED
    BY <2>3, <2>4, <2>5
<1> QED
  BY <1>1, <1>2, InitEstablishes, StepKeeps, PTL DEF Spec, ImplementsRegistry, Registry!Spec
=============================================================================
