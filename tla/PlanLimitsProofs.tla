--------------------------- MODULE PlanLimitsProofs ---------------------------
(***************************************************************************)
(* The quotas, for every set of requests, every plan and every size of file: *)
(* how a store can exceed its plan, that counted storage never does and is   *)
(* what the counted uploads add up to, and that an invitation is accepted once. *)
(***************************************************************************)
EXTENDS PlanLimits, SumsProofs, TLAPS

\* What a check saw left room for the row it let through, and only rows that
\* were let through are there.
ProductsWereChecked ==
  /\ \A c \in Creation : seen[c] \subseteq Creation
  /\ \A c \in Creation : pc[c] \in {"allowed", "done"} /\ granted[c] # NoLimit
       => Cardinality(seen[c]) < granted[c]
  /\ \A c \in products : pc[c] = "done"

InvitesWereChecked ==
  /\ \A i \in Invite : seen[i] \subseteq Invite
  /\ \A i \in Invite :
       pc[i] \in {"allowed", "new", "vacant", "done"} /\ granted[i] # NoLimit
         => Cardinality(seen[i]) + 1 < granted[i]
  /\ \A i \in Invite : invitation[i] # "none" => pc[i] = "done"
  /\ \A i \in members : pc[i] = "done"

\* An acceptance that found its invitation holds the row, and the row is pending;
\* one that is done has decided it.
AcceptHoldsRow ==
  \A a \in Accept : pc[a] = "found" =>
    /\ rowLock[Target[a]] = a
    /\ invitation[Target[a]] = "pending"

DoneIsDecided ==
  \A a \in Accept : pc[a] = "done" => invitation[Target[a]] \in {"accepted", "rejected"}

RejectReadIt ==
  \A r \in Reject : pc[r] = "found" => invitation[Target[r]] # "none"

\* The plan's limit, also as an upload under the lock has read it, is no more
\* than the most there was.
MostCovers ==
  /\ terms.storage <= most
  /\ \A u \in Upload : pc[u] = "counting" => granted[u] \in Nat /\ granted[u] <= most

IInv ==
  /\ TypeOK
  /\ ProductsWereChecked
  /\ InvitesWereChecked
  /\ AcceptHoldsRow
  /\ DoneIsDecided
  /\ RejectReadIt
  /\ MostCovers
  /\ StorageWithinPlan
  /\ InvitationDecidedOnce

-----------------------------------------------------------------------------
LEMMA InitEstablishes == Init => IInv
<1> SUFFICES ASSUME Init PROVE IInv
  OBVIOUS
<1> USE PlanLimitsAssumption DEF Init
<1>1. terms \in Terms
  BY DEF Terms, NoPlan
<1>2. TypeOK
  BY <1>1 DEF TypeOK, Terms, InvitationStatus, Stage, Checked, Actor
<1>3. ProductsWereChecked /\ InvitesWereChecked
  BY DEF ProductsWereChecked, InvitesWereChecked, Actor, Checked
<1>4. AcceptHoldsRow /\ DoneIsDecided /\ RejectReadIt /\ InvitationDecidedOnce
  BY DEF AcceptHoldsRow, DoneIsDecided, RejectReadIt, InvitationDecidedOnce, Actor, Checked
<1>5. MostCovers /\ StorageWithinPlan
  BY <1>1 DEF MostCovers, StorageWithinPlan, Terms, Actor, Checked
<1> QED
  BY <1>2, <1>3, <1>4, <1>5 DEF IInv

\* A limit of the plan is a number or there is none.
LEMMA LimitIsTyped ==
  ASSUME TypeOK, NEW q \in Checked
  PROVE  /\ Limit(q) \in Nat \cup {NoLimit}
         /\ Rows(q) \subseteq Checked
BY DEF TypeOK, Terms, Limit, Rows, Counted, Checked

LEMMA NextKeepsTypes ==
  ASSUME TypeOK, Next
  PROVE  TypeOK'
<1> USE PlanLimitsAssumption DEF Go, plan, staff, storage
<1>1. CASE EditPlan
  BY <1>1 DEF EditPlan, TypeOK, Terms
<1>2. ASSUME NEW q \in Checked, Check(q) PROVE TypeOK'
  <2>1. seen' \in [Checked -> SUBSET Checked] /\ granted' \in [Checked -> Nat \cup {NoLimit}]
    BY <1>2, LimitIsTyped DEF Check, TypeOK
  <2>2. pc' \in [Actor -> Stage]
    BY <1>2 DEF Check, TypeOK, Stage
  <2> QED
    BY <1>2, <2>1, <2>2 DEF Check, TypeOK
<1>3. ASSUME NEW c \in Creation, CreateProduct(c) \/ DeleteProduct(c) PROVE TypeOK'
  BY <1>3 DEF CreateProduct, DeleteProduct, TypeOK, Stage
<1>4. ASSUME NEW i \in Invite, FindUser(i) \/ FindPending(i) \/ Expire(i) \/ RemoveStaff(i)
      PROVE TypeOK'
  BY <1>4 DEF FindUser, FindPending, Expire, RemoveStaff, TypeOK, Stage
<1>5. ASSUME NEW i \in Invite, InsertInvitation(i) PROVE TypeOK'
  BY <1>5 DEF InsertInvitation, TypeOK, Stage, InvitationStatus
<1>6. ASSUME NEW a \in Accept, FindInvitation(a) \/ CutAccept(a) PROVE TypeOK'
  BY <1>6 DEF FindInvitation, CutAccept, TypeOK, Stage
<1>7. ASSUME NEW a \in Accept, CommitAccept(a) PROVE TypeOK'
  BY <1>7 DEF CommitAccept, TypeOK, Stage, InvitationStatus
<1>8. ASSUME NEW r \in Reject, RejectStep(r) PROVE TypeOK'
  BY <1>8 DEF RejectStep, ReadPending, UpdateRejected, TypeOK, Stage, InvitationStatus
<1>9. ASSUME NEW u \in Upload, StoreFile(u) \/ DeleteFile(u) \/ CutUpload(u) PROVE TypeOK'
  BY <1>9 DEF StoreFile, DeleteFile, CutUpload, TypeOK, Stage
<1>10. ASSUME NEW u \in Upload, ReadStorage(u) PROVE TypeOK'
  BY <1>10 DEF ReadStorage, TypeOK, Stage, Terms
<1>11. ASSUME NEW u \in Upload, Increment(u) PROVE TypeOK'
  <2>1. base[u] + Size[u] \in Nat
    BY DEF TypeOK
  <2>2. used' \in Nat
    BY <1>11, <2>1 DEF Increment, TypeOK
  <2> QED
    BY <1>11, <2>2 DEF Increment, TypeOK, Stage
<1> QED
  BY <1>1, <1>2, <1>3, <1>4, <1>5, <1>6, <1>7, <1>8, <1>9, <1>10, <1>11
  DEF Next, ProductStep, InviteStep, AcceptStep, UploadStep, Checked

-----------------------------------------------------------------------------
\* Products

\* Whoever the check lets through saw fewer rows than it was granted.
LEMMA RoomLeft ==
  ASSUME TypeOK, NEW c \in Creation, RoomForRow(c), Limit(c) # NoLimit
  PROVE  Cardinality(products) < Limit(c)
BY PlanLimitsAssumption DEF RoomForRow

LEMMA NextKeepsProducts ==
  ASSUME TypeOK, ProductsWereChecked, Next
  PROVE  ProductsWereChecked'
<1> USE PlanLimitsAssumption DEF Go, plan, staff, storage
<1>1. CASE EditPlan
  BY <1>1 DEF EditPlan, ProductsWereChecked
<1>2. ASSUME NEW q \in Checked, Check(q) PROVE ProductsWereChecked'
  <2>1. CASE q \in Creation
    <3>1. /\ seen'[q] = products
          /\ granted'[q] = Limit(q)
          /\ pc'[q] = IF RoomForRow(q) THEN "allowed" ELSE "failed"
      BY <1>2, <2>1 DEF Check, Rows, Room, TypeOK, Actor, Checked
    <3>2. \A c \in Creation \ {q} :
            seen'[c] = seen[c] /\ granted'[c] = granted[c] /\ pc'[c] = pc[c]
      BY <1>2, <2>1 DEF Check, TypeOK, Actor, Checked
    <3>3. q \notin products
      BY <1>2, <2>1 DEF Check, ProductsWereChecked
    <3>4. products' = products
      BY <1>2 DEF Check
    <3>5. pc'[q] \in {"allowed", "done"} /\ granted'[q] # NoLimit
            => Cardinality(seen'[q]) < granted'[q]
      BY <2>1, <3>1, RoomLeft
    <3> QED
      BY <3>1, <3>2, <3>3, <3>4, <3>5 DEF ProductsWereChecked, TypeOK
  <2>2. CASE q \notin Creation
    <3>1. \A c \in Creation :
            seen'[c] = seen[c] /\ granted'[c] = granted[c] /\ pc'[c] = pc[c]
      BY <1>2, <2>2 DEF Check, TypeOK, Actor, Checked
    <3> QED
      BY <1>2, <3>1 DEF Check, ProductsWereChecked, TypeOK
  <2> QED
    BY <2>1, <2>2
<1>3. ASSUME NEW c \in Creation, CreateProduct(c) \/ DeleteProduct(c)
      PROVE  ProductsWereChecked'
  BY <1>3 DEF CreateProduct, DeleteProduct, ProductsWereChecked, TypeOK, Actor, Checked
<1>4. ASSUME NEW q \in Invite \cup Accept \cup Reject \cup Upload, NEW s \in Stage,
             pc' = [pc EXCEPT ![q] = s], UNCHANGED <<products, seen>>,
             \A c \in Creation : granted'[c] = granted[c]
      PROVE  ProductsWereChecked'
  <2>1. \A c \in Creation : pc'[c] = pc[c]
    BY <1>4 DEF TypeOK, Actor, Checked
  <2> QED
    BY <1>4, <2>1 DEF ProductsWereChecked, TypeOK
<1>5. ASSUME NEW i \in Invite,
             FindUser(i) \/ FindPending(i) \/ InsertInvitation(i)
      PROVE  ProductsWereChecked'
  BY <1>4, <1>5 DEF FindUser, FindPending, InsertInvitation, Stage
<1>6. ASSUME NEW a \in Accept, AcceptStep(a) PROVE ProductsWereChecked'
  BY <1>4, <1>6 DEF AcceptStep, FindInvitation, CommitAccept, CutAccept, Stage
<1>7. ASSUME NEW r \in Reject, RejectStep(r) PROVE ProductsWereChecked'
  BY <1>4, <1>7 DEF RejectStep, ReadPending, UpdateRejected, Stage
<1>8. ASSUME NEW u \in Upload, StoreFile(u) \/ Increment(u) \/ CutUpload(u)
      PROVE  ProductsWereChecked'
  BY <1>4, <1>8 DEF StoreFile, Increment, CutUpload, Stage
<1>9. ASSUME NEW u \in Upload, ReadStorage(u) PROVE ProductsWereChecked'
  <2>1. \A c \in Creation : granted'[c] = granted[c]
    BY <1>9 DEF ReadStorage, TypeOK, Checked
  <2> QED
    BY <1>4, <1>9, <2>1 DEF ReadStorage, Stage
<1>10. ASSUME UNCHANGED <<products, seen, granted, pc>> PROVE ProductsWereChecked'
  BY <1>10 DEF ProductsWereChecked
<1>11. ASSUME NEW x \in Invite \cup Upload, Expire(x) \/ RemoveStaff(x) \/ DeleteFile(x)
       PROVE  ProductsWereChecked'
  BY <1>10, <1>11 DEF Expire, RemoveStaff, DeleteFile
<1> QED
  BY <1>1, <1>2, <1>3, <1>5, <1>6, <1>7, <1>8, <1>9, <1>11
  DEF Next, ProductStep, InviteStep, UploadStep, Checked

-----------------------------------------------------------------------------
\* Staff

LEMMA SeatLeft ==
  ASSUME TypeOK, NEW i \in Invite, RoomForRow(i), Limit(i) # NoLimit
  PROVE  Cardinality(members) + 1 < Limit(i)
BY DEF RoomForRow

LEMMA NextKeepsInvites ==
  ASSUME TypeOK, InvitesWereChecked, AcceptHoldsRow, RejectReadIt, Next
  PROVE  InvitesWereChecked'
<1> USE PlanLimitsAssumption DEF Go, plan, staff, storage
<1>1. CASE EditPlan
  BY <1>1 DEF EditPlan, InvitesWereChecked
<1>2. ASSUME NEW q \in Checked, Check(q) PROVE InvitesWereChecked'
  <2>1. CASE q \in Invite
    <3>1. /\ seen'[q] = members
          /\ granted'[q] = Limit(q)
          /\ pc'[q] = IF RoomForRow(q) THEN "allowed" ELSE "failed"
      BY <1>2, <2>1 DEF Check, Rows, Room, TypeOK, Actor, Checked
    <3>2. \A i \in Invite \ {q} :
            seen'[i] = seen[i] /\ granted'[i] = granted[i] /\ pc'[i] = pc[i]
      BY <1>2, <2>1 DEF Check, TypeOK, Actor, Checked
    <3>3. q \notin members /\ invitation[q] = "none"
      BY <1>2, <2>1 DEF Check, InvitesWereChecked
    <3>4. members' = members /\ invitation' = invitation
      BY <1>2 DEF Check
    <3>5. pc'[q] \in {"allowed", "new", "vacant", "done"} /\ granted'[q] # NoLimit
            => Cardinality(seen'[q]) + 1 < granted'[q]
      BY <2>1, <3>1, SeatLeft
    <3> QED
      BY <3>1, <3>2, <3>3, <3>4, <3>5 DEF InvitesWereChecked, TypeOK
  <2>2. CASE q \notin Invite
    <3>1. \A i \in Invite :
            seen'[i] = seen[i] /\ granted'[i] = granted[i] /\ pc'[i] = pc[i]
      BY <1>2, <2>2 DEF Check, TypeOK, Actor, Checked
    <3> QED
      BY <1>2, <3>1 DEF Check, InvitesWereChecked, TypeOK
  <2> QED
    BY <2>1, <2>2
<1>3. ASSUME NEW i \in Invite, FindUser(i) \/ FindPending(i) PROVE InvitesWereChecked'
  <2>1. PICK s \in {"failed", "new", "vacant"} :
          /\ pc' = [pc EXCEPT ![i] = s]
          /\ pc[i] \in {"allowed", "new"}
          /\ UNCHANGED <<members, invitation, seen, granted>>
    BY <1>3 DEF FindUser, FindPending
  <2>2. \A j \in Invite : pc'[j] = IF j = i THEN s ELSE pc[j]
    BY <2>1 DEF TypeOK, Actor, Checked
  <2> QED
    BY <2>1, <2>2 DEF InvitesWereChecked, TypeOK
<1>4. ASSUME NEW i \in Invite, InsertInvitation(i) PROVE InvitesWereChecked'
  BY <1>4 DEF InsertInvitation, InvitesWereChecked, TypeOK, Actor, Checked
<1>5. ASSUME NEW q \in Creation \cup Accept \cup Reject \cup Upload, NEW s \in Stage,
             pc' = [pc EXCEPT ![q] = s], UNCHANGED seen,
             \A i \in Invite : granted'[i] = granted[i],
             \A i \in Invite : invitation[i] = "none" => invitation'[i] = "none",
             \A i \in members' : i \in members \/ invitation[i] # "none"
      PROVE  InvitesWereChecked'
  <2>1. \A i \in Invite : pc'[i] = pc[i]
    BY <1>5 DEF TypeOK, Actor, Checked
  <2>2. members' \subseteq Invite
    BY <1>5, NextKeepsTypes DEF TypeOK
  <2> QED
    BY <1>5, <2>1, <2>2 DEF InvitesWereChecked, TypeOK
<1>6. ASSUME NEW a \in Accept, FindInvitation(a) \/ CutAccept(a) PROVE InvitesWereChecked'
  BY <1>5, <1>6 DEF FindInvitation, CutAccept, Stage
<1>7. ASSUME NEW a \in Accept, CommitAccept(a) PROVE InvitesWereChecked'
  <2>1. invitation[Target[a]] = "pending"
    BY <1>7 DEF CommitAccept, AcceptHoldsRow
  <2>2. \A i \in Invite : invitation[i] = "none" => invitation'[i] = "none"
    BY <1>7, <2>1 DEF CommitAccept, TypeOK
  <2>3. \A i \in members' : i \in members \/ invitation[i] # "none"
    BY <1>7, <2>1 DEF CommitAccept, TypeOK
  <2>4. PICK s \in Stage : pc' = [pc EXCEPT ![a] = s]
    BY <1>7 DEF CommitAccept, Stage
  <2>5. UNCHANGED <<seen, granted>>
    BY <1>7 DEF CommitAccept
  <2> QED
    BY <1>5, <2>2, <2>3, <2>4, <2>5
<1>8. ASSUME NEW r \in Reject, RejectStep(r) PROVE InvitesWereChecked'
  <2>1. CASE ReadPending(r)
    BY <1>5, <2>1 DEF ReadPending, Stage
  <2>2. CASE UpdateRejected(r)
    <3>1. \A i \in Invite : invitation[i] = "none" => invitation'[i] = "none"
      BY <2>2 DEF UpdateRejected, RejectReadIt, TypeOK
    <3> QED
      BY <1>5, <2>2, <3>1 DEF UpdateRejected, Stage
  <2> QED
    BY <1>8, <2>1, <2>2 DEF RejectStep
<1>9. ASSUME NEW u \in Upload, StoreFile(u) \/ Increment(u) \/ CutUpload(u)
      PROVE  InvitesWereChecked'
  BY <1>5, <1>9 DEF StoreFile, Increment, CutUpload, Stage
<1>10. ASSUME NEW u \in Upload, ReadStorage(u) PROVE InvitesWereChecked'
  <2>1. \A i \in Invite : granted'[i] = granted[i]
    BY <1>10 DEF ReadStorage, TypeOK, Checked
  <2> QED
    BY <1>5, <1>10, <2>1 DEF ReadStorage, Stage
<1>11. ASSUME NEW c \in Creation, CreateProduct(c) PROVE InvitesWereChecked'
  BY <1>5, <1>11 DEF CreateProduct, Stage
<1>12. ASSUME UNCHANGED <<invitation, seen, granted, pc>>, members' \subseteq members
       PROVE  InvitesWereChecked'
  BY <1>12 DEF InvitesWereChecked
<1>13. ASSUME NEW x \in Checked,
              Expire(x) \/ RemoveStaff(x) \/ DeleteFile(x) \/ DeleteProduct(x)
       PROVE  InvitesWereChecked'
  BY <1>12, <1>13 DEF Expire, RemoveStaff, DeleteFile, DeleteProduct
<1> QED
  BY <1>1, <1>2, <1>3, <1>4, <1>6, <1>7, <1>8, <1>9, <1>10, <1>11, <1>13
  DEF Next, ProductStep, InviteStep, AcceptStep, UploadStep, Checked

-----------------------------------------------------------------------------
\* Invitations

Decisions == AcceptHoldsRow /\ DoneIsDecided /\ RejectReadIt /\ InvitationDecidedOnce

LEMMA NextKeepsDecisions ==
  ASSUME TypeOK, InvitesWereChecked, Decisions, Next
  PROVE  Decisions'
<1> USE PlanLimitsAssumption
    DEF Go, plan, staff, storage, AcceptHoldsRow, DoneIsDecided, RejectReadIt,
        InvitationDecidedOnce
<1>1. ASSUME UNCHANGED <<invitation, rowLock>>,
             \A q \in Accept \cup Reject : pc'[q] = pc[q]
      PROVE  Decisions'
  BY <1>1 DEF Decisions
<1>2. ASSUME NEW q \in Checked, NEW s \in Stage, pc' = [pc EXCEPT ![q] = s],
             UNCHANGED <<invitation, rowLock>>
      PROVE  Decisions'
  <2>1. \A x \in Accept \cup Reject : pc'[x] = pc[x]
    BY <1>2 DEF TypeOK, Actor, Checked
  <2> QED
    BY <1>1, <1>2, <2>1
<1>3. CASE EditPlan
  BY <1>1, <1>3 DEF EditPlan
<1>4. ASSUME NEW x \in Checked,
             Expire(x) \/ RemoveStaff(x) \/ DeleteFile(x) \/ DeleteProduct(x)
      PROVE  Decisions'
  BY <1>1, <1>4 DEF Expire, RemoveStaff, DeleteFile, DeleteProduct
<1>5. ASSUME NEW q \in Checked,
             Check(q) \/ CreateProduct(q) \/ FindUser(q) \/ FindPending(q)
             \/ StoreFile(q) \/ ReadStorage(q) \/ Increment(q) \/ CutUpload(q)
      PROVE  Decisions'
  BY <1>2, <1>5 DEF Check, CreateProduct, FindUser, FindPending, StoreFile,
                    ReadStorage, Increment, CutUpload, Stage
<1>6. ASSUME NEW i \in Invite, InsertInvitation(i) PROVE Decisions'
  <2>1. invitation[i] = "none"
    BY <1>6 DEF InsertInvitation, InvitesWereChecked, TypeOK
  <2>2. \A q \in Accept \cup Reject : pc'[q] = pc[q]
    BY <1>6 DEF InsertInvitation, TypeOK, Actor, Checked
  <2>3. \A a \in Accept : pc[a] \in {"found", "done"} => Target[a] # i
    BY <2>1 DEF Decisions
  <2>4. \A j \in Invite : invitation'[j] = IF j = i THEN "pending" ELSE invitation[j]
    BY <1>6 DEF InsertInvitation, TypeOK
  <2>5. rowLock' = rowLock
    BY <1>6 DEF InsertInvitation
  <2> QED
    BY <2>2, <2>3, <2>4, <2>5 DEF Decisions
<1>7. ASSUME NEW a \in Accept, FindInvitation(a) PROVE Decisions'
  <2>1. CASE Live(Target[a])
    <3>1. \A b \in Accept : pc[b] = "found" => Target[b] # Target[a]
      BY <1>7, <2>1 DEF FindInvitation, Decisions, Live, Actor
    <3>2. \A x \in Accept \cup Reject : pc'[x] = IF x = a THEN "found" ELSE pc[x]
      BY <1>7, <2>1 DEF FindInvitation, TypeOK, Actor, Checked
    <3>3. /\ \A i \in Invite : rowLock'[i] = IF i = Target[a] THEN a ELSE rowLock[i]
          /\ invitation' = invitation
      BY <1>7, <2>1 DEF FindInvitation, TypeOK
    <3> QED
      BY <2>1, <3>1, <3>2, <3>3 DEF Decisions, Live
  <2>2. CASE ~Live(Target[a])
    <3>1. \A x \in Accept \cup Reject : pc'[x] = IF x = a THEN "failed" ELSE pc[x]
      BY <1>7, <2>2 DEF FindInvitation, TypeOK, Actor, Checked
    <3>2. UNCHANGED <<rowLock, invitation>>
      BY <1>7, <2>2 DEF FindInvitation
    <3> QED
      BY <3>1, <3>2 DEF Decisions
  <2> QED
    BY <2>1, <2>2
<1>8. ASSUME NEW a \in Accept, CommitAccept(a) \/ CutAccept(a) PROVE Decisions'
  <2>1. /\ pc[a] = "found"
        /\ rowLock[Target[a]] = a
        /\ invitation[Target[a]] = "pending"
    BY <1>8 DEF CommitAccept, CutAccept, Decisions
  <2>2. \A i \in Invite : rowLock'[i] = IF i = Target[a] THEN Nobody ELSE rowLock[i]
    BY <1>8 DEF CommitAccept, CutAccept, TypeOK
  <2>3. \A b \in Accept \ {a} : pc[b] \in {"found", "done"} => Target[b] # Target[a]
    BY <2>1 DEF Decisions
  <2>4. CASE pc' = [pc EXCEPT ![a] = "done"]
    <3>1. \A i \in Invite :
            invitation'[i] = IF i = Target[a] THEN "accepted" ELSE invitation[i]
      BY <1>8, <2>4 DEF CommitAccept, CutAccept, TypeOK, Actor
    <3>2. \A x \in Accept \cup Reject : pc'[x] = IF x = a THEN "done" ELSE pc[x]
      BY <2>4 DEF TypeOK, Actor, Checked
    <3> QED
      BY <2>1, <2>2, <2>3, <3>1, <3>2 DEF Decisions
  <2>5. ASSUME NEW s \in {"failed", "cut"}, pc' = [pc EXCEPT ![a] = s] PROVE Decisions'
    <3>1. invitation' = invitation
      BY <1>8, <2>5 DEF CommitAccept, CutAccept, TypeOK, Actor
    <3>2. \A x \in Accept \cup Reject : pc'[x] = IF x = a THEN s ELSE pc[x]
      BY <2>5 DEF TypeOK, Actor, Checked
    <3> QED
      BY <2>1, <2>2, <2>3, <3>1, <3>2 DEF Decisions
  <2> QED
    BY <1>8, <2>4, <2>5 DEF CommitAccept, CutAccept
<1>9. ASSUME NEW r \in Reject, ReadPending(r) PROVE Decisions'
  <2>1. PICK s \in {"found", "failed"} :
          /\ pc' = [pc EXCEPT ![r] = s]
          /\ s = "found" => invitation[Target[r]] = "pending"
          /\ pc[r] = "idle"
          /\ UNCHANGED <<rowLock, invitation>>
    BY <1>9 DEF ReadPending
  <2>2. \A x \in Accept \cup Reject : pc'[x] = IF x = r THEN s ELSE pc[x]
    BY <2>1 DEF TypeOK, Actor, Checked
  <2> QED
    BY <2>1, <2>2 DEF Decisions
<1>10. ASSUME NEW r \in Reject, UpdateRejected(r) PROVE Decisions'
  <2>1. /\ \A x \in Accept \cup Reject : pc'[x] = IF x = r THEN "done" ELSE pc[x]
        /\ \A i \in Invite :
             invitation'[i] = IF i = Target[r] THEN "rejected" ELSE invitation[i]
        /\ rowLock' = rowLock
    BY <1>10 DEF UpdateRejected, TypeOK, Actor, Checked
  <2>2. \A a \in Accept : pc[a] = "found" => Target[a] # Target[r]
    BY <1>10 DEF UpdateRejected, Decisions, Actor
  <2>3. \A a \in Accept : pc'[a] = pc[a]
    BY <2>1
  <2>4. AcceptHoldsRow' /\ DoneIsDecided' /\ RejectReadIt'
    BY <2>1, <2>2, <2>3 DEF Decisions
  <2>5. ASSUME NEW a \in Accept, pc'[a] = "done"
        PROVE  \/ invitation'[Target[a]] = "accepted"
               \/ \E x \in Reject : pc'[x] = "done" /\ Target[x] = Target[a]
    BY <2>1, <2>3, <2>5 DEF Decisions
  <2>6. InvitationDecidedOnce'
    BY <2>3, <2>5 DEF Decisions
  <2> QED
    BY <2>4, <2>6 DEF Decisions
<1> QED
  BY <1>3, <1>4, <1>5, <1>6, <1>7, <1>8, <1>9, <1>10
  DEF Next, ProductStep, InviteStep, AcceptStep, RejectStep, UploadStep, Checked

-----------------------------------------------------------------------------
\* Storage

StorageBounds == MostCovers /\ StorageWithinPlan

LEMMA NextKeepsStorage ==
  ASSUME TypeOK, StorageBounds, Next
  PROVE  StorageBounds'
<1> USE PlanLimitsAssumption
    DEF Go, plan, staff, storage, StorageBounds, MostCovers, StorageWithinPlan
<1>1. CASE EditPlan
  BY <1>1 DEF EditPlan, TypeOK, Terms
<1>2. ASSUME NEW q \in Actor, NEW s \in Stage \ {"counting"}, pc' = [pc EXCEPT ![q] = s],
             UNCHANGED <<terms, most, used>>,
             \A u \in Upload : pc[u] = "counting" => granted'[u] = granted[u]
      PROVE  StorageBounds'
  BY <1>2 DEF TypeOK, Actor, Checked
<1>3. ASSUME UNCHANGED <<terms, most, used, pc, granted>> PROVE StorageBounds'
  BY <1>3
<1>4. ASSUME NEW q \in Checked, Check(q) PROVE StorageBounds'
  <2>1. \A u \in Upload : pc[u] = "counting" => granted'[u] = granted[u]
    BY <1>4 DEF Check, TypeOK, Checked
  <2> QED
    BY <1>2, <1>4, <2>1 DEF Check, Stage, Actor
<1>5. ASSUME NEW q \in Actor,
             CreateProduct(q) \/ FindUser(q) \/ FindPending(q) \/ InsertInvitation(q)
             \/ FindInvitation(q) \/ CommitAccept(q) \/ CutAccept(q)
             \/ ReadPending(q) \/ UpdateRejected(q) \/ StoreFile(q) \/ CutUpload(q)
      PROVE  StorageBounds'
  BY <1>2, <1>5 DEF CreateProduct, FindUser, FindPending, InsertInvitation, FindInvitation,
       CommitAccept, CutAccept, ReadPending, UpdateRejected, StoreFile, CutUpload, Stage
<1>6. ASSUME NEW x \in Checked,
             Expire(x) \/ RemoveStaff(x) \/ DeleteFile(x) \/ DeleteProduct(x)
      PROVE  StorageBounds'
  BY <1>3, <1>6 DEF Expire, RemoveStaff, DeleteFile, DeleteProduct
<1>7. ASSUME NEW u \in Upload, ReadStorage(u) PROVE StorageBounds'
  BY <1>7 DEF ReadStorage, TypeOK, Terms, Actor, Checked
<1>8. ASSUME NEW u \in Upload, Increment(u) PROVE StorageBounds'
  <2>1. base[u] + Size[u] \in Nat /\ granted[u] \in Nat /\ granted[u] <= most
    BY <1>8 DEF Increment, TypeOK
  <2>2. used' <= most /\ used' <= ColumnMax
    BY <1>8, <2>1 DEF Increment, TypeOK
  <2> QED
    BY <1>8, <2>2 DEF Increment, TypeOK, Actor, Checked
<1> QED
  BY <1>1, <1>4, <1>5, <1>6, <1>7, <1>8
  DEF Next, ProductStep, InviteStep, AcceptStep, RejectStep, UploadStep, Checked, Actor

-----------------------------------------------------------------------------
LEMMA NextKeeps == IInv /\ [Next]_vars => IInv'
<1>1. IInv /\ Next => IInv'
  BY NextKeepsTypes, NextKeepsProducts, NextKeepsInvites, NextKeepsDecisions, NextKeepsStorage
  DEF IInv, Decisions, StorageBounds
<1>2. IInv /\ UNCHANGED vars => IInv'
  BY DEF IInv, vars, plan, staff, storage, TypeOK, ProductsWereChecked, InvitesWereChecked,
         AcceptHoldsRow, DoneIsDecided, RejectReadIt, MostCovers, StorageWithinPlan,
         InvitationDecidedOnce
<1> QED
  BY <1>1, <1>2

LEMMA Inductive == Spec => []IInv
BY InitEstablishes, NextKeeps, PTL DEF Spec

\* Sets of rows are finite.
LEMMA RowsAreFinite == IsFiniteSet(Creation) /\ IsFiniteSet(Invite)
<1>1. Creation \subseteq Actor /\ Invite \subseteq Actor
  BY DEF Actor, Checked
<1> QED
  BY <1>1, PlanLimitsAssumption, FS_Subset

\* When a check has seen all the other rows, they are one more than it saw at most.
LEMMA SeenAndOne ==
  ASSUME NEW A, NEW S, NEW x \in A, IsFiniteSet(S), A \ {x} \subseteq S
  PROVE  /\ Cardinality(A) \in Nat /\ Cardinality(S) \in Nat
         /\ Cardinality(A) <= Cardinality(S) + 1
<1>1. IsFiniteSet(A \ {x}) /\ Cardinality(A \ {x}) <= Cardinality(S)
  BY FS_Subset
<1>2. IsFiniteSet(A)
  <2>1. A = (A \ {x}) \cup {x}
    OBVIOUS
  <2> QED
    BY <1>1, <2>1, FS_AddElement
<1>3. Cardinality(A \ {x}) = Cardinality(A) - 1
  BY <1>2, FS_RemoveElement
<1> QED
  BY <1>1, <1>2, <1>3, FS_CardinalityType

LEMMA ChecksBound == IInv => OverLimitNeedsOverlap
<1> SUFFICES ASSUME IInv PROVE OverLimitNeedsOverlap
  OBVIOUS
<1>1. ASSUME NEW c \in products, granted[c] # NoLimit,
             \A d \in products \ {c} : d \in seen[c]
      PROVE  Cardinality(products) <= granted[c]
  <2>1. c \in Creation /\ pc[c] = "done" /\ seen[c] \subseteq Creation
    BY DEF IInv, TypeOK, ProductsWereChecked
  <2>2. IsFiniteSet(seen[c])
    BY <2>1, RowsAreFinite, FS_Subset
  <2>3. products \ {c} \subseteq seen[c]
    BY <1>1
  <2>4. granted[c] \in Nat /\ Cardinality(seen[c]) < granted[c]
    BY <1>1, <2>1 DEF IInv, TypeOK, ProductsWereChecked, Checked
  <2> QED
    BY <2>2, <2>3, <2>4, SeenAndOne
<1>2. ASSUME NEW m \in members, granted[m] # NoLimit,
             \A n \in members \ {m} : n \in seen[m]
      PROVE  Cardinality(members) + 1 <= granted[m]
  <2>1. m \in Invite /\ pc[m] = "done" /\ seen[m] \subseteq Invite
    BY DEF IInv, TypeOK, InvitesWereChecked
  <2>2. IsFiniteSet(seen[m])
    BY <2>1, RowsAreFinite, FS_Subset
  <2>3. members \ {m} \subseteq seen[m]
    BY <1>2
  <2>4. granted[m] \in Nat /\ Cardinality(seen[m]) + 1 < granted[m]
    BY <1>2, <2>1 DEF IInv, TypeOK, InvitesWereChecked, Checked
  <2>5. /\ Cardinality(members) \in Nat /\ Cardinality(seen[m]) \in Nat
        /\ Cardinality(members) <= Cardinality(seen[m]) + 1
    BY <2>2, <2>3, SeenAndOne
  <2> QED
    BY <2>4, <2>5
<1>3. /\ IsFiniteSet(products) /\ IsFiniteSet(members)
      /\ products \subseteq Checked /\ members \subseteq Checked
      /\ granted \in [Checked -> Nat \cup {NoLimit}]
  BY RowsAreFinite, FS_Subset DEF IInv, TypeOK, Checked
<1>4. Cardinality(products) \in Nat /\ Cardinality(members) \in Nat
  BY <1>3, FS_CardinalityType
<1> QED
  BY <1>1, <1>2, <1>3, <1>4 DEF OverLimitNeedsOverlap

-----------------------------------------------------------------------------
\* What is counted

\* An upload that is counting itself holds the store's row, so what it read is so.
CountingHoldsStore ==
  \A u \in Upload : pc[u] = "counting" =>
    /\ storeLock = u /\ base[u] = used
    /\ edits = 0 => granted[u] = terms.storage

\* The uploads its check saw left room for it.
CheckSawRoom ==
  /\ \A u \in Upload : seen[u] \subseteq Upload
  /\ \A u \in Upload : pc[u] \in {"allowed", "stored", "counting"} /\ edits = 0
       => SumOver(Size, seen[u]) + Size[u] <= terms.storage

UInv == CountingHoldsStore /\ CheckSawRoom /\ StorageIsCounted

LEMMA SizesCount ==
  ASSUME NEW S \in SUBSET Upload
  PROVE  IsFiniteSet(S) /\ Counts(Size, S) /\ SumOver(Size, S) \in Nat
<1>1. IsFiniteSet(Upload)
  BY PlanLimitsAssumption, FS_Subset DEF Actor, Checked
<1>2. IsFiniteSet(S) /\ Counts(Size, S)
  BY <1>1, PlanLimitsAssumption, FS_Subset DEF Counts
<1> QED
  BY <1>2, SumIsNat

\* Steps of requests that are not uploads.
LEMMA OthersKeepCounted ==
  ASSUME UInv, UNCHANGED <<storeLock, used, base, terms, edits>>,
         \A u \in Upload : pc'[u] = pc[u] /\ seen'[u] = seen[u] /\ granted'[u] = granted[u]
  PROVE  UInv'
<1>1. Counted' = Counted
  BY DEF Counted
<1> QED
  BY <1>1 DEF UInv, CountingHoldsStore, CheckSawRoom, StorageIsCounted

\* Steps of an upload that count nothing and read nothing.
LEMMA PlainKeepsCounted ==
  ASSUME TypeOK, UInv, NEW u \in Upload, NEW s \in {"stored", "cut"},
         pc' = [pc EXCEPT ![u] = s], pc[u] \in {"allowed", "stored", "counting"},
         s = "stored" => pc[u] = "allowed",
         UNCHANGED <<used, base, terms, edits, seen, granted>>,
         storeLock' = storeLock \/ (s = "cut" /\ storeLock = u)
  PROVE  UInv'
<1>1. \A v \in Upload : pc'[v] = IF v = u THEN s ELSE pc[v]
  BY DEF TypeOK, Actor, Checked
<1>2. Counted' = Counted
  BY <1>1 DEF Counted
<1>3. CountingHoldsStore'
  BY <1>1 DEF UInv, CountingHoldsStore
<1> QED
  BY <1>1, <1>2, <1>3 DEF UInv, CheckSawRoom, StorageIsCounted

LEMMA CheckKeepsCounted ==
  ASSUME TypeOK, UInv, NEW u \in Upload, Check(u)
  PROVE  UInv'
<1>1. /\ seen'[u] = Counted
      /\ pc'[u] = IF used + Size[u] <= terms.storage THEN "allowed" ELSE "failed"
      /\ pc[u] = "idle"
      /\ \A v \in Upload \ {u} : seen'[v] = seen[v] /\ granted'[v] = granted[v] /\ pc'[v] = pc[v]
      /\ UNCHANGED <<storeLock, used, base, terms, edits>>
  BY PlanLimitsAssumption
  DEF Check, Rows, Room, RoomForFile, Go, TypeOK, Actor, Checked, plan, storage
<1>2. Counted' = Counted /\ Counted \subseteq Upload
  BY <1>1 DEF Counted
<1>3. CountingHoldsStore'
  BY <1>1 DEF UInv, CountingHoldsStore
<1>4. CheckSawRoom'
  BY <1>1, <1>2 DEF UInv, CheckSawRoom, StorageIsCounted
<1>5. StorageIsCounted'
  BY <1>1, <1>2 DEF UInv, StorageIsCounted
<1> QED
  BY <1>3, <1>4, <1>5 DEF UInv

LEMMA ReadKeepsCounted ==
  ASSUME TypeOK, UInv, NEW u \in Upload, ReadStorage(u)
  PROVE  UInv'
<1>1. /\ \A v \in Upload : /\ pc'[v] = IF v = u THEN "counting" ELSE pc[v]
                           /\ base'[v] = IF v = u THEN used ELSE base[v]
                           /\ granted'[v] = IF v = u THEN terms.storage ELSE granted[v]
      /\ pc[u] = "stored" /\ storeLock = Nobody /\ storeLock' = u
      /\ UNCHANGED <<used, terms, edits, seen>>
  BY DEF ReadStorage, Go, TypeOK, Actor, Checked, plan
<1>2. Counted' = Counted
  BY <1>1 DEF Counted
<1>3. \A v \in Upload : pc[v] # "counting"
  BY <1>1, PlanLimitsAssumption DEF UInv, CountingHoldsStore, Actor, Checked
<1>4. CountingHoldsStore'
  BY <1>1, <1>3 DEF CountingHoldsStore
<1> QED
  BY <1>1, <1>2, <1>4 DEF UInv, CheckSawRoom, StorageIsCounted

\* Under the lock the sum read is the sum of the uploads counted, and the upload is
\* added to both; if it is refused although nothing was counted since its check and
\* the plan is what it was, the column is what cannot hold it.
LEMMA IncrementKeepsCounted ==
  ASSUME TypeOK, UInv, NEW u \in Upload, Increment(u)
  PROVE  UInv'
<1> DEFINE total == used + Size[u]
<1>1. /\ pc[u] = "counting" /\ storeLock' = Nobody
      /\ storeLock = u /\ base[u] = used
      /\ UNCHANGED <<base, terms, edits, seen, granted>>
  BY DEF Increment, plan, UInv, CountingHoldsStore
<1>2. \A v \in Upload : v # u => pc[v] # "counting"
  BY <1>1 DEF UInv, CountingHoldsStore
<1>3. u \notin Counted /\ Counted \subseteq Upload /\ used \in Nat /\ Size[u] \in Nat \ {0}
  BY <1>1, PlanLimitsAssumption DEF Counted, TypeOK
<1>4. CASE total <= granted[u] /\ total <= ColumnMax
  <2>1. /\ used' = total
        /\ \A v \in Upload : pc'[v] = IF v = u THEN "done" ELSE pc[v]
    BY <1>1, <1>4 DEF Increment, Go, TypeOK, Actor, Checked
  <2>2. Counted' = Counted \cup {u}
    BY <2>1 DEF Counted
  <2>3. SumOver(Size, Counted \cup {u}) = SumOver(Size, Counted) + Size[u]
    BY <1>3, SizesCount, SumAddsOne
  <2>4. used' = SumOver(Size, Counted')
    BY <2>1, <2>2, <2>3 DEF UInv, StorageIsCounted
  <2>5. ASSUME NEW v \in Upload, pc'[v] = "late"
        PROVE  (\E w \in Counted' : w \notin seen'[v]) \/ edits' > 0 \/ used' + Size[v] > ColumnMax
    <3>1. (\E w \in Counted : w \notin seen[v]) \/ edits > 0 \/ used + Size[v] > ColumnMax
      BY <2>1, <2>5 DEF UInv, StorageIsCounted
    <3>2. Size[v] \in Nat /\ ColumnMax \in Nat
      BY PlanLimitsAssumption
    <3> QED
      BY <1>1, <1>3, <2>1, <2>2, <3>1, <3>2
  <2>6. CountingHoldsStore'
    BY <1>2, <2>1 DEF CountingHoldsStore
  <2>7. CheckSawRoom'
    BY <1>1, <2>1 DEF UInv, CheckSawRoom
  <2> QED
    BY <2>4, <2>5, <2>6, <2>7 DEF UInv, StorageIsCounted
<1>5. CASE ~(total <= granted[u] /\ total <= ColumnMax)
  <2>1. /\ used' = used
        /\ \A v \in Upload : pc'[v] = IF v = u THEN "late" ELSE pc[v]
    BY <1>1, <1>5 DEF Increment, Go, TypeOK, Actor, Checked
  <2>2. Counted' = Counted
    BY <1>1, <2>1 DEF Counted
  <2>3. (\E w \in Counted : w \notin seen[u]) \/ edits > 0 \/ total > ColumnMax
    <3> SUFFICES ASSUME Counted \subseteq seen[u], edits = 0, total <= ColumnMax
                 PROVE  FALSE
      BY <1>3, PlanLimitsAssumption DEF TypeOK
    <3>1. granted[u] = terms.storage /\ terms.storage \in Nat
      BY <1>1 DEF UInv, CountingHoldsStore, TypeOK, Terms
    <3>2. SumOver(Size, seen[u]) + Size[u] <= terms.storage
      BY <1>1 DEF UInv, CheckSawRoom
    <3>3. seen[u] \subseteq Upload /\ used = SumOver(Size, Counted)
      BY DEF UInv, CheckSawRoom, StorageIsCounted
    <3>4. used <= SumOver(Size, seen[u]) /\ SumOver(Size, seen[u]) \in Nat
      BY <3>3, SizesCount, SumGrows
    <3> QED
      BY <1>3, <1>5, <3>1, <3>2, <3>4
  <2>4. StorageIsCounted'
    BY <1>1, <2>1, <2>2, <2>3 DEF UInv, StorageIsCounted
  <2>5. CountingHoldsStore'
    BY <1>2, <2>1 DEF CountingHoldsStore
  <2>6. CheckSawRoom'
    BY <1>1, <2>1 DEF UInv, CheckSawRoom
  <2> QED
    BY <2>4, <2>5, <2>6 DEF UInv
<1> QED
  BY <1>4, <1>5

LEMMA CountedStepKeeps == IInv /\ UInv /\ [Next]_vars => UInv'
<1> SUFFICES ASSUME TypeOK, UInv, [Next]_vars PROVE UInv'
  BY DEF IInv
<1> USE DEF plan, staff, storage
<1>1. CASE UNCHANGED vars
  BY <1>1, OthersKeepCounted DEF vars
<1>2. CASE EditPlan
  <2>1. edits' > 0 /\ edits' # 0 /\ UNCHANGED <<storeLock, used, base, pc, seen, granted>>
    BY <1>2 DEF EditPlan, TypeOK
  <2> QED
    BY <2>1 DEF UInv, CountingHoldsStore, CheckSawRoom, StorageIsCounted, Counted
<1>3. ASSUME NEW q \in Creation \cup Invite, Check(q) PROVE UInv'
  BY <1>3, OthersKeepCounted, PlanLimitsAssumption DEF Check, Go, TypeOK, Actor, Checked
<1>4. ASSUME NEW q \in Creation \cup Invite \cup Accept \cup Reject,
             CreateProduct(q) \/ FindUser(q) \/ FindPending(q) \/ InsertInvitation(q)
             \/ FindInvitation(q) \/ CommitAccept(q) \/ CutAccept(q)
             \/ ReadPending(q) \/ UpdateRejected(q)
      PROVE  UInv'
  <2>1. PICK s : pc' = [pc EXCEPT ![q] = s]
    BY <1>4 DEF CreateProduct, FindUser, FindPending, InsertInvitation, FindInvitation,
         CommitAccept, CutAccept, ReadPending, UpdateRejected, Go
  <2>2. UNCHANGED <<storeLock, used, base, terms, edits, seen, granted>>
    BY <1>4 DEF CreateProduct, FindUser, FindPending, InsertInvitation, FindInvitation,
         CommitAccept, CutAccept, ReadPending, UpdateRejected
  <2> QED
    BY <2>1, <2>2, OthersKeepCounted, PlanLimitsAssumption DEF TypeOK, Actor, Checked
<1>5. ASSUME NEW x, Expire(x) \/ RemoveStaff(x) \/ DeleteFile(x) \/ DeleteProduct(x)
      PROVE  UInv'
  BY <1>5, OthersKeepCounted DEF Expire, RemoveStaff, DeleteFile, DeleteProduct
<1>6. ASSUME NEW u \in Upload, StoreFile(u) PROVE UInv'
  BY <1>6, PlainKeepsCounted DEF StoreFile, Go
<1>7. ASSUME NEW u \in Upload, CutUpload(u) PROVE UInv'
  BY <1>7, PlainKeepsCounted DEF CutUpload, Go
<1> QED
  BY <1>1, <1>2, <1>3, <1>4, <1>5, <1>6, <1>7,
     CheckKeepsCounted, ReadKeepsCounted, IncrementKeepsCounted
  DEF Next, ProductStep, InviteStep, AcceptStep, RejectStep, UploadStep

-----------------------------------------------------------------------------
\* Every reachable state has the declared types: in particular used_storage
\* never falls below zero.
THEOREM TypeCorrect == Spec => []TypeOK
BY Inductive, PTL DEF IInv

\* A store exceeds the products or the users of its plan only through a row
\* that the check of another had not seen: of checks made one after the other,
\* each before the next row was there, none lets too much through.
THEOREM OnlyOverlapExceeds == Spec => []OverLimitNeedsOverlap
BY Inductive, ChecksBound, PTL

\* Uploads that pass their checks together never count more storage than the
\* plan has allowed: incrementStorage checks again under the lock.
THEOREM StorageStaysInPlan == Spec => []StorageWithinPlan
BY Inductive, PTL DEF IInv

\* Of the requests that accept an invitation one succeeds: the row is locked
\* from the look to the commit.
THEOREM AcceptedOnce == Spec => []InvitationDecidedOnce
BY Inductive, PTL DEF IInv

\* used_storage is what the uploads that were answered with 201 add up to, in
\* whatever order they counted themselves; an upload refused after its file was
\* stored had another counted since its check, or the plan edited, or meets the
\* column's limit.
THEOREM StorageAddsUp == Spec => []StorageIsCounted
<1>1. Init => UInv
  <2> SUFFICES ASSUME Init PROVE UInv
    OBVIOUS
  <2>1. /\ Counted = {} /\ used = 0
        /\ \A u \in Upload : pc[u] = "idle" /\ seen[u] = {}
    BY DEF Init, Counted, Actor, Checked
  <2> QED
    BY <2>1, SumOfEmpty DEF UInv, CountingHoldsStore, CheckSawRoom, StorageIsCounted
<1>2. UInv => StorageIsCounted
  BY DEF UInv
<1> QED
  BY <1>1, <1>2, CountedStepKeeps, Inductive, PTL DEF Spec
=============================================================================
