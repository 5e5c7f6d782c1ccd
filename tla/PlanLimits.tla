------------------------------ MODULE PlanLimits ------------------------------
(***************************************************************************)
(* The quotas of one store's plan: products, staff and storage.              *)
(*                                                                         *)
(*   modules/planLimits/planLimits.service.ts   the checks, incrementStorage *)
(*   modules/product/                           create, delete             *)
(*   modules/staff/                             invite, accept, reject, remove *)
(*   modules/upload/                            upload, delete             *)
(*   modules/superAdmin/                        updatePlan                 *)
(*                                                                         *)
(* A check is a transaction of its own, made before the handler: it locks    *)
(* the store's row (FOR UPDATE), reads and commits.  Nothing it has read     *)
(* changes while it holds the lock except by deletions and edits of the plan, *)
(* which could as well have come later: a check is one step.  Rows that refer *)
(* to the store take a key-share lock on it when inserted, so they wait for   *)
(* the lock; what the handler does after its check is not protected by it.    *)
(***************************************************************************)
EXTENDS Naturals, FiniteSets, Sums

CONSTANTS
  Creation,      \* POST /merchant/products; also the product each one makes
  Invite,        \* POST /merchant/staff/invite; also its invitation, its member
  Accept,        \* POST /merchant/staff/invitations/:token/accept
  Reject,        \* POST /merchant/staff/invitations/:token/reject
  Upload,        \* POST /merchant/upload; also its file
  Target,        \* the invitation whose token an Accept or a Reject has
  Emails,        \* the address each Invite is for
  Size,          \* the size of each upload
  Plans,         \* the terms the super admin may give the plan
  NoLimit,       \* no limit on products or staff: a store without a plan
  DefaultMax,    \* the storage of a store without a plan
  ColumnMax,     \* the largest value of the integer column used_storage
  MaxEdits,      \* bound on edits of the plan
  Loads,         \* bound: the sets of requests that are made together
  Nobody         \* an unlocked row

Terms == [product : Nat \cup {NoLimit}, staff : Nat \cup {NoLimit}, storage : Nat]
NoPlan == [product |-> NoLimit, staff |-> NoLimit, storage |-> DefaultMax]

Checked == Creation \cup Invite \cup Upload
Actor == Checked \cup Accept \cup Reject

ASSUME PlanLimitsAssumption ==
  /\ IsFiniteSet(Actor)
  /\ Creation \cap (Invite \cup Upload \cup Accept \cup Reject) = {}
  /\ Invite \cap (Upload \cup Accept \cup Reject) = {}
  /\ Upload \cap (Accept \cup Reject) = {}
  /\ Accept \cap Reject = {}
  /\ Target \in [Accept \cup Reject -> Invite]
  /\ Size \in [Upload -> Nat \ {0}]
  /\ NoLimit \notin Nat
  /\ Plans \subseteq [product : Nat, staff : Nat, storage : Nat]
  /\ DefaultMax \in Nat
  /\ ColumnMax \in Nat
  /\ Loads \subseteq SUBSET Actor
  /\ Nobody \notin Actor

VARIABLES
  load,       \* the requests that are made, fixed from the start
  terms,      \* what the store's plan allows now
  products,   \* the products of the store, by the request that made them
  members,    \* the users of the store but its owner, by their invitation
  invitation, \* status of each invitation, "none" before it is inserted
  expired,    \* invitations past their expiresAt
  rowLock,    \* the transaction that holds the row of each invitation
  storeLock,  \* the upload whose transaction holds the row of the store
  used,       \* used_storage of the store
  files,      \* the uploads whose file is in the bucket
  pc,         \* where each request is
  base,       \* used_storage as read by an upload that is counting itself
  seen,       \* history: the rows each check counted; for uploads, those counted
  granted,    \* the limit each check compared with
  most,       \* history: the most storage the store has been allowed
  edits       \* history: how often the plan was edited

plan == <<load, terms, most, edits>>
staff == <<members, invitation, expired, rowLock>>
storage == <<storeLock, used, files, base>>
vars == <<plan, products, staff, storage, pc, seen, granted>>

InvitationStatus == {"none", "pending", "accepted", "rejected"}
Stage == {"idle", "allowed", "new", "vacant", "found", "stored", "counting",
          "done", "late", "cut", "failed"}

-----------------------------------------------------------------------------
\* Helpers

Go(q, stage) == pc' = [pc EXCEPT ![q] = stage]

Counted == {u \in Upload : pc[u] = "done"}

\* What the check of a request counts: SELECT count(*), or the used_storage.
Rows(q) == IF q \in Creation THEN products
           ELSE IF q \in Invite THEN members ELSE Counted

Limit(q) == IF q \in Creation THEN terms.product
            ELSE IF q \in Invite THEN terms.staff ELSE terms.storage

\* Broken: the limit itself still leaves room.
RoomForOneMore(q) ==
  LET rows == IF q \in Invite THEN Cardinality(members) + 1
              ELSE Cardinality(products)
  IN Limit(q) = NoLimit \/ rows <= Limit(q)

\* used >= max refuses another row; the owner is one of the users.
RoomForRow(q) ==
  LET rows == IF q \in Invite THEN Cardinality(members) + 1
              ELSE Cardinality(products)
  IN Limit(q) = NoLimit \/ rows < Limit(q)

RoomForFile(u) == used + Size[u] <= terms.storage

Room(q) == IF q \in Upload THEN RoomForFile(q) ELSE RoomForRow(q)

Live(i) == invitation[i] = "pending" /\ i \notin expired

-----------------------------------------------------------------------------
\* The plan

Init ==
  /\ load \in Loads
  /\ terms \in Plans \cup {NoPlan}
  /\ products = {}
  /\ members = {}
  /\ invitation = [i \in Invite |-> "none"]
  /\ expired = {}
  /\ rowLock = [i \in Invite |-> Nobody]
  /\ storeLock = Nobody
  /\ used = 0
  /\ files = {}
  /\ pc = [q \in Actor |-> "idle"]
  /\ base = [u \in Upload |-> 0]
  /\ seen = [q \in Checked |-> {}]
  /\ granted = [q \in Checked |-> NoLimit]
  /\ most = terms.storage
  /\ edits = 0

\* checkProductLimit, checkStaffLimit and checkStorageLimit, each committed
\* before the handler begins.
Check(q) ==
  /\ pc[q] = "idle"
  /\ q \in load
  /\ storeLock = Nobody
  /\ seen' = [seen EXCEPT ![q] = Rows(q)]
  /\ granted' = [granted EXCEPT ![q] = Limit(q)]
  /\ Go(q, IF Room(q) THEN "allowed" ELSE "failed")
  /\ UNCHANGED <<plan, products, staff, storage>>

\* PATCH /admin/plans/:id, of the plan the store has.
EditPlan ==
  /\ edits < MaxEdits
  /\ terms \in Plans
  /\ \E new \in Plans \ {terms} :
       /\ terms' = new
       /\ most' = IF new.storage > most THEN new.storage ELSE most
  /\ edits' = edits + 1
  /\ UNCHANGED <<load, products, staff, storage, pc, seen, granted>>

-----------------------------------------------------------------------------
\* Products

CreateProduct(c) ==
  /\ pc[c] = "allowed"
  /\ storeLock = Nobody
  /\ products' = products \cup {c}
  /\ Go(c, "done")
  /\ UNCHANGED <<plan, staff, storage, seen, granted>>

DeleteProduct(c) ==
  /\ c \in products
  /\ products' = products \ {c}
  /\ UNCHANGED <<plan, staff, storage, pc, seen, granted>>

-----------------------------------------------------------------------------
\* Staff

\* inviteStaff looks for a user of the store with this address ...
FindUser(i) ==
  /\ pc[i] = "allowed"
  /\ Go(i, IF \E m \in members : Emails[m] = Emails[i] THEN "failed" ELSE "new")
  /\ UNCHANGED <<plan, products, staff, storage, seen, granted>>

\* ... and for an invitation of it that still stands ...
FindPending(i) ==
  /\ pc[i] = "new"
  /\ Go(i, IF \E j \in Invite : Emails[j] = Emails[i] /\ Live(j)
           THEN "failed" ELSE "vacant")
  /\ UNCHANGED <<plan, products, staff, storage, seen, granted>>

\* ... and inserts one.
InsertInvitation(i) ==
  /\ pc[i] = "vacant"
  /\ storeLock = Nobody
  /\ invitation' = [invitation EXCEPT ![i] = "pending"]
  /\ Go(i, "done")
  /\ UNCHANGED <<plan, products, members, expired, rowLock, storage, seen, granted>>

Expire(i) ==
  /\ Live(i)
  /\ expired' = expired \cup {i}
  /\ UNCHANGED <<plan, products, members, invitation, rowLock, storage, pc, seen, granted>>

\* Broken: the invitation is read without FOR UPDATE.
FindUnlocked(a) ==
  /\ pc[a] = "idle"
  /\ a \in load
  /\ Go(a, IF Live(Target[a]) THEN "found" ELSE "failed")
  /\ UNCHANGED <<plan, products, staff, storage, seen, granted>>

\* acceptInvitation: the invitation, locked (FOR UPDATE) while the password is
\* hashed.  The lock is waited for, then the row is looked at again.
FindInvitation(a) ==
  LET i == Target[a] IN
  /\ pc[a] = "idle"
  /\ a \in load
  /\ IF Live(i)
     THEN /\ rowLock[i] = Nobody
          /\ rowLock' = [rowLock EXCEPT ![i] = a]
          /\ Go(a, "found")
     ELSE Go(a, "failed") /\ UNCHANGED rowLock
  /\ UNCHANGED <<plan, products, members, invitation, expired, storage, seen, granted>>

\* Then its status and the user, whose address is unique; and the commit.
CommitAccept(a) ==
  LET i == Target[a] IN
  /\ pc[a] = "found"
  /\ storeLock = Nobody
  /\ rowLock' = [rowLock EXCEPT ![i] = Nobody]
  /\ IF \E m \in members : Emails[m] = Emails[i]
     THEN Go(a, "failed") /\ UNCHANGED <<members, invitation>>
     ELSE /\ invitation' = [invitation EXCEPT ![i] = "accepted"]
          /\ members' = members \cup {i}
          /\ Go(a, "done")
  /\ UNCHANGED <<plan, products, expired, storage, seen, granted>>

\* rejectInvitation reads the invitation, expired or not ...
ReadPending(r) ==
  /\ pc[r] = "idle"
  /\ r \in load
  /\ Go(r, IF invitation[Target[r]] = "pending" THEN "found" ELSE "failed")
  /\ UNCHANGED <<plan, products, staff, storage, seen, granted>>

\* ... and updates it by its id alone, once no transaction holds the row.
UpdateRejected(r) ==
  /\ pc[r] = "found"
  /\ rowLock[Target[r]] = Nobody
  /\ invitation' = [invitation EXCEPT ![Target[r]] = "rejected"]
  /\ Go(r, "done")
  /\ UNCHANGED <<plan, products, members, expired, rowLock, storage, seen, granted>>

RemoveStaff(i) ==
  /\ i \in members
  /\ members' = members \ {i}
  /\ UNCHANGED <<plan, products, invitation, expired, rowLock, storage, pc, seen, granted>>

-----------------------------------------------------------------------------
\* Storage

StoreFile(u) ==
  /\ pc[u] = "allowed"
  /\ files' = files \cup {u}
  /\ Go(u, "stored")
  /\ UNCHANGED <<plan, products, staff, storeLock, used, base, seen, granted>>

\* Broken: the store is read without its lock.
ReadUnlocked(u) ==
  /\ pc[u] = "stored"
  /\ base' = [base EXCEPT ![u] = used]
  /\ granted' = [granted EXCEPT ![u] = terms.storage]
  /\ Go(u, "counting")
  /\ UNCHANGED <<plan, products, staff, storeLock, used, files, seen>>

\* incrementStorage locks the store and reads it and its plan ...
ReadStorage(u) ==
  /\ pc[u] = "stored"
  /\ storeLock = Nobody
  /\ storeLock' = u
  /\ base' = [base EXCEPT ![u] = used]
  /\ granted' = [granted EXCEPT ![u] = terms.storage]
  /\ Go(u, "counting")
  /\ UNCHANGED <<plan, products, staff, used, files, seen>>

\* Broken: the check made before the upload is trusted.
IncrementUnchecked(u) ==
  LET sum == base[u] + Size[u] IN
  /\ pc[u] = "counting"
  /\ storeLock' = Nobody
  /\ IF sum <= ColumnMax
     THEN used' = sum /\ Go(u, "done")
     ELSE Go(u, "late") /\ UNCHANGED used
  /\ UNCHANGED <<plan, products, staff, files, base, seen, granted>>

\* ... and writes the sum, or throws: the plan's limit, or more than an
\* integer column holds.  The file is stored either way.
Increment(u) ==
  LET sum == base[u] + Size[u] IN
  /\ pc[u] = "counting"
  /\ storeLock' = Nobody
  /\ IF sum <= granted[u] /\ sum <= ColumnMax
     THEN used' = sum /\ Go(u, "done")
     ELSE Go(u, "late") /\ UNCHANGED used
  /\ UNCHANGED <<plan, products, staff, files, base, seen, granted>>

\* Broken: the storage of a file that was never counted is given back.
DeleteAndSubtract(u) ==
  /\ u \in files
  /\ files' = files \ {u}
  /\ used' = used - Size[u]
  /\ UNCHANGED <<plan, products, staff, storeLock, base, pc, seen, granted>>

\* DELETE /merchant/upload: the file goes, used_storage stays.
DeleteFile(u) ==
  /\ u \in files
  /\ files' = files \ {u}
  /\ UNCHANGED <<plan, products, staff, storeLock, used, base, pc, seen, granted>>

-----------------------------------------------------------------------------
\* A process dies: PostgreSQL rolls back what it had open.

CutUpload(u) ==
  /\ pc[u] \in {"stored", "counting"}
  /\ storeLock' = IF storeLock = u THEN Nobody ELSE storeLock
  /\ Go(u, "cut")
  /\ UNCHANGED <<plan, products, staff, used, files, base, seen, granted>>

CutAccept(a) ==
  /\ pc[a] = "found"
  /\ rowLock' = [rowLock EXCEPT ![Target[a]] = Nobody]
  /\ Go(a, "cut")
  /\ UNCHANGED <<plan, products, members, invitation, expired, storage, seen, granted>>

-----------------------------------------------------------------------------
ProductStep(c) == Check(c) \/ CreateProduct(c) \/ DeleteProduct(c)
InviteStep(i) ==
  \/ Check(i) \/ FindUser(i) \/ FindPending(i) \/ InsertInvitation(i)
  \/ Expire(i) \/ RemoveStaff(i)
AcceptStep(a) == FindInvitation(a) \/ CommitAccept(a) \/ CutAccept(a)
RejectStep(r) == ReadPending(r) \/ UpdateRejected(r)
UploadStep(u) ==
  \/ Check(u) \/ StoreFile(u) \/ ReadStorage(u) \/ Increment(u)
  \/ DeleteFile(u) \/ CutUpload(u)

Next ==
  \/ EditPlan
  \/ \E c \in Creation : ProductStep(c)
  \/ \E i \in Invite : InviteStep(i)
  \/ \E a \in Accept : AcceptStep(a)
  \/ \E r \in Reject : RejectStep(r)
  \/ \E u \in Upload : UploadStep(u)

Spec == Init /\ [][Next]_vars

-----------------------------------------------------------------------------
\* Properties

\* Types; a row is locked by a transaction on it, used_storage never negative.
TypeOK ==
  /\ load \subseteq Actor
  /\ terms \in Terms
  /\ products \subseteq Creation
  /\ members \subseteq Invite
  /\ invitation \in [Invite -> InvitationStatus]
  /\ expired \subseteq Invite
  /\ rowLock \in [Invite -> Accept \cup {Nobody}]
  /\ storeLock \in Upload \cup {Nobody}
  /\ used \in Nat
  /\ files \subseteq Upload
  /\ pc \in [Actor -> Stage]
  /\ base \in [Upload -> Nat]
  /\ seen \in [Checked -> SUBSET Checked]
  /\ granted \in [Checked -> Nat \cup {NoLimit}]
  /\ most \in Nat
  /\ edits \in Nat

\* The checks bound what they count only as far as they see it: a store has
\* more products, or more users, than the check of one of them allowed only
\* when there is another that this check had not seen.  A product: created
\* since.  A member: invited before or since, for an invitation takes no seat
\* until it is accepted and acceptance checks nothing.
OverLimitNeedsOverlap ==
  /\ \A c \in products :
       granted[c] # NoLimit /\ Cardinality(products) > granted[c]
         => \E d \in products \ {c} : d \notin seen[c]
  /\ \A m \in members :
       granted[m] # NoLimit /\ Cardinality(members) + 1 > granted[m]
         => \E n \in members \ {m} : n \notin seen[m]

\* used_storage is the sum of the uploads that were answered with 201, none
\* lost to another that counted itself at the same time, whether or not their
\* files were deleted since.  An upload is refused after its file was stored
\* only when another was counted since its check, when the plan was edited, or
\* when the column cannot hold the sum.
StorageIsCounted ==
  /\ used = SumOver(Size, Counted)
  /\ \A u \in Upload : pc[u] = "late" =>
       \/ \E v \in Counted : v \notin seen[u]
       \/ edits > 0
       \/ used + Size[u] > ColumnMax

\* The storage counted never exceeds the most the plan has allowed, however
\* many uploads passed their checks together: incrementStorage checks again.
StorageWithinPlan == used <= most /\ used <= ColumnMax

\* One acceptance of an invitation succeeds at most, also when its member has
\* been removed since, and the invitation stays accepted unless a rejection
\* that had read it while it was pending comes late.
InvitationDecidedOnce ==
  \A a \in Accept : pc[a] = "done" =>
    /\ \A b \in Accept \ {a} : pc[b] = "done" => Target[b] # Target[a]
    /\ \/ invitation[Target[a]] = "accepted"
       \/ \E r \in Reject : pc[r] = "done" /\ Target[r] = Target[a]
=============================================================================
