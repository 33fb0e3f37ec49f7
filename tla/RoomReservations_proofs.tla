---------------------- MODULE RoomReservations_proofs ----------------------
(***************************************************************************)
(* What RoomReservations guarantees for every room size, every set of      *)
(* reservations and every number of requests that overlap.                 *)
(***************************************************************************)
EXTENDS RoomReservations, FiniteSetTheorems, TLAPS

-----------------------------------------------------------------------------
(* The helpers keep documents documents and rooms rooms.                   *)

LEMMA CountIsNat ==
    ASSUME NEW S \in SUBSET Reservations
    PROVE  Cardinality(S) \in Nat
BY RoomAssumption, FS_Subset, FS_CardinalityType

LEMMA CapacityIsNat == Capacity \in Nat
BY RoomAssumption, FS_CardinalityType DEF Capacity

LEMMA FreeType == Free \in Bed
BY DEF Free, Bed

LEMMA MergeDocumentType ==
    ASSUME NEW d \in Document, NEW seen \in Document, NEW new \in Document
    PROVE  MergeDocument(d, seen, new) \in Document
BY DEF MergeDocument, Modified, Document

LEMMA MergeRoomType ==
    ASSUME NEW rm \in Room, NEW snap \in Room, NEW goal \in Room
    PROVE  MergeRoom(rm, snap, goal) \in Room
<1>1. \A b \in Beds : /\ rm.beds[b] \in Bed
                      /\ snap.beds[b] \in Bed
                      /\ goal.beds[b] \in Bed
  BY DEF Room
<1>2. [b \in Beds |->
        [status |-> Modified(rm.beds[b].status, snap.beds[b].status,
                             goal.beds[b].status),
         by     |-> Modified(rm.beds[b].by, snap.beds[b].by,
                             goal.beds[b].by)]] \in [Beds -> Bed]
  BY <1>1 DEF Modified, Bed
<1>3. Modified(rm.count, snap.count, goal.count) \in Nat
  BY DEF Modified, Room
<1> QED
  BY <1>2, <1>3 DEF MergeRoom, Room

LEMMA CounterType ==
    ASSUME NEW rm \in Room
    PROVE  Increase(rm) \in Room /\ Decrease(rm) \in Room
BY CapacityIsNat DEF Increase, Decrease, Room

LEMMA AssignType ==
    ASSUME NEW rm \in Room, NEW r \in Reservations, NEW bed \in Beds,
           NEW st \in {"reserved", "occupied"}
    PROVE  Assign(rm, r, bed, st) \in Room
<1>1. \A b \in Beds : rm.beds[b] \in Bed
  BY DEF Room
<1>2. [status |-> st, by |-> r] \in Bed
  BY DEF Bed
<1>3. [b \in Beds |-> CASE b = bed -> [status |-> st, by |-> r]
                        [] b # bed /\ rm.beds[b].by = r -> Free
                        [] OTHER -> rm.beds[b]] \in [Beds -> Bed]
  BY <1>1, <1>2, FreeType
<1> QED
  BY <1>3 DEF Assign, Room

LEMMA VacateType ==
    ASSUME NEW rm \in Room, NEW r \in Reservations, NEW bed \in Beds
    PROVE  Vacate(rm, r, bed) \in Room
<1>1. \A b \in Beds : rm.beds[b] \in Bed
  BY DEF Room
<1>2. [b \in Beds |-> IF b = bed \/ rm.beds[b].by = r
                      THEN Free ELSE rm.beds[b]] \in [Beds -> Bed]
  BY <1>1, FreeType
<1> QED
  BY <1>2 DEF Vacate, Room

LEMMA SyncType ==
    ASSUME NEW rm \in Room, NEW r \in Reservations, NEW bed \in Beds,
           NEW old, NEW new
    PROVE  Sync(rm, r, bed, old, new) \in Room
BY CounterType, AssignType, VacateType DEF Sync

LEMMA SweepType ==
    ASSUME NEW rm \in Room
    PROVE  Reconciled(rm) \in Room /\ Recalculated(rm) \in Room
<1>1. \A b \in Beds : rm.beds[b] \in Bed
  BY DEF Room
<1>2. Cardinality(Live(res)) \in Nat
  BY CountIsNat DEF Live
<1>3. ReconciledBeds(rm) \in [Beds -> Bed]
  BY <1>1, FreeType DEF ReconciledBeds
<1>4. Reconciled(rm) \in Room
  BY <1>2, <1>3 DEF Reconciled, Room
<1>5. Recalculated(rm) \in Room
  <2> DEFINE On(b) == {r \in Live(res) : res[r].bed = b}
             Held(r) == [status |-> IF res[r].status = "moveIn"
                                    THEN "occupied" ELSE "reserved",
                         by |-> r]
             New(b) == IF rm.beds[b].status = "maintenance" THEN rm.beds[b]
                       ELSE IF On(b) = {} THEN Free
                       ELSE Held(CHOOSE r \in On(b) : TRUE)
  <2>1. \A r \in Reservations : Held(r) \in Bed
    BY DEF Bed
  <2>2. ASSUME NEW b \in Beds PROVE New(b) \in Bed
    <3>1. CASE On(b) = {}
      BY <3>1, <1>1, FreeType
    <3>2. CASE On(b) # {}
      <4>1. (CHOOSE r \in On(b) : TRUE) \in Reservations
        BY <3>2 DEF Live
      <4> HIDE DEF Held, On
      <4> QED
        BY <3>2, <4>1, <2>1, <1>1
    <3> QED
      BY <3>1, <3>2
  <2> HIDE DEF New
  <2>3. [b \in Beds |-> New(b)] \in [Beds -> Bed]
    BY <2>2
  <2>4. Recalculated(rm) =
            [count |-> Cardinality(Live(res)), beds |-> [b \in Beds |-> New(b)]]
    BY DEF Recalculated, New
  <2> QED
    BY <2>3, <2>4, <1>2 DEF Room
<1> QED
  BY <1>4, <1>5

\* The operation of a worker says what record it holds.
LEMMA WorkerKind ==
    ASSUME TypeOK, NEW w \in Workers
    PROVE  /\ worker[w].op \in Ops => worker[w] \in Request
           /\ worker[w].op \in {"reconcile", "recalculate"}
                => worker[w] \in Sweep
BY DEF TypeOK, Idle, Request, Sweep, Ops, Plain, TwoWrites, Syncing

-----------------------------------------------------------------------------
(* Type correctness                                                        *)

\* What a request carries after it loaded a document.
LEMMA LoadType ==
    ASSUME TypeOK, NEW w \in Workers, NEW op \in Ops, NEW r \in Reservations,
           NEW new \in Document, Load(w, op, r, new)
    PROVE  TypeOK'
<1>1. res[r] \in Document /\ res[r].status \in Statuses
  BY DEF TypeOK, Document
<1>2. [op |-> op, r |-> r, pc |-> "loaded", old |-> res[r].status,
       seen |-> res[r], new |-> new] \in Request
  BY <1>1 DEF Request
<1> QED
  BY <1>2 DEF TypeOK, Load

LEMMA ProceedType ==
    ASSUME TypeOK, NEW w \in Workers, Proceed(w)
    PROVE  TypeOK'
<1> DEFINE j == worker[w]
<1>1. /\ j.op \in Ops => j \in Request
      /\ j.op \in {"reconcile", "recalculate"} => j \in Sweep
  BY WorkerKind
<1>2. ASSUME j \in Request PROVE Saved(j) \in [Reservations -> Document]
  <2>1. /\ j.r \in Reservations
        /\ res[j.r] \in Document
        /\ j.seen \in Document
        /\ j.new \in Document
    BY <1>2 DEF Request, TypeOK
  <2>2. MergeDocument(res[j.r], j.seen, j.new) \in Document
    BY <2>1, MergeDocumentType
  <2> QED
    BY <2>2 DEF Saved, TypeOK
<1>3. ASSUME j \in Request
      PROVE  Sync(room, j.r, j.new.bed, j.old, j.new.status) \in Room
  <2>1. j.r \in Reservations /\ j.new.bed \in Beds /\ room \in Room
    BY <1>3 DEF Request, Document, TypeOK
  <2> QED
    BY <2>1, SyncType
<1>4. CASE AdminLoad(w)
  <2>1. j \in Request /\ res[j.r] \in Document /\ j.new.status \in Statuses
    BY <1>1, <1>4 DEF AdminLoad, Ops, Plain, TwoWrites, Syncing, Request,
       Document, TypeOK
  <2>2. worker'[w] \in Request
    BY <2>1, <1>4 DEF AdminLoad, Request, Document, TypeOK
  <2> QED
    BY <2>2, <1>4 DEF AdminLoad, TypeOK
<1>5. CASE Save(w)
  <2>1. j \in Request
    BY <1>1, <1>5 DEF Save, Ops
  <2>2. [j EXCEPT !.pc = "saved"] \in Request
    BY <2>1 DEF Request
  <2>3. res' \in [Reservations -> Document] /\ room' \in Room
    BY <1>2, <1>3, <2>1, <1>5 DEF Save, TypeOK
  <2> QED
    BY <2>2, <2>3, <1>5 DEF Save, Finish, TypeOK
<1>6. CASE SaveRejected(w)
  BY <1>6 DEF SaveRejected, Finish, TypeOK
<1>7. CASE SyncRoom(w)
  BY <1>1, <1>3, <1>7 DEF SyncRoom, Finish, TypeOK, Ops, Plain, TwoWrites
<1>8. CASE SyncLost(w)
  BY <1>8 DEF SyncLost, Finish, TypeOK
<1>9. CASE SubmitSave(w)
  <2>1. j \in Request
    BY <1>1, <1>9 DEF SubmitSave, Ops
  <2>2. Submitted(j) \in [Reservations -> Document]
    <3>1. j.r \in Reservations /\ j.new.bed \in Beds
      BY <2>1 DEF Request, Document
    <3>3. res[j.r] \in Document
      BY <3>1 DEF TypeOK
    <3>2. [res[j.r] EXCEPT !.status = "pending_application_review",
                           !.bed = j.new.bed,
                           !.approved = FALSE] \in Document
      BY <3>1, <3>3 DEF Document, Statuses
    <3> QED
      BY <3>1, <3>2 DEF Submitted, TypeOK
  <2> QED
    BY <2>2, <1>9 DEF SubmitSave, Finish, TypeOK
<1>10. CASE ProofSave(w)
  <2>1. j \in Request
    BY <1>1, <1>10 DEF ProofSave, Ops
  <2>2. Proven(j) \in [Reservations -> Document]
    <3>1. j.r \in Reservations
      BY <2>1 DEF Request
    <3>3. res[j.r] \in Document
      BY <3>1 DEF TypeOK
    <3>2. [res[j.r] EXCEPT !.status = "payment_pending",
                           !.fee = IF res[j.r].fee = "none" THEN "claimed"
                                   ELSE res[j.r].fee]
            \in Document
      BY <3>3 DEF Document, Statuses
    <3> QED
      BY <3>1, <3>2 DEF Proven, TypeOK
  <2> QED
    BY <2>2, <1>10 DEF ProofSave, Finish, TypeOK
<1>11. CASE AbandonFree(w)
  <2>1. j.new.bed \in Beds
    BY <1>1, <1>11 DEF AbandonFree, Ops, Plain, TwoWrites, Request, Document
  <2>2. room' \in Room
    BY <2>1, <1>11 DEF AbandonFree, Room, Bed, TypeOK
  <2> QED
    BY <2>2, <1>11 DEF AbandonFree, Finish, TypeOK
<1>12. CASE SweepDerive(w)
  <2>1. j \in Sweep
    BY <1>1, <1>12 DEF SweepDerive
  <2>2. Reconciled(j.snap) \in Room /\ Recalculated(j.snap) \in Room
    BY <2>1, SweepType DEF Sweep
  <2>3. worker'[w] \in Sweep
    BY <2>1, <2>2, <1>12 DEF SweepDerive, Sweep, TypeOK
  <2> QED
    BY <2>3, <1>12 DEF SweepDerive, TypeOK
<1>13. CASE SweepSave(w)
  <2>1. MergeRoom(room, j.snap, j.goal) \in Room
    BY <1>1, <1>13, MergeRoomType DEF SweepSave, Sweep, TypeOK
  <2> QED
    BY <2>1, <1>13 DEF SweepSave, Finish, TypeOK
<1> QED
  BY <1>4, <1>5, <1>6, <1>7, <1>8, <1>9, <1>10, <1>11, <1>12, <1>13
     DEF Proceed

LEMMA RequestType ==
    ASSUME TypeOK, NEW w \in Workers, NEW r \in Reservations,
           Applicant(w, r) \/ Admin(w, r) \/ System(w, r)
    PROVE  TypeOK'
<1>1. res[r] \in Document
  BY DEF TypeOK
<1>2. ASSUME NEW b \in Beds, CreateLoad(w, r, b) PROVE TypeOK'
  <2> DEFINE holders == {q \in Reservations : Holds(res, q)}
  <2>1. Cardinality(holders) \in Nat
    BY CountIsNat
  <2>2. room' \in Room
    BY <2>1, <1>2 DEF CreateLoad, Room, TypeOK
  <2>3. [res[r] EXCEPT !.status = "pending", !.bed = b] \in Document
    BY <1>1 DEF Document, Statuses
  <2>4. [op |-> "create", r |-> r, pc |-> "loaded", old |-> "none",
         seen |-> res[r],
         new |-> [res[r] EXCEPT !.status = "pending", !.bed = b]] \in Request
    BY <2>3, <1>1 DEF Request, Ops, Plain, Statuses
  <2> QED
    BY <2>2, <2>4, <1>2 DEF CreateLoad, TypeOK
<1>3. ASSUME NEW b \in Beds, SubmitLoad(w, r, b) PROVE TypeOK'
  <2>1. [res[r] EXCEPT !.status = "pending_application_review", !.bed = b]
            \in Document
    BY <1>1 DEF Document, Statuses
  <2> QED
    BY <2>1, <1>3, LoadType DEF SubmitLoad, Ops
<1>4. CASE CheckoutLoad(w, r)
  <2>1. [res[r] EXCEPT !.status = "payment_pending", !.checkout = TRUE]
            \in Document
    BY <1>1 DEF Document, Statuses
  <2> QED
    BY <2>1, <1>4, LoadType DEF CheckoutLoad, Ops, Plain
<1>5. CASE ProofLoad(w, r)
  BY <1>1, <1>5, LoadType DEF ProofLoad, Ops
<1>6. ASSUME NEW op \in Ops, NEW st \in Statuses,
             Load(w, op, r, [res[r] EXCEPT !.status = st])
      PROVE  TypeOK'
  <2>1. [res[r] EXCEPT !.status = st] \in Document
    BY <1>1 DEF Document
  <2> QED
    BY <2>1, <1>6, LoadType
<1>7. /\ {"userCancel", "releaseSlot", "softDelete", "abandon", "expire",
          "noShow"} \subseteq Ops
      /\ {"cancelled", "moveOut"} \subseteq Statuses
  BY DEF Ops, Plain, TwoWrites, Syncing, Statuses
<1>8. CASE \/ UserCancelLoad(w, r) \/ ReleaseSlotLoad(w, r)
           \/ SoftDeleteLoad(w, r) \/ AbandonLoad(w, r)
           \/ ExpireLoad(w, r) \/ NoShowLoad(w, r)
  BY <1>6, <1>7, <1>8 DEF UserCancelLoad, ReleaseSlotLoad, SoftDeleteLoad,
     AbandonLoad, ExpireLoad, NoShowLoad
<1>9. CASE RequestCancellationLoad(w, r)
  <2>1. [res[r] EXCEPT !.request = TRUE, !.reason = TRUE] \in Document
    BY <1>1 DEF Document
  <2> QED
    BY <2>1, <1>9, LoadType DEF RequestCancellationLoad, Ops, Plain
<1>10. CASE WithdrawCancellationLoad(w, r)
  <2>1. [res[r] EXCEPT !.request = FALSE, !.reason = FALSE] \in Document
    BY <1>1 DEF Document
  <2> QED
    BY <2>1, <1>10, LoadType DEF WithdrawCancellationLoad, Ops, Plain
<1>11. ASSUME NEW to, AdminCheck(w, r, to) PROVE TypeOK'
  <2>1. to \in Statuses /\ res[r].status \in Statuses
    BY <1>1, <1>11 DEF AdminCheck, AdminTargets, Statuses, Document,
       SafeRestore
  <2>2. [res[r] EXCEPT !.status = to] \in Document
    BY <1>1, <2>1 DEF Document
  <2>3. [op |-> "admin", r |-> r, pc |-> "checked", old |-> res[r].status,
         seen |-> res[r], new |-> [res[r] EXCEPT !.status = to]] \in Request
    BY <1>1, <2>1, <2>2 DEF Request, Ops, Plain, TwoWrites, Syncing
  <2> QED
    BY <2>3, <1>11 DEF AdminCheck, TypeOK
<1>12. CASE ApproveCancellationLoad(w, r)
  <2>1. [res[r] EXCEPT !.status = "cancelled", !.request = FALSE,
                       !.reason = TRUE] \in Document
    BY <1>1 DEF Document, Statuses
  <2> QED
    BY <2>1, <1>12, LoadType
       DEF ApproveCancellationLoad, Ops, Plain, TwoWrites, Syncing
<1>13. CASE RejectCancellationLoad(w, r)
  <2>1. [res[r] EXCEPT !.request = FALSE] \in Document
    BY <1>1 DEF Document
  <2> QED
    BY <2>1, <1>13, LoadType DEF RejectCancellationLoad, Ops, Plain
<1>14. CASE ArchiveLoad(w, r)
  <2>1. [res[r] EXCEPT !.archived = TRUE] \in Document
    BY <1>1 DEF Document
  <2> QED
    BY <2>1, <1>14, LoadType DEF ArchiveLoad, Ops, Plain
<1>15. CASE RestoreLoad(w, r)
  <2>1. [res[r] EXCEPT !.archived = FALSE,
                       !.status = IF @ \in SafeRestore THEN @
                                  ELSE "cancelled"] \in Document
    BY <1>1 DEF Document, Statuses
  <2> QED
    BY <2>1, <1>15, LoadType DEF RestoreLoad, Ops, Plain
<1>16. CASE MoveOut(w, r)
  <2>1. [res[r] EXCEPT !.status = "moveOut"] \in Document
    BY <1>1 DEF Document, Statuses
  <2>2. res' \in [Reservations -> Document]
    BY <2>1, <1>16 DEF MoveOut, TypeOK
  <2>3. Decrease(room) \in Room /\ res[r].bed \in Beds
    BY <1>1, CounterType DEF TypeOK, Document
  <2>4. room' \in Room
    BY <2>3, <1>16, FreeType DEF MoveOut, Room
  <2> QED
    BY <2>2, <2>4, <1>16 DEF MoveOut, TypeOK
<1>17. CASE Settle(w, r)
  <2>1. [res[r] EXCEPT !.status = "reserved", !.fee = "verified"]
            \in Document
    BY <1>1 DEF Document, Statuses
  <2>2. res' \in [Reservations -> Document]
    BY <2>1, <1>17 DEF Settle, TypeOK
  <2>3. Cardinality(Live(res')) \in Nat
    BY CountIsNat DEF Live
  <2>4. Assign(room, r, res'[r].bed, "reserved") \in Room
    BY <2>2, AssignType DEF TypeOK, Document
  <2>5. room' \in Room
    BY <2>3, <2>4, <1>17 DEF Settle, Settled, Room
  <2> QED
    BY <2>2, <2>5, <1>17 DEF Settle, TypeOK
<1>18. CASE FlagOverdue(w, r)
  BY <1>1, <1>18 DEF FlagOverdue, Document, Statuses, TypeOK
<1> QED
  BY <1>2, <1>3, <1>4, <1>5, <1>8, <1>9, <1>10, <1>11, <1>12, <1>13, <1>14,
     <1>15, <1>16, <1>17, <1>18 DEF Applicant, Admin, System

LEMMA RoomWorkType ==
    ASSUME TypeOK, NEW w \in Workers, RoomWork(w)
    PROVE  TypeOK'
<1>1. ASSUME NEW b \in Beds, StartMaintenance(w, b) PROVE TypeOK'
  <2>1. [status |-> "maintenance", by |-> NoRes] \in Bed
    BY DEF Bed
  <2>2. room' \in Room
    BY <2>1, <1>1 DEF StartMaintenance, Room, TypeOK
  <2> QED
    BY <2>2, <1>1 DEF StartMaintenance, TypeOK
<1>2. ASSUME NEW b \in Beds, EndMaintenance(w, b) PROVE TypeOK'
  <2>1. room' \in Room
    BY <1>2 DEF EndMaintenance, Room, Bed, TypeOK
  <2> QED
    BY <2>1, <1>2 DEF EndMaintenance, TypeOK
<1>3. ASSUME NEW op \in {"reconcile", "recalculate"}, SweepLoad(w, op)
      PROVE  TypeOK'
  BY <1>3 DEF SweepLoad, Sweep, TypeOK
<1> QED
  BY <1>1, <1>2, <1>3 DEF RoomWork

\* The documents, the room and what every request carries keep their types.
THEOREM TypeCorrect == Spec => []TypeOK
<1>1. Init => TypeOK
  BY FreeType DEF Init, TypeOK, Absent, Document, Statuses, Room
<1>2. TypeOK /\ [Next]_vars => TypeOK'
  <2> SUFFICES ASSUME TypeOK, [Next]_vars PROVE TypeOK'
    OBVIOUS
  <2>1. CASE Next
    BY <2>1, ProceedType, RoomWorkType, RequestType DEF Next
  <2>2. CASE UNCHANGED vars
    BY <2>2 DEF vars, TypeOK
  <2> QED
    BY <2>1, <2>2
<1> QED
  BY <1>1, <1>2, PTL DEF Spec

-----------------------------------------------------------------------------
(* One tenant per bed                                                      *)

\* Every write of a document but one passes the index; the exception leaves
\* the statuses the index covers.
LEMMA IndexStep ==
    ASSUME TypeOK, OneTenantPerBed, [Next]_vars
    PROVE  OneTenantPerBed'
<1>1. CASE UNCHANGED res
  BY <1>1 DEF OneTenantPerBed, IndexAllows, Holds
<1>2. ASSUME NEW w \in Workers, Proceed(w) PROVE OneTenantPerBed'
  <2>1. res' = res \/ IndexAllows(res')
    BY <1>2 DEF Proceed, AdminLoad, Save, SaveAllowed, SaveRejected, SyncRoom,
       SyncLost, SubmitSave, ProofSave, AbandonFree, SweepDerive, SweepSave
  <2> QED
    BY <2>1, <1>1 DEF OneTenantPerBed
<1>3. ASSUME NEW w \in Workers, RoomWork(w) PROVE OneTenantPerBed'
  BY <1>1, <1>3 DEF RoomWork, StartMaintenance, EndMaintenance, SweepLoad
<1>4. ASSUME NEW w \in Workers, NEW r \in Reservations,
             Applicant(w, r) \/ Admin(w, r) \/ System(w, r)
      PROVE  OneTenantPerBed'
  <2>1. CASE FlagOverdue(w, r)
    <3>1. \A q \in Reservations : Holds(res', q) => Holds(res, q)
      BY <2>1 DEF FlagOverdue, Holds, BedHolding, TypeOK
    <3>2. \A q \in Reservations : res'[q].bed = res[q].bed
      BY <2>1 DEF FlagOverdue, TypeOK, Document
    <3> QED
      BY <3>1, <3>2 DEF OneTenantPerBed, IndexAllows
  <2>2. CASE MoveOut(w, r) \/ Settle(w, r)
    BY <2>2 DEF MoveOut, Settle, OneTenantPerBed
  <2>3. CASE ~(FlagOverdue(w, r) \/ MoveOut(w, r) \/ Settle(w, r))
    <3>1. UNCHANGED res
      BY <1>4, <2>3 DEF Applicant, Admin, System, Load, CreateLoad,
         SubmitLoad, CheckoutLoad, ProofLoad, UserCancelLoad,
         RequestCancellationLoad, WithdrawCancellationLoad, AdminCheck,
         ApproveCancellationLoad, RejectCancellationLoad, ReleaseSlotLoad,
         SoftDeleteLoad, ArchiveLoad, RestoreLoad, AbandonLoad, ExpireLoad,
         NoShowLoad
    <3> QED
      BY <3>1, <1>1
  <2> QED
    BY <2>1, <2>2, <2>3
<1> QED
  BY <1>1, <1>2, <1>3, <1>4 DEF Next, vars

\* No bed is ever promised to two reservations.
THEOREM OneTenant == Spec => []OneTenantPerBed
<1>1. Init => OneTenantPerBed
  BY DEF Init, Absent, OneTenantPerBed, IndexAllows, Holds, BedHolding
<1> QED
  BY <1>1, IndexStep, TypeCorrect, PTL DEF Spec

-----------------------------------------------------------------------------
(* The counter stays within the capacity                                   *)

\* The live reservations sit on distinct beds, so they are not more than the
\* beds: what makes every recount a safe value.
LEMMA LiveFit ==
    ASSUME NEW rs \in [Reservations -> Document], IndexAllows(rs)
    PROVE  Cardinality(Live(rs)) <= Capacity
<1> DEFINE seat == [r \in Live(rs) |-> rs[r].bed]
<1>1. seat \in [Live(rs) -> Beds]
  BY DEF Live, Document
<1>2. IsFiniteSet(Live(rs)) /\ Cardinality(Live(rs)) \in Nat
  BY RoomAssumption, FS_Subset, FS_CardinalityType DEF Live
<1>3. SUFFICES ASSUME Cardinality(Beds) < Cardinality(Live(rs)) PROVE FALSE
  BY <1>2, CapacityIsNat DEF Capacity
<1>4. \E x, y \in Live(rs) : x # y /\ seat[x] = seat[y]
  <2> HIDE DEF seat
  <2> QED
    BY <1>1, <1>2, <1>3, FS_PigeonHole, RoomAssumption, Zenon
<1> QED
  BY <1>4 DEF IndexAllows, Holds, Live, Active, BedHolding

\* A sweep that is under way will not save more than the capacity either.
CounterInv ==
    /\ OccupancyWithinCapacity
    /\ \A w \in Workers : worker[w].op \in {"reconcile", "recalculate"}
                            => worker[w].goal.count <= Capacity

LEMMA SyncCount ==
    ASSUME NEW rm \in Room, rm.count <= Capacity,
           NEW r, NEW bed, NEW old, NEW new
    PROVE  Sync(rm, r, bed, old, new).count <= Capacity
<1> rm.count \in Nat /\ Capacity \in Nat
  BY CapacityIsNat DEF Room
<1>1. /\ Increase(rm) \in Room /\ Increase(rm).count <= Capacity
      /\ Decrease(rm) \in Room /\ Decrease(rm).count <= Capacity
  <2>1. Increase(rm).count <= Capacity
    BY DEF Increase, Room
  <2>2. Decrease(rm).count <= Capacity
    BY DEF Decrease, Room
  <2> QED
    BY <2>1, <2>2, CounterType
<1>2. \A x \in Room : /\ \A st : Assign(x, r, bed, st).count = x.count
                     /\ Vacate(x, r, bed).count = x.count
  BY DEF Assign, Vacate, Room
<1> QED
  BY <1>1, <1>2 DEF Sync

LEMMA CounterProceed ==
    ASSUME TypeOK, OneTenantPerBed, CounterInv, NEW w \in Workers, Proceed(w)
    PROVE  CounterInv'
<1> DEFINE j == worker[w]
<1>1. room \in Room /\ room.count <= Capacity
  BY DEF TypeOK, CounterInv, OccupancyWithinCapacity
<1>2. \A v \in Workers \ {w} : worker'[v] = worker[v]
  BY DEF Proceed, AdminLoad, Save, SaveRejected, SyncRoom, SyncLost,
     SubmitSave, ProofSave, AbandonFree, SweepDerive, SweepSave, Finish,
     TypeOK
<1>3. CASE SweepDerive(w)
  <2>1. j \in Sweep
    BY <1>3, WorkerKind DEF SweepDerive
  <2>2. Cardinality(Live(res)) <= Capacity
    BY LiveFit DEF TypeOK, OneTenantPerBed
  <2>3. /\ Reconciled(j.snap).count <= Capacity
        /\ Recalculated(j.snap).count <= Capacity
    BY <2>2 DEF Reconciled, Recalculated
  <2>4. worker'[w].goal.count <= Capacity
    BY <2>1, <2>3, <1>3 DEF SweepDerive, Sweep, TypeOK
  <2> QED
    BY <2>4, <1>1, <1>2, <1>3
       DEF SweepDerive, CounterInv, OccupancyWithinCapacity, Capacity
<1>4. CASE ~SweepDerive(w)
  <2>1. worker'[w].op \notin {"reconcile", "recalculate"}
    <3>1. CASE AdminLoad(w) \/ Save(w)
      <4>1. j \in Request
        BY <3>1, WorkerKind
           DEF AdminLoad, Save, Ops, Plain, TwoWrites, Syncing
      <4>2. worker'[w] = Idle \/ worker'[w].op = j.op
        BY <3>1, <4>1 DEF AdminLoad, Save, Finish, TypeOK, Request
      <4> QED
        BY <4>1, <4>2
           DEF Request, Ops, Plain, TwoWrites, Syncing, Idle
    <3>2. CASE ~(AdminLoad(w) \/ Save(w))
      BY <3>2, <1>4 DEF Proceed, SaveRejected, SyncRoom, SyncLost,
         SubmitSave, ProofSave, AbandonFree, SweepSave, Finish, TypeOK, Idle
    <3> QED
      BY <3>1, <3>2
  <2>2. room'.count <= Capacity
    <3>1. CASE Save(w) \/ SyncRoom(w)
      BY <3>1, <1>1, SyncCount DEF Save, SyncRoom
    <3>2. CASE AbandonFree(w)
      BY <3>2, <1>1 DEF AbandonFree, Room
    <3>3. CASE SweepSave(w)
      <4>1. j.goal.count <= Capacity
        BY <3>3 DEF SweepSave, CounterInv
      <4> QED
        BY <4>1, <3>3, <1>1 DEF SweepSave, MergeRoom, Modified
    <3>4. CASE \/ AdminLoad(w) \/ SaveRejected(w) \/ SyncLost(w)
               \/ SubmitSave(w) \/ ProofSave(w)
      BY <3>4, <1>1 DEF AdminLoad, SaveRejected, SyncLost, SubmitSave,
         ProofSave
    <3> QED
      BY <3>1, <3>2, <3>3, <3>4, <1>4 DEF Proceed
  <2> QED
    BY <2>1, <2>2, <1>2
       DEF CounterInv, OccupancyWithinCapacity, Capacity
<1> QED
  BY <1>3, <1>4

LEMMA CounterRequest ==
    ASSUME TypeOK, OneTenantPerBed', TypeOK', CounterInv,
           NEW w \in Workers, NEW r \in Reservations,
           Applicant(w, r) \/ Admin(w, r) \/ System(w, r)
    PROVE  CounterInv'
<1>1. room \in Room /\ room.count <= Capacity
  BY DEF TypeOK, CounterInv, OccupancyWithinCapacity
<1>2. /\ \A v \in Workers \ {w} : worker'[v] = worker[v]
      /\ \/ worker'[w] = worker[w]
         \/ worker'[w].op \notin {"reconcile", "recalculate"}
  <2>1. ASSUME NEW op \in Ops, NEW new, Load(w, op, r, new)
        PROVE  /\ \A v \in Workers \ {w} : worker'[v] = worker[v]
               /\ worker'[w].op \notin {"reconcile", "recalculate"}
    BY <2>1 DEF Load, TypeOK, Ops, Plain, TwoWrites, Syncing
  <2>2. CASE MoveOut(w, r) \/ Settle(w, r) \/ FlagOverdue(w, r)
    BY <2>2 DEF MoveOut, Settle, FlagOverdue
  <2>3. ASSUME NEW b \in Beds, CreateLoad(w, r, b)
        PROVE  /\ \A v \in Workers \ {w} : worker'[v] = worker[v]
               /\ worker'[w].op \notin {"reconcile", "recalculate"}
    <3> DEFINE new == [res[r] EXCEPT !.status = "pending", !.bed = b]
               seen == res[r]
    <3>1. worker' = [worker EXCEPT ![w] =
                      [op |-> "create", r |-> r, pc |-> "loaded",
                       old |-> "none", seen |-> seen, new |-> new]]
      BY <2>3, Zenon DEF CreateLoad
    <3> HIDE DEF new, seen
    <3> QED
      BY <3>1 DEF TypeOK
  <2>4. ASSUME NEW to \in Decisions, AdminCheck(w, r, to)
        PROVE  /\ \A v \in Workers \ {w} : worker'[v] = worker[v]
               /\ worker'[w].op \notin {"reconcile", "recalculate"}
    <3> DEFINE new == [res[r] EXCEPT !.status = to]
               seen == res[r]
    <3>1. worker' = [worker EXCEPT ![w] =
                      [op |-> "admin", r |-> r, pc |-> "checked",
                       old |-> res[r].status, seen |-> seen, new |-> new]]
      BY <2>4, Zenon DEF AdminCheck
    <3> HIDE DEF new, seen
    <3> QED
      BY <3>1 DEF TypeOK
  <2>5. CASE Applicant(w, r) /\ ~\E b \in Beds : CreateLoad(w, r, b)
    BY <2>1, <2>5 DEF Applicant, SubmitLoad, CheckoutLoad, ProofLoad,
       UserCancelLoad, RequestCancellationLoad, WithdrawCancellationLoad,
       Ops, Plain, TwoWrites, Syncing
  <2>6. CASE \/ ApproveCancellationLoad(w, r) \/ RejectCancellationLoad(w, r)
             \/ ReleaseSlotLoad(w, r) \/ SoftDeleteLoad(w, r)
             \/ ArchiveLoad(w, r) \/ RestoreLoad(w, r) \/ AbandonLoad(w, r)
             \/ ExpireLoad(w, r) \/ NoShowLoad(w, r)
    BY <2>1, <2>6 DEF ApproveCancellationLoad, RejectCancellationLoad,
       ReleaseSlotLoad, SoftDeleteLoad, ArchiveLoad, RestoreLoad,
       AbandonLoad, ExpireLoad, NoShowLoad, Ops, Plain, TwoWrites, Syncing
  <2> QED
    BY <2>2, <2>3, <2>4, <2>5, <2>6 DEF Applicant, Admin, System
<1>3. room'.count <= Capacity
  <2>1. ASSUME NEW b \in Beds, CreateLoad(w, r, b) PROVE room'.count <= Capacity
    <3>1. Cardinality({q \in Reservations : Holds(res, q)}) \in Nat
      BY CountIsNat
    <3> QED
      BY <2>1, <3>1, <1>1, CapacityIsNat DEF CreateLoad, Room
  <2>2. CASE MoveOut(w, r)
    <3>1. Decrease(room) \in Room /\ Decrease(room).count <= Capacity
      BY <1>1, CounterType, CapacityIsNat DEF Decrease, Room
    <3> QED
      BY <2>2, <3>1 DEF MoveOut, Room
  <2>3. CASE Settle(w, r)
    <3>1. Cardinality(Live(res')) <= Capacity
      BY LiveFit DEF TypeOK, OneTenantPerBed
    <3>2. res'[r].bed \in Beds
      BY DEF TypeOK, Document
    <3>3. Assign(room, r, res'[r].bed, "reserved") \in Room
      BY <1>1, <3>2, AssignType
    <3> QED
      BY <2>3, <3>1, <3>3 DEF Settle, Settled, Room
  <2>4. CASE ~((\E b \in Beds : CreateLoad(w, r, b)) \/ MoveOut(w, r)
                \/ Settle(w, r))
    <3>1. UNCHANGED room
      BY <2>4 DEF Applicant, Admin, System, Load, SubmitLoad, CheckoutLoad,
         ProofLoad, UserCancelLoad, RequestCancellationLoad,
         WithdrawCancellationLoad, AdminCheck, ApproveCancellationLoad,
         RejectCancellationLoad, ReleaseSlotLoad, SoftDeleteLoad,
         ArchiveLoad, RestoreLoad, AbandonLoad, ExpireLoad, NoShowLoad,
         FlagOverdue
    <3> QED
      BY <3>1, <1>1
  <2> QED
    BY <2>1, <2>2, <2>3, <2>4
<1> QED
  BY <1>2, <1>3 DEF CounterInv, OccupancyWithinCapacity, Capacity

LEMMA CounterRoomWork ==
    ASSUME TypeOK, CounterInv, NEW w \in Workers, RoomWork(w)
    PROVE  CounterInv'
<1>1. room \in Room /\ room.count <= Capacity
  BY DEF TypeOK, CounterInv, OccupancyWithinCapacity
<1>2. ASSUME NEW b \in Beds, StartMaintenance(w, b) \/ EndMaintenance(w, b)
      PROVE  CounterInv'
  <2>1. room'.count = room.count /\ UNCHANGED worker
    BY <1>1, <1>2 DEF StartMaintenance, EndMaintenance, Room
  <2> QED
    BY <2>1 DEF CounterInv, OccupancyWithinCapacity, Capacity
<1>3. ASSUME NEW op \in {"reconcile", "recalculate"}, SweepLoad(w, op)
      PROVE  CounterInv'
  BY <1>1, <1>3
     DEF SweepLoad, CounterInv, OccupancyWithinCapacity, Capacity, TypeOK
<1> QED
  BY <1>2, <1>3 DEF RoomWork

\* Whatever overlaps, the counter never passes the number of beds.
THEOREM CounterWithinCapacity == Spec => []OccupancyWithinCapacity
<1>1. Init => CounterInv
  BY CapacityIsNat
     DEF Init, CounterInv, OccupancyWithinCapacity, Idle
<1>2. ASSUME TypeOK, TypeOK', OneTenantPerBed, OneTenantPerBed', CounterInv,
             [Next]_vars
      PROVE  CounterInv'
  <2>1. CASE Next
    BY <1>2, <2>1, CounterProceed, CounterRequest, CounterRoomWork DEF Next
  <2>2. CASE UNCHANGED vars
    BY <1>2, <2>2
       DEF vars, CounterInv, OccupancyWithinCapacity, Capacity
  <2> QED
    BY <1>2, <2>1, <2>2
<1>3. CounterInv => OccupancyWithinCapacity
  BY DEF CounterInv
<1> QED
  BY <1>1, <1>2, <1>3, TypeCorrect, OneTenant, PTL DEF Spec

-----------------------------------------------------------------------------
(* Whoever a bed points at has paid                                        *)

RoomPaid(rm, rs) ==
    \A b \in Beds :
        rm.beds[b].by # NoRes => rs[rm.beds[b].by].fee = "verified"

\* A confirmed or seated reservation has paid.
ActivePaid ==
    \A r \in Reservations :
        res[r].status \in Active => res[r].fee = "verified"

\* What a worker still is to write is paid for: no handler changes the fee
\* or confirms an unpaid reservation, no sweep points a bed at one.
WorkerPaid(w) ==
    LET j == worker[w] IN
    /\ j.op \in Ops =>
         /\ j.new.fee = j.seen.fee
         /\ j.new.status \in Active => res[j.r].fee = "verified"
    /\ j.op \in {"reconcile", "recalculate"} =>
         RoomPaid(j.snap, res) /\ RoomPaid(j.goal, res)

PaidInv ==
    /\ RoomPaid(room, res)
    /\ ActivePaid
    /\ \A w \in Workers : WorkerPaid(w)

\* A settled fee stays settled.
FeesKept ==
    \A r \in Reservations : res[r].fee = "verified" => res'[r].fee = "verified"

LEMMA RoomPaidKept ==
    ASSUME FeesKept, NEW rm \in Room, RoomPaid(rm, res)
    PROVE  RoomPaid(rm, res')
BY DEF FeesKept, RoomPaid, Room, Bed

LEMMA WorkerPaidKept ==
    ASSUME TypeOK, FeesKept, NEW v \in Workers, WorkerPaid(v),
           worker'[v] = worker[v]
    PROVE  WorkerPaid(v)'
<1> DEFINE j == worker[v]
<1>1. ASSUME j.op \in Ops
      PROVE  /\ j.new.fee = j.seen.fee
             /\ j.new.status \in Active => res'[j.r].fee = "verified"
  <2>1. j.r \in Reservations
    BY <1>1, WorkerKind DEF Request
  <2> QED
    BY <1>1, <2>1 DEF WorkerPaid, FeesKept
<1>2. ASSUME j.op \in {"reconcile", "recalculate"}
      PROVE  RoomPaid(j.snap, res') /\ RoomPaid(j.goal, res')
  <2>1. j.snap \in Room /\ j.goal \in Room
    BY <1>2, WorkerKind DEF Sweep
  <2> QED
    BY <1>2, <2>1, RoomPaidKept DEF WorkerPaid
<1>3. (worker[v])' = worker[v]
  OBVIOUS
<1> QED
  BY <1>1, <1>2, <1>3 DEF WorkerPaid, RoomPaid

LEMMA AssignPaid ==
    ASSUME NEW rm \in Room, NEW rs, RoomPaid(rm, rs), NEW r \in Reservations,
           NEW bed \in Beds, NEW st, rs[r].fee = "verified"
    PROVE  RoomPaid(Assign(rm, r, bed, st), rs)
BY DEF Assign, RoomPaid, Room, Bed, Free

LEMMA VacatePaid ==
    ASSUME NEW rm \in Room, NEW rs, RoomPaid(rm, rs), NEW r, NEW bed
    PROVE  RoomPaid(Vacate(rm, r, bed), rs)
BY DEF Vacate, RoomPaid, Room, Bed, Free

LEMMA SyncPaid ==
    ASSUME NEW rm \in Room, NEW rs, RoomPaid(rm, rs), NEW r \in Reservations,
           NEW bed \in Beds, NEW old, NEW new,
           new \in Active => rs[r].fee = "verified"
    PROVE  RoomPaid(Sync(rm, r, bed, old, new), rs)
<1>1. /\ Increase(rm) \in Room /\ RoomPaid(Increase(rm), rs)
      /\ Decrease(rm) \in Room /\ RoomPaid(Decrease(rm), rs)
  BY CounterType DEF Increase, Decrease, RoomPaid, Room
<1> QED
  BY <1>1, AssignPaid, VacatePaid DEF Sync, Active

\* Both sweeps point beds only at reservations that have paid.
LEMMA SweepPaid ==
    ASSUME TypeOK, ActivePaid, NEW rm \in Room, RoomPaid(rm, res)
    PROVE  RoomPaid(Reconciled(rm), res) /\ RoomPaid(Recalculated(rm), res)
<1>1. RoomPaid(Reconciled(rm), res)
  BY DEF Reconciled, ReconciledBeds, RoomPaid, Room, Bed, Free
<1>2. ASSUME NEW b \in Beds
      PROVE  Recalculated(rm).beds[b].by # NoRes
                => res[Recalculated(rm).beds[b].by].fee = "verified"
  <2> DEFINE On == {r \in Live(res) : res[r].bed = b}
  <2>1. Recalculated(rm).beds[b] \in {rm.beds[b], Free}
        \/ (On # {} /\ Recalculated(rm).beds[b].by = CHOOSE r \in On : TRUE)
    BY DEF Recalculated
  <2>2. On # {} => (CHOOSE r \in On : TRUE) \in On
    OBVIOUS
  <2>3. \A r \in On : res[r].fee = "verified"
    BY DEF ActivePaid, Live
  <2> HIDE DEF On
  <2> QED
    BY <2>1, <2>2, <2>3 DEF RoomPaid, Free
<1> QED
  BY <1>1, <1>2 DEF RoomPaid

\* A step of one worker keeps the invariant if no fee is lost and what it
\* writes is paid for.
LEMMA PaidFrame ==
    ASSUME TypeOK, PaidInv, NEW w \in Workers,
           \A v \in Workers \ {w} : worker'[v] = worker[v],
           FeesKept, ActivePaid', RoomPaid(room, res)', WorkerPaid(w)'
    PROVE  PaidInv'
<1>1. ASSUME NEW v \in Workers \ {w} PROVE WorkerPaid(v)'
  BY <1>1, WorkerPaidKept DEF PaidInv
<1> QED
  BY <1>1 DEF PaidInv

LEMMA PaidProceed ==
    ASSUME TypeOK, TypeOK', PaidInv, NEW w \in Workers, Proceed(w)
    PROVE  PaidInv'
<1> DEFINE j == worker[w]
<1>1. \A v \in Workers \ {w} : worker'[v] = worker[v]
  BY DEF Proceed, AdminLoad, Save, SaveRejected, SyncRoom, SyncLost,
     SubmitSave, ProofSave, AbandonFree, SweepDerive, SweepSave, Finish,
     TypeOK
<1>2. /\ room \in Room /\ RoomPaid(room, res)
      /\ ActivePaid /\ WorkerPaid(w)
  BY DEF PaidInv, TypeOK
<1>3. /\ j.op \in Ops => j \in Request
      /\ j.op \in {"reconcile", "recalculate"} => j \in Sweep
  BY WorkerKind
<1>4. ASSUME Finish(w) PROVE WorkerPaid(w)'
  BY <1>4 DEF Finish, TypeOK, WorkerPaid, Idle, Ops, Plain, TwoWrites,
     Syncing
<1>5. ASSUME UNCHANGED res PROVE FeesKept /\ ActivePaid'
  BY <1>2, <1>5 DEF FeesKept, ActivePaid
<1>6. CASE AdminLoad(w)
  <2>1. j \in Request
    BY <1>3, <1>6 DEF AdminLoad, Ops, Plain, TwoWrites, Syncing
  <2>2. /\ res[j.r] \in Document
        /\ j.new.status \in Active => res[j.r].fee = "verified"
    BY <2>1, <1>2 DEF TypeOK, Request, WorkerPaid
  <2>3. /\ worker'[w].op = j.op /\ worker'[w].r = j.r
        /\ worker'[w].new.fee = worker'[w].seen.fee
        /\ worker'[w].new.status = j.new.status
    BY <2>1, <2>2, <1>6 DEF AdminLoad, TypeOK, Request, Document
  <2>4. WorkerPaid(w)'
    BY <2>1, <2>2, <2>3, <1>6
       DEF WorkerPaid, AdminLoad, Request, Ops, Plain, TwoWrites, Syncing
  <2> QED
    BY <2>4, <1>1, <1>2, <1>5, <1>6, PaidFrame DEF AdminLoad
<1>7. CASE Save(w)
  <2>1. j \in Request
    BY <1>3, <1>7 DEF Save, Ops
  <2>2. /\ res[j.r] \in Document /\ j.r \in Reservations
        /\ j.new.bed \in Beds
        /\ j.new.fee = j.seen.fee
        /\ j.new.status \in Active => res[j.r].fee = "verified"
    BY <2>1, <1>2 DEF TypeOK, Request, WorkerPaid, Document
  <2>3. \A r \in Reservations :
            /\ res'[r].fee = res[r].fee
            /\ \/ res'[r].status = res[r].status
               \/ r = j.r /\ res'[r].status = j.new.status
    BY <2>2, <1>7 DEF Save, Saved, MergeDocument, Modified, TypeOK
  <2>4. FeesKept /\ ActivePaid'
    BY <2>2, <2>3, <1>2 DEF FeesKept, ActivePaid
  <2>5. RoomPaid(room, res)'
    <3>1. room' = room
          \/ room' = Sync(room, j.r, j.new.bed, j.old, j.new.status)
      BY <1>7 DEF Save
    <3>2. RoomPaid(room', res)
      BY <3>1, <2>2, <1>2, SyncPaid
    <3>3. room' \in Room
      BY DEF TypeOK
    <3> QED
      BY <3>2, <3>3, <2>4, RoomPaidKept
  <2>6. WorkerPaid(w)'
    <3>1. CASE worker' = [worker EXCEPT ![w].pc = "saved"]
      <4>1. /\ worker'[w].op = j.op /\ worker'[w].r = j.r
            /\ worker'[w].new = j.new /\ worker'[w].seen = j.seen
        BY <3>1, <2>1 DEF TypeOK, Request
      <4> QED
        BY <4>1, <2>1, <2>2, <2>4
           DEF WorkerPaid, FeesKept, Request, Ops, Plain, TwoWrites, Syncing
    <3> QED
      BY <3>1, <1>4, <1>7 DEF Save
  <2> QED
    BY <2>4, <2>5, <2>6, <1>1, PaidFrame
<1>8. CASE SyncRoom(w)
  <2>1. j \in Request
    BY <1>3, <1>8 DEF SyncRoom, Ops, Plain, TwoWrites
  <2>2. RoomPaid(room', res)
    BY <2>1, <1>2, <1>8, SyncPaid
       DEF SyncRoom, WorkerPaid, Request, Document
  <2> QED
    BY <2>2, <1>1, <1>4, <1>5, <1>8, PaidFrame DEF SyncRoom
<1>9. CASE SaveRejected(w) \/ SyncLost(w)
  BY <1>1, <1>2, <1>4, <1>5, <1>9, PaidFrame DEF SaveRejected, SyncLost
<1>10. CASE SubmitSave(w) \/ ProofSave(w)
  <2>1. j \in Request
    BY <1>3, <1>10 DEF SubmitSave, ProofSave, Ops
  <2>2. \A r \in Reservations :
            /\ res[r].fee = "verified" => res'[r].fee = "verified"
            /\ res'[r].status \in {res[r].status, "payment_pending",
                                   "pending_application_review"}
            /\ res'[r].status = res[r].status \/ res'[r].status \notin Active
    <3>1. res[j.r] \in Document /\ j.r \in Reservations
      BY <2>1 DEF Request, TypeOK
    <3>2. CASE res' = Submitted(j)
      BY <3>1, <3>2 DEF Submitted, TypeOK, Document, Active
    <3>3. CASE res' = Proven(j)
      BY <3>1, <3>3 DEF Proven, TypeOK, Document, Active
    <3> QED
      BY <3>2, <3>3, <1>10 DEF SubmitSave, ProofSave
  <2>3. FeesKept /\ ActivePaid'
    BY <2>2, <1>2 DEF FeesKept, ActivePaid
  <2>4. RoomPaid(room', res')
    BY <2>3, <1>2, <1>10, RoomPaidKept DEF SubmitSave, ProofSave
  <2> QED
    BY <2>3, <2>4, <1>1, <1>4, <1>10, PaidFrame DEF SubmitSave, ProofSave
<1>11. CASE AbandonFree(w)
  <2>1. RoomPaid(room', res)
    BY <1>2, <1>11 DEF AbandonFree, RoomPaid, Room, Bed
  <2> QED
    BY <2>1, <1>1, <1>4, <1>5, <1>11, PaidFrame DEF AbandonFree
<1>12. CASE SweepDerive(w)
  <2>1. j \in Sweep
    BY <1>3, <1>12 DEF SweepDerive
  <2>2. /\ RoomPaid(j.snap, res)
        /\ RoomPaid(Reconciled(j.snap), res)
        /\ RoomPaid(Recalculated(j.snap), res)
    BY <2>1, <1>2, <1>12, SweepPaid DEF SweepDerive, WorkerPaid, Sweep
  <2>3. /\ worker'[w].op = j.op /\ worker'[w].snap = j.snap
        /\ worker'[w].goal \in {Reconciled(j.snap), Recalculated(j.snap)}
    BY <2>1, <1>12 DEF SweepDerive, Sweep, TypeOK
  <2>4. WorkerPaid(w)'
    BY <2>1, <2>2, <2>3, <1>12
       DEF WorkerPaid, SweepDerive, Sweep, Ops, Plain, TwoWrites, Syncing
  <2> QED
    BY <2>4, <1>1, <1>2, <1>5, <1>12, PaidFrame DEF SweepDerive
<1>13. CASE SweepSave(w)
  <2>1. /\ j \in Sweep
        /\ RoomPaid(j.goal, res)
    BY <1>2, <1>3, <1>13 DEF SweepSave, WorkerPaid
  <2>2. RoomPaid(room', res)
    BY <2>1, <1>2, <1>13 DEF SweepSave, MergeRoom, Modified, RoomPaid, Sweep
  <2> QED
    BY <2>2, <1>1, <1>4, <1>5, <1>13, PaidFrame DEF SweepSave
<1> QED
  BY <1>6, <1>7, <1>8, <1>9, <1>10, <1>11, <1>12, <1>13 DEF Proceed

\* A request that only loads is safe if it leaves the fee alone and confirms
\* no reservation that was not confirmed.
LEMMA PaidLoad ==
    ASSUME TypeOK, PaidInv, NEW w \in Workers, NEW op \in Ops,
           NEW r \in Reservations, NEW new \in Document, Load(w, op, r, new),
           new.fee = res[r].fee,
           new.status \in Active => res[r].status \in Active
    PROVE  PaidInv'
<1>1. new.status \in Active => res[r].fee = "verified"
  BY DEF PaidInv, ActivePaid
<1>2. /\ worker'[w].op = op /\ worker'[w].r = r
      /\ worker'[w].seen = res[r] /\ worker'[w].new = new
      /\ UNCHANGED <<res, room>>
  BY DEF Load, TypeOK
<1>3. WorkerPaid(w)'
  BY <1>1, <1>2 DEF WorkerPaid, Ops, Plain, TwoWrites, Syncing
<1>4. FeesKept /\ ActivePaid' /\ RoomPaid(room, res)'
  BY <1>2 DEF FeesKept, ActivePaid, PaidInv
<1>5. \A v \in Workers \ {w} : worker'[v] = worker[v]
  BY DEF Load, TypeOK
<1> QED
  BY <1>3, <1>4, <1>5, PaidFrame

LEMMA PaidRequest ==
    ASSUME TypeOK, TypeOK', PaidInv, NEW w \in Workers, NEW r \in Reservations,
           Applicant(w, r) \/ Admin(w, r) \/ System(w, r)
    PROVE  PaidInv'
<1>1. /\ room \in Room /\ RoomPaid(room, res)
      /\ res[r] \in Document
      /\ ActivePaid
  BY DEF PaidInv, TypeOK
<1>2. ASSUME NEW op \in Ops, NEW new \in Document, Load(w, op, r, new),
             new.fee = res[r].fee,
             new.status = res[r].status \/ new.status \notin Active
      PROVE  PaidInv'
  BY <1>2, PaidLoad
<1>3. ASSUME NEW op \in Ops, NEW st \in Statuses \ Active,
             Load(w, op, r, [res[r] EXCEPT !.status = st])
      PROVE  PaidInv'
  <2>1. /\ [res[r] EXCEPT !.status = st] \in Document
        /\ [res[r] EXCEPT !.status = st].fee = res[r].fee
        /\ [res[r] EXCEPT !.status = st].status = st
    BY <1>1 DEF Document
  <2> QED
    BY <2>1, <1>2, <1>3
<1>4. CASE \/ UserCancelLoad(w, r) \/ ReleaseSlotLoad(w, r)
           \/ SoftDeleteLoad(w, r) \/ AbandonLoad(w, r)
           \/ ExpireLoad(w, r) \/ NoShowLoad(w, r)
  <2>1. /\ {"userCancel", "releaseSlot", "softDelete", "abandon", "expire",
            "noShow"} \subseteq Ops
        /\ {"cancelled", "moveOut"} \subseteq Statuses \ Active
    BY DEF Ops, Plain, TwoWrites, Syncing, Statuses, Active
  <2> QED
    BY <2>1, <1>3, <1>4 DEF UserCancelLoad, ReleaseSlotLoad, SoftDeleteLoad,
       AbandonLoad, ExpireLoad, NoShowLoad
<1>5. CASE ProofLoad(w, r)
  BY <1>1, <1>2, <1>5 DEF ProofLoad, Ops
<1>6. ASSUME NEW b \in Beds, SubmitLoad(w, r, b) PROVE PaidInv'
  <2> DEFINE new == [res[r] EXCEPT !.status = "pending_application_review",
                                   !.bed = b]
  <2>1. new \in Document /\ new.fee = res[r].fee /\ new.status \notin Active
    BY <1>1 DEF Document, Statuses, Active
  <2> QED
    BY <2>1, <1>2, <1>6 DEF SubmitLoad, Ops
<1>7. CASE CheckoutLoad(w, r)
  <2> DEFINE new == [res[r] EXCEPT !.status = "payment_pending",
                                   !.checkout = TRUE]
  <2>1. new \in Document /\ new.fee = res[r].fee /\ new.status \notin Active
    BY <1>1 DEF Document, Statuses, Active
  <2> QED
    BY <2>1, <1>2, <1>7 DEF CheckoutLoad, Ops, Plain
<1>8. CASE RequestCancellationLoad(w, r)
  <2> DEFINE new == [res[r] EXCEPT !.request = TRUE, !.reason = TRUE]
  <2>1. new \in Document /\ new.fee = res[r].fee /\ new.status = res[r].status
    BY <1>1 DEF Document
  <2> QED
    BY <2>1, <1>2, <1>8 DEF RequestCancellationLoad, Ops, Plain
<1>9. CASE WithdrawCancellationLoad(w, r)
  <2> DEFINE new == [res[r] EXCEPT !.request = FALSE, !.reason = FALSE]
  <2>1. new \in Document /\ new.fee = res[r].fee /\ new.status = res[r].status
    BY <1>1 DEF Document
  <2> QED
    BY <2>1, <1>2, <1>9 DEF WithdrawCancellationLoad, Ops, Plain
<1>10. CASE ApproveCancellationLoad(w, r)
  <2> DEFINE new == [res[r] EXCEPT !.status = "cancelled", !.request = FALSE,
                                   !.reason = TRUE]
  <2>1. new \in Document /\ new.fee = res[r].fee /\ new.status \notin Active
    BY <1>1 DEF Document, Statuses, Active
  <2> QED
    BY <2>1, <1>2, <1>10
       DEF ApproveCancellationLoad, Ops, Plain, TwoWrites, Syncing
<1>11. CASE RejectCancellationLoad(w, r)
  <2> DEFINE new == [res[r] EXCEPT !.request = FALSE]
  <2>1. new \in Document /\ new.fee = res[r].fee /\ new.status = res[r].status
    BY <1>1 DEF Document
  <2> QED
    BY <2>1, <1>2, <1>11 DEF RejectCancellationLoad, Ops, Plain
<1>12. CASE ArchiveLoad(w, r)
  <2> DEFINE new == [res[r] EXCEPT !.archived = TRUE]
  <2>1. new \in Document /\ new.fee = res[r].fee /\ new.status = res[r].status
    BY <1>1 DEF Document
  <2> QED
    BY <2>1, <1>2, <1>12 DEF ArchiveLoad, Ops, Plain
<1>13. CASE RestoreLoad(w, r)
  <2> DEFINE new == [res[r] EXCEPT !.archived = FALSE,
                                   !.status = IF @ \in SafeRestore THEN @
                                              ELSE "cancelled"]
  <2>1. new \in Document /\ new.fee = res[r].fee /\ new.status \notin Active
    BY <1>1 DEF Document, Statuses, Active, SafeRestore
  <2> QED
    BY <2>1, <1>2, <1>13 DEF RestoreLoad, Ops, Plain
<1>14. ASSUME NEW b \in Beds, CreateLoad(w, r, b) PROVE PaidInv'
  <2> DEFINE new == [res[r] EXCEPT !.status = "pending", !.bed = b]
             seen == res[r]
  <2>1. new.fee = seen.fee /\ new.status \notin Active
    BY <1>1 DEF Document, Active
  <2>2. worker' = [worker EXCEPT ![w] =
                    [op |-> "create", r |-> r, pc |-> "loaded",
                     old |-> "none", seen |-> seen, new |-> new]]
    BY <1>14, Zenon DEF CreateLoad
  <2>3. RoomPaid(room', res)
    BY <1>1, <1>14 DEF CreateLoad, RoomPaid, Room
  <2>4. FeesKept /\ ActivePaid' /\ RoomPaid(room, res)'
    BY <2>3, <1>1, <1>14 DEF CreateLoad, FeesKept, ActivePaid
  <2> HIDE DEF new, seen
  <2>5. WorkerPaid(w)'
    BY <2>1, <2>2 DEF WorkerPaid, TypeOK
  <2>6. \A v \in Workers \ {w} : worker'[v] = worker[v]
    BY <2>2 DEF TypeOK
  <2> QED
    BY <2>4, <2>5, <2>6, PaidFrame
<1>15. ASSUME NEW to, AdminCheck(w, r, to) PROVE PaidInv'
  <2> DEFINE new == [res[r] EXCEPT !.status = to]
             seen == res[r]
  <2>1. new.fee = seen.fee /\ new.status = to
    BY <1>1 DEF Document
  <2>2. worker' = [worker EXCEPT ![w] =
                    [op |-> "admin", r |-> r, pc |-> "checked",
                     old |-> res[r].status, seen |-> seen, new |-> new]]
    BY <1>15, Zenon DEF AdminCheck
  <2>3. to \in Active => res[r].fee = "verified"
    BY <1>1, <1>15 DEF AdminCheck, AdminTargets, MoveInReady, SafeRestore,
       Active, ActivePaid
  <2>4. FeesKept /\ ActivePaid' /\ RoomPaid(room, res)'
    BY <1>1, <1>15 DEF AdminCheck, FeesKept, ActivePaid
  <2>5. res' = res
    BY <1>15 DEF AdminCheck
  <2> HIDE DEF new, seen
  <2>6. WorkerPaid(w)'
    BY <2>1, <2>2, <2>3, <2>5 DEF WorkerPaid, TypeOK
  <2>7. \A v \in Workers \ {w} : worker'[v] = worker[v]
    BY <2>2 DEF TypeOK
  <2> QED
    BY <2>4, <2>6, <2>7, PaidFrame
<1>16. ASSUME FeesKept, ActivePaid', RoomPaid(room', res'), UNCHANGED worker
       PROVE  PaidInv'
  <2>1. \A v \in Workers : WorkerPaid(v)'
    BY <1>16, WorkerPaidKept DEF PaidInv
  <2> QED
    BY <2>1, <1>16 DEF PaidInv
<1>17. CASE MoveOut(w, r) \/ FlagOverdue(w, r)
  <2>1. FeesKept /\ ActivePaid'
    BY <1>1, <1>17
       DEF MoveOut, FlagOverdue, FeesKept, ActivePaid, TypeOK, Document,
           Active
  <2>2. RoomPaid(room', res)
    <3>1. Decrease(room) \in Room /\ RoomPaid(Decrease(room), res)
      BY <1>1, CounterType DEF Decrease, RoomPaid, Room
    <3> QED
      BY <3>1, <1>1, <1>17 DEF MoveOut, FlagOverdue, RoomPaid, Room, Free
  <2>3. RoomPaid(room', res')
    BY <2>1, <2>2, RoomPaidKept DEF TypeOK
  <2> QED
    BY <2>1, <2>3, <1>16, <1>17 DEF MoveOut, FlagOverdue
<1>18. CASE Settle(w, r)
  <2>1. FeesKept /\ ActivePaid' /\ res'[r].fee = "verified"
    BY <1>1, <1>18
       DEF Settle, FeesKept, ActivePaid, TypeOK, Document
  <2>2. RoomPaid(room, res') /\ res'[r].bed \in Beds
    BY <2>1, <1>1, RoomPaidKept DEF TypeOK, Document
  <2>3. RoomPaid(Assign(room, r, res'[r].bed, "reserved"), res')
    BY <2>1, <2>2, <1>1, AssignPaid
  <2>4. Assign(room, r, res'[r].bed, "reserved") \in Room
    BY <2>2, <1>1, AssignType
  <2>5. RoomPaid(room', res')
    BY <2>3, <2>4, <1>18 DEF Settle, Settled, RoomPaid, Room
  <2> QED
    BY <2>1, <2>5, <1>16, <1>18 DEF Settle
<1> QED
  BY <1>4, <1>5, <1>6, <1>7, <1>8, <1>9, <1>10, <1>11, <1>12, <1>13, <1>14,
     <1>15, <1>17, <1>18 DEF Applicant, Admin, System

LEMMA PaidRoomWork ==
    ASSUME TypeOK, PaidInv, NEW w \in Workers, RoomWork(w)
    PROVE  PaidInv'
<1>1. /\ room \in Room /\ RoomPaid(room, res)
      /\ UNCHANGED res
      /\ FeesKept /\ ActivePaid'
  BY DEF PaidInv, TypeOK, RoomWork, StartMaintenance, EndMaintenance,
     SweepLoad, FeesKept, ActivePaid
<1>2. ASSUME NEW b \in Beds, StartMaintenance(w, b) \/ EndMaintenance(w, b)
      PROVE  PaidInv'
  <2>1. RoomPaid(room, res)'
    BY <1>1, <1>2 DEF StartMaintenance, EndMaintenance, RoomPaid, Room, Bed
  <2>2. UNCHANGED worker
    BY <1>2 DEF StartMaintenance, EndMaintenance
  <2>3. \A v \in Workers : WorkerPaid(v)'
    BY <2>2, <1>1, WorkerPaidKept DEF PaidInv
  <2> QED
    BY <2>1, <2>3, <1>1 DEF PaidInv
<1>3. ASSUME NEW op \in {"reconcile", "recalculate"}, SweepLoad(w, op)
      PROVE  PaidInv'
  <2>1. /\ worker'[w].op = op
        /\ worker'[w].snap = room /\ worker'[w].goal = room
        /\ \A v \in Workers \ {w} : worker'[v] = worker[v]
        /\ UNCHANGED room
    BY <1>3 DEF SweepLoad, TypeOK
  <2>2. WorkerPaid(w)'
    BY <2>1, <1>1 DEF WorkerPaid, Ops, Plain, TwoWrites, Syncing
  <2> QED
    BY <2>1, <2>2, <1>1, PaidFrame
<1> QED
  BY <1>2, <1>3 DEF RoomWork

\* A bed never points at a reservation whose fee is not settled.
THEOREM HolderPaid == Spec => []HolderHasPaid
<1>1. Init => PaidInv
  BY DEF Init, Absent, PaidInv, RoomPaid, Free, ActivePaid, Active,
     WorkerPaid, Idle, Ops, Plain, TwoWrites, Syncing
<1>2. ASSUME TypeOK, TypeOK', PaidInv, [Next]_vars PROVE PaidInv'
  <2>1. CASE Next
    BY <1>2, <2>1, PaidProceed, PaidRequest, PaidRoomWork DEF Next
  <2>2. CASE UNCHANGED vars
    BY <1>2, <2>2 DEF vars, PaidInv, RoomPaid, ActivePaid, WorkerPaid
  <2> QED
    BY <1>2, <2>1, <2>2
<1>3. PaidInv => HolderHasPaid
  BY DEF PaidInv, RoomPaid, HolderHasPaid
<1> QED
  BY <1>1, <1>2, <1>3, TypeCorrect, PTL DEF Spec

-----------------------------------------------------------------------------
(* The room implements the abstract claims                                 *)

\* One document changes per step.
LEMMA OneChange ==
    ASSUME TypeOK, [Next]_vars
    PROVE  \/ UNCHANGED res
           \/ \E r \in Reservations :
                 \A q \in Reservations \ {r} : res'[q] = res[q]
<1>1. ASSUME NEW w \in Workers, Proceed(w)
      PROVE  \/ UNCHANGED res
             \/ \E r \in Reservations :
                   \A q \in Reservations \ {r} : res'[q] = res[q]
  <2>1. CASE Save(w) \/ SubmitSave(w) \/ ProofSave(w)
    <3>1. worker[w].r \in Reservations
      BY <2>1, WorkerKind DEF Save, SubmitSave, ProofSave, Ops, Request
    <3>2. \A q \in Reservations \ {worker[w].r} : res'[q] = res[q]
      BY <2>1, <3>1 DEF Save, Saved, SubmitSave, Submitted, ProofSave, Proven,
         TypeOK
    <3> QED
      BY <3>1, <3>2
  <2>2. CASE ~(Save(w) \/ SubmitSave(w) \/ ProofSave(w))
    BY <1>1, <2>2 DEF Proceed, AdminLoad, SaveRejected, SyncRoom, SyncLost,
       AbandonFree, SweepDerive, SweepSave
  <2> QED
    BY <2>1, <2>2
<1>2. ASSUME NEW w \in Workers, RoomWork(w) PROVE UNCHANGED res
  BY <1>2 DEF RoomWork, StartMaintenance, EndMaintenance, SweepLoad
<1>3. ASSUME NEW w \in Workers, NEW r \in Reservations,
             Applicant(w, r) \/ Admin(w, r) \/ System(w, r)
      PROVE  \A q \in Reservations \ {r} : res'[q] = res[q]
  <2>1. CASE MoveOut(w, r) \/ Settle(w, r) \/ FlagOverdue(w, r)
    BY <2>1 DEF MoveOut, Settle, FlagOverdue, TypeOK
  <2>2. CASE ~(MoveOut(w, r) \/ Settle(w, r) \/ FlagOverdue(w, r))
    BY <1>3, <2>2 DEF Applicant, Admin, System, Load, CreateLoad, SubmitLoad,
       CheckoutLoad, ProofLoad, UserCancelLoad, RequestCancellationLoad,
       WithdrawCancellationLoad, AdminCheck, ApproveCancellationLoad,
       RejectCancellationLoad, ReleaseSlotLoad, SoftDeleteLoad, ArchiveLoad,
       RestoreLoad, AbandonLoad, ExpireLoad, NoShowLoad
  <2> QED
    BY <2>1, <2>2
<1> QED
  BY <1>1, <1>2, <1>3 DEF Next, vars

\* Every step of the room is a step of the claims or leaves them alone.
LEMMA ClaimStep ==
    ASSUME TypeOK, TypeOK', OneTenantPerBed', [Next]_vars
    PROVE  [Claims!Next]_HeldBed
<1>1. CASE UNCHANGED res
  BY <1>1 DEF HeldBed, Holds
<1>2. ASSUME NEW r \in Reservations,
             \A q \in Reservations \ {r} : res'[q] = res[q]
      PROVE  [Claims!Next]_HeldBed
  <2>1. /\ \A q \in Reservations \ {r} : HeldBed'[q] = HeldBed[q]
        /\ HeldBed' = [HeldBed EXCEPT ![r] = HeldBed'[r]]
    BY <1>2 DEF HeldBed, Holds
  <2>2. CASE Holds(res', r)
    <3>1. res'[r].bed \in Beds /\ HeldBed'[r] = res'[r].bed
      BY <2>2 DEF TypeOK, Document, HeldBed, Holds
    <3>2. CASE \E q \in Reservations \ {r} : HeldBed[q] = res'[r].bed
      <4>1. PICK q \in Reservations \ {r} : HeldBed[q] = res'[r].bed
        BY <3>2
      <4>2. ~Holds(res', q)
        BY <4>1, <2>1, <2>2 DEF OneTenantPerBed, IndexAllows, HeldBed, Holds
      <4>3. NoRes = res'[r].bed
        BY <4>1, <4>2, <2>1 DEF HeldBed, Holds
      <4> QED
        BY <4>3, <3>1, RoomAssumption
    <3>3. CASE \A q \in Reservations \ {r} : HeldBed[q] # res'[r].bed
      <4>1. Claims!Claim(r, res'[r].bed)
        BY <3>1, <3>3, <2>1 DEF Claims!Claim
      <4> QED
        BY <4>1, <3>1 DEF Claims!Next
    <3> QED
      BY <3>2, <3>3
  <2>3. CASE ~Holds(res', r)
    <3>1. HeldBed'[r] = NoRes
      BY <2>3 DEF HeldBed, Holds
    <3>2. Claims!Release(r)
      BY <3>1, <2>1 DEF Claims!Release
    <3> QED
      BY <3>2 DEF Claims!Next
  <2> QED
    BY <2>2, <2>3
<1> QED
  BY <1>1, <1>2, OneChange

\* The reservations, handlers, jobs and callbacks implement the claims.
THEOREM ImplementsClaims == Spec => ImplementsBedClaims
<1>1. Init => Claims!Init
  BY DEF Init, Claims!Init, Absent, HeldBed, Holds, BedHolding
<1>2. TypeOK /\ TypeOK' /\ OneTenantPerBed' /\ [Next]_vars
        => [Claims!Next]_HeldBed
  BY ClaimStep
<1> QED
  BY <1>1, <1>2, TypeCorrect, OneTenant, PTL
     DEF Spec, ImplementsBedClaims, Claims!Spec

-----------------------------------------------------------------------------
(* One request at a time                                                   *)

OneAtATime == \A v, w \in Workers : v = w

BedsTrue(rm, rs) ==
    \A b \in Beds : rm.beds[b].by # NoRes => rs[rm.beds[b].by].bed = b

\* A reservation that was never made has not paid.
AbsentUnpaid(rs) ==
    \A r \in Reservations : rs[r].status = "none" => rs[r].fee = "none"

\* What a request loaded is still stored, and what it saved too; a request
\* that chooses a bed has not paid, and the others keep the bed.
RequestTied(j, rs) ==
    /\ j.pc \in {"checked", "loaded"}
          => j.seen = rs[j.r] /\ j.old = rs[j.r].status
    /\ j.pc = "saved" => j.new = rs[j.r]
    /\ j.new.status # "none"
    /\ j.op \in {"create", "submit"} => rs[j.r].fee = "none"
    /\ j.op \notin {"create", "submit"} => j.new.bed = rs[j.r].bed

\* The room a sweep loaded is still the stored one.
SweepTied(j, rs, rm) ==
    /\ j.snap = rm
    /\ j.pc = "derived" => BedsTrue(j.goal, rs)

JobTied(j, rs, rm) ==
    /\ j.op \in Ops => RequestTied(j, rs)
    /\ j.op \in {"reconcile", "recalculate"} => SweepTied(j, rs, rm)

Tied ==
    /\ BedsTrue(room, res)
    /\ AbsentUnpaid(res)
    /\ \A w \in Workers : JobTied(worker[w], res, room)

\* The only worker goes on with j.
LEMMA OnlyWorker ==
    ASSUME OneAtATime, TypeOK, NEW w \in Workers, NEW j,
           worker' = [worker EXCEPT ![w] = j]
    PROVE  \A v \in Workers : worker'[v] = j
PROOF
BY DEF OneAtATime, TypeOK

LEMMA IdleTied ==
    ASSUME NEW rs, NEW rm
    PROVE  JobTied(Idle, rs, rm)
PROOF
BY DEF JobTied, Idle, Ops, Plain, TwoWrites, Syncing

LEMMA TiedMoves ==
    ASSUME OneAtATime, TypeOK, NEW w \in Workers, NEW j,
           worker' = [worker EXCEPT ![w] = j],
           BedsTrue(room', res'), AbsentUnpaid(res'), JobTied(j, res', room')
    PROVE  Tied'
PROOF
<1>1. \A v \in Workers : worker'[v] = j
  BY OnlyWorker
<1>2. BedsTrue(room, res)' /\ AbsentUnpaid(res)'
  BY DEF BedsTrue, AbsentUnpaid
<1>3. ASSUME NEW v \in Workers PROVE JobTied(worker[v], res, room)'
  <2>1. worker'[v] = j
    BY <1>1
  <2>2. JobTied(worker'[v], res', room')
    BY <2>1
  <2>. QED BY <2>2 DEF JobTied, RequestTied, SweepTied, BedsTrue
<1>. QED BY <1>2, <1>3 DEF Tied

\* The request ends.
LEMMA TiedEnds ==
    ASSUME OneAtATime, TypeOK, NEW w \in Workers, Finish(w),
           BedsTrue(room', res'), AbsentUnpaid(res')
    PROVE  Tied'
PROOF
<1>1. worker' = [worker EXCEPT ![w] = Idle]
  BY DEF Finish
<1>. QED BY <1>1, IdleTied, TiedMoves

\* A step that leaves the worker idle.
LEMMA TiedIdle ==
    ASSUME OneAtATime, TypeOK, NEW w \in Workers, worker[w] = Idle,
           worker' = worker, BedsTrue(room', res'), AbsentUnpaid(res')
    PROVE  Tied'
PROOF
<1>1. worker' = [worker EXCEPT ![w] = Idle]
  BY DEF TypeOK
<1>. QED BY <1>1, IdleTied, TiedMoves

\* A document modified as it was loaded is stored as modified.
LEMMA MergedIsNew ==
    ASSUME NEW d \in Document, NEW new \in Document
    PROVE  MergeDocument(d, d, new) = new
PROOF
BY DEF MergeDocument, Modified, Document

\* No bed points at a reservation whose fee is not verified.
LEMMA UnpaidHasNoBed ==
    ASSUME HolderHasPaid, NEW r \in Reservations, res[r].fee # "verified"
    PROVE  \A b \in Beds : room.beds[b].by # r
PROOF
BY RoomAssumption DEF HolderHasPaid

\* Beds stay true when one document changes that no bed points at, or that
\* keeps its bed.
LEMMA BedsTrueKept ==
    ASSUME TypeOK, NEW rs, BedsTrue(room, res), NEW r \in Reservations,
           \A q \in Reservations \ {r} : rs[q].bed = res[q].bed,
           rs[r].bed = res[r].bed \/ \A b \in Beds : room.beds[b].by # r
    PROVE  BedsTrue(room, rs)
PROOF
BY DEF BedsTrue, TypeOK, Room, Bed

LEMMA AssignTrue ==
    ASSUME NEW rm \in Room, NEW rs, BedsTrue(rm, rs), NEW r \in Reservations,
           NEW bed \in Beds, NEW st, rs[r].bed = bed
    PROVE  BedsTrue(Assign(rm, r, bed, st), rs)
PROOF
BY DEF Assign, BedsTrue, Room, Bed, Free

LEMMA VacateTrue ==
    ASSUME NEW rm \in Room, NEW rs, BedsTrue(rm, rs), NEW r, NEW bed
    PROVE  BedsTrue(Vacate(rm, r, bed), rs)
PROOF
BY DEF Vacate, BedsTrue, Room, Bed, Free

LEMMA SyncTrue ==
    ASSUME NEW rm \in Room, NEW rs, BedsTrue(rm, rs), NEW r \in Reservations,
           NEW bed \in Beds, NEW old, NEW new, rs[r].bed = bed
    PROVE  BedsTrue(Sync(rm, r, bed, old, new), rs)
PROOF
<1>1. /\ Increase(rm) \in Room /\ BedsTrue(Increase(rm), rs)
      /\ Decrease(rm) \in Room /\ BedsTrue(Decrease(rm), rs)
  BY CounterType DEF Increase, Decrease, BedsTrue, Room
<1>. QED BY <1>1, AssignTrue, VacateTrue DEF Sync

\* Both sweeps point beds at the reservations that chose them.
LEMMA SweepTrue ==
    ASSUME TypeOK, NEW rm \in Room, BedsTrue(rm, res)
    PROVE  BedsTrue(Reconciled(rm), res) /\ BedsTrue(Recalculated(rm), res)
PROOF
<1>1. BedsTrue(Reconciled(rm), res)
  BY DEF Reconciled, ReconciledBeds, BedsTrue, Room, Bed, Free
<1>2. ASSUME NEW b \in Beds
      PROVE  Recalculated(rm).beds[b].by # NoRes
                => res[Recalculated(rm).beds[b].by].bed = b
  <2> DEFINE On == {r \in Live(res) : res[r].bed = b}
  <2>1. Recalculated(rm).beds[b] \in {rm.beds[b], Free}
        \/ (On # {} /\ Recalculated(rm).beds[b].by = CHOOSE r \in On : TRUE)
    BY DEF Recalculated
  <2>2. On # {} => (CHOOSE r \in On : TRUE) \in On
    OBVIOUS
  <2>3. \A r \in On : res[r].bed = b
    OBVIOUS
  <2> HIDE DEF On
  <2>. QED BY <2>1, <2>2, <2>3 DEF BedsTrue, Free
<1>. QED BY <1>1, <1>2 DEF BedsTrue

LEMMA TiedProceed ==
    ASSUME OneAtATime, TypeOK, HolderHasPaid, Tied,
           NEW w \in Workers, Proceed(w)
    PROVE  Tied'
PROOF
<1>1. PICK j : j = worker[w]
  OBVIOUS
<1>2. JobTied(j, res, room) /\ BedsTrue(room, res) /\ AbsentUnpaid(res)
  BY <1>1 DEF Tied
<1>3. /\ j.op \in Ops => j \in Request
      /\ j.op \in {"reconcile", "recalculate"} => j \in Sweep
  BY <1>1, WorkerKind
<1>4. ASSUME j \in Request
      PROVE  /\ j.r \in Reservations /\ res[j.r] \in Document
             /\ j.new \in Document /\ j.seen \in Document
  BY <1>4 DEF Request, TypeOK
<1>5. room \in Room
  BY DEF TypeOK
<1>6. CASE AdminLoad(w)
  <2>1. j.op = "admin" /\ j.pc = "checked" /\ UNCHANGED <<res, room>>
    BY <1>1, <1>6 DEF AdminLoad
  <2>2. j \in Request /\ RequestTied(j, res)
    BY <1>2, <1>3, <2>1 DEF Ops, Plain, TwoWrites, Syncing, JobTied
  <2>3. PICK a : worker' = [worker EXCEPT
            ![w].pc = "loaded",
            ![w].seen = res[j.r],
            ![w].new = [res[j.r] EXCEPT !.status = j.new.status,
                                        !.approved = a]]
    BY <1>1, <1>6, Zenon DEF AdminLoad
  <2>4. PICK d, n, k : /\ d = res[j.r]
                       /\ n = [d EXCEPT !.status = j.new.status, !.approved = a]
                       /\ k = [j EXCEPT !.pc = "loaded", !.seen = d, !.new = n]
    OBVIOUS
  <2>5. worker' = [worker EXCEPT ![w] = k]
    BY <1>1, <2>3, <2>4, Zenon
  <2>6. d \in Document /\ j.seen = d /\ j.old = d.status /\ j.new.status # "none"
    BY <1>4, <2>1, <2>2, <2>4 DEF RequestTied
  <2>7. n.status = j.new.status /\ n.bed = d.bed
    BY <2>4, <2>6 DEF Document
  <2>8. /\ k.op = "admin" /\ k.r = j.r /\ k.pc = "loaded" /\ k.seen = d
        /\ k.new = n /\ k.old = j.old
    BY <2>1, <2>2, <2>4 DEF Request
  <2>9. JobTied(k, res', room')
    BY <2>1, <2>4, <2>6, <2>7, <2>8 DEF JobTied, RequestTied
  <2>. QED BY <1>2, <2>1, <2>5, <2>9, TiedMoves
<1>7. CASE Save(w)
  <2>1. j.op \in Plain /\ j.pc = "loaded" /\ res' = Saved(j)
    BY <1>1, <1>7 DEF Save
  <2>2. j \in Request /\ RequestTied(j, res)
    BY <1>2, <1>3, <2>1 DEF Ops, JobTied
  <2>3. res' = [res EXCEPT ![j.r] = j.new]
    <3>1. MergeDocument(res[j.r], j.seen, j.new) = j.new
      BY <1>4, <2>1, <2>2, MergedIsNew DEF RequestTied
    <3>. QED BY <2>1, <3>1 DEF Saved
  <2>4. res \in [Reservations -> Document]
    BY DEF TypeOK
  <2>5. res'[j.r] = j.new /\ \A q \in Reservations \ {j.r} : res'[q] = res[q]
    BY <1>4, <2>2, <2>3, <2>4
  <2>6. j.new.status # "none"
    BY <2>2 DEF RequestTied
  <2>7. AbsentUnpaid(res')
    BY <1>2, <2>5, <2>6 DEF AbsentUnpaid
  <2>8. BedsTrue(room, res')
    <3>1. CASE j.op \in {"create", "submit"}
      <4>1. res[j.r].fee = "none"
        BY <2>2, <3>1 DEF RequestTied
      <4>2. \A b \in Beds : room.beds[b].by # j.r
        BY <1>4, <2>2, <4>1, UnpaidHasNoBed
      <4>. QED BY <1>2, <1>4, <2>2, <2>5, <4>2, BedsTrueKept
    <3>2. CASE j.op \notin {"create", "submit"}
      <4>1. res'[j.r].bed = res[j.r].bed
        BY <2>2, <2>5, <3>2 DEF RequestTied
      <4>. QED BY <1>2, <1>4, <2>2, <2>5, <4>1, BedsTrueKept
    <3>. QED BY <3>1, <3>2
  <2>9. CASE OneTransaction(j)
    <3>1. room' = Sync(room, j.r, j.new.bed, j.old, j.new.status) /\ Finish(w)
      BY <1>1, <1>7, <2>9 DEF Save
    <3>2. j.new.bed \in Beds /\ res'[j.r].bed = j.new.bed
      BY <1>4, <2>2, <2>5 DEF Document
    <3>3. BedsTrue(room', res')
      BY <1>4, <1>5, <2>2, <2>8, <3>1, <3>2, SyncTrue
    <3>. QED BY <2>7, <3>1, <3>3, TiedEnds
  <2>10. CASE ~OneTransaction(j)
    <3>1. room' = room
      BY <1>1, <1>7, <2>10 DEF Save
    <3>2. CASE j.op \in TwoWrites
      <4>1. PICK k : k = [j EXCEPT !.pc = "saved"]
        OBVIOUS
      <4>2. worker' = [worker EXCEPT ![w] = k]
        BY <1>1, <1>7, <2>10, <3>2, <4>1, Zenon DEF Save
      <4>3. k.op = j.op /\ k.r = j.r /\ k.pc = "saved" /\ k.new = j.new
        BY <2>2, <4>1 DEF Request
      <4>4. JobTied(k, res', room')
        BY <2>5, <2>6, <3>2, <4>3
           DEF JobTied, RequestTied, TwoWrites, Syncing
      <4>. QED BY <2>7, <2>8, <3>1, <4>2, <4>4, TiedMoves
    <3>3. CASE j.op \notin TwoWrites
      <4>1. Finish(w)
        BY <1>1, <1>7, <2>10, <3>3 DEF Save
      <4>. QED BY <2>7, <2>8, <3>1, <4>1, TiedEnds
    <3>. QED BY <3>2, <3>3
  <2>. QED BY <2>9, <2>10
<1>8. CASE SaveRejected(w) \/ SyncLost(w)
  <2>1. Finish(w) /\ UNCHANGED <<res, room>>
    BY <1>8 DEF SaveRejected, SyncLost
  <2>. QED BY <1>2, <2>1, TiedEnds
<1>9. CASE SyncRoom(w)
  <2>1. /\ j.op \in Syncing /\ j.pc = "saved" /\ Finish(w) /\ res' = res
        /\ room' = Sync(room, j.r, j.new.bed, j.old, j.new.status)
    BY <1>1, <1>9 DEF SyncRoom
  <2>2. j \in Request /\ RequestTied(j, res)
    BY <1>2, <1>3, <2>1 DEF Ops, Plain, TwoWrites, JobTied
  <2>3. j.new.bed \in Beds /\ res[j.r].bed = j.new.bed
    BY <1>4, <2>1, <2>2 DEF RequestTied, Document
  <2>4. BedsTrue(room', res)
    BY <1>2, <1>4, <1>5, <2>1, <2>2, <2>3, SyncTrue
  <2>. QED BY <1>2, <2>1, <2>4, TiedEnds
<1>10. CASE SubmitSave(w)
  <2>1. /\ j.op = "submit" /\ Finish(w) /\ room' = room
        /\ res' = res \/ res' = Submitted(j)
    BY <1>1, <1>10 DEF SubmitSave
  <2>2. j \in Request /\ RequestTied(j, res)
    BY <1>2, <1>3, <2>1 DEF Ops, JobTied
  <2>3. CASE res' = res
    BY <1>2, <2>1, <2>3, TiedEnds
  <2>4. CASE res' = Submitted(j)
    <3>1. res \in [Reservations -> Document]
      BY DEF TypeOK
    <3>2. /\ res'[j.r].status = "pending_application_review"
          /\ \A q \in Reservations \ {j.r} : res'[q] = res[q]
      BY <1>4, <2>2, <2>4, <3>1 DEF Submitted, Document
    <3>3. AbsentUnpaid(res')
      BY <1>2, <3>2 DEF AbsentUnpaid
    <3>4. res[j.r].fee = "none"
      BY <2>1, <2>2 DEF RequestTied
    <3>5. \A b \in Beds : room.beds[b].by # j.r
      BY <1>4, <2>2, <3>4, UnpaidHasNoBed
    <3>6. BedsTrue(room, res')
      BY <1>2, <1>4, <2>2, <3>2, <3>5, BedsTrueKept
    <3>. QED BY <2>1, <3>3, <3>6, TiedEnds
  <2>. QED BY <2>1, <2>3, <2>4
<1>11. CASE ProofSave(w)
  <2>1. /\ j.op = "proof" /\ Finish(w) /\ room' = room
        /\ res' = res \/ res' = Proven(j)
    BY <1>1, <1>11 DEF ProofSave
  <2>2. j \in Request
    BY <1>3, <2>1 DEF Ops
  <2>3. CASE res' = res
    BY <1>2, <2>1, <2>3, TiedEnds
  <2>4. CASE res' = Proven(j)
    <3>1. res \in [Reservations -> Document]
      BY DEF TypeOK
    <3>2. /\ res'[j.r].status = "payment_pending"
          /\ res'[j.r].bed = res[j.r].bed
          /\ \A q \in Reservations \ {j.r} : res'[q] = res[q]
      BY <1>4, <2>2, <2>4, <3>1 DEF Proven, Document
    <3>3. AbsentUnpaid(res')
      BY <1>2, <3>2 DEF AbsentUnpaid
    <3>4. BedsTrue(room, res')
      BY <1>2, <1>4, <2>2, <3>2, BedsTrueKept
    <3>. QED BY <2>1, <3>3, <3>4, TiedEnds
  <2>. QED BY <2>1, <2>3, <2>4
<1>12. CASE AbandonFree(w)
  <2>1. /\ Finish(w) /\ res' = res
        /\ room' = [room EXCEPT !.beds[j.new.bed].status = "available"]
    BY <1>1, <1>12 DEF AbandonFree
  <2>2. \A b \in Beds : room'.beds[b].by = room.beds[b].by
    BY <1>5, <2>1 DEF Room, Bed
  <2>3. BedsTrue(room', res)
    BY <1>2, <2>2 DEF BedsTrue
  <2>. QED BY <1>2, <2>1, <2>3, TiedEnds
<1>13. CASE SweepDerive(w)
  <2>1. j.op \in {"reconcile", "recalculate"} /\ UNCHANGED <<res, room>>
    BY <1>1, <1>13 DEF SweepDerive
  <2>2. j \in Sweep /\ j.snap = room
    BY <1>2, <1>3, <2>1 DEF JobTied, SweepTied
  <2>3. PICK g : /\ g \in {Reconciled(room), Recalculated(room)}
                 /\ worker' = [worker EXCEPT ![w].pc = "derived", ![w].goal = g]
    BY <1>1, <1>13, <2>2, Zenon DEF SweepDerive
  <2>4. PICK k : k = [j EXCEPT !.pc = "derived", !.goal = g]
    OBVIOUS
  <2>5. worker' = [worker EXCEPT ![w] = k]
    BY <1>1, <2>3, <2>4, Zenon
  <2>6. k.op = j.op /\ k.snap = room /\ k.goal = g
    BY <2>2, <2>4 DEF Sweep
  <2>7. BedsTrue(g, res)
    BY <1>2, <1>5, <2>3, SweepTrue
  <2>8. JobTied(k, res', room')
    BY <2>1, <2>6, <2>7
       DEF JobTied, SweepTied, Ops, Plain, TwoWrites, Syncing
  <2>. QED BY <1>2, <2>1, <2>5, <2>8, TiedMoves
<1>14. CASE SweepSave(w)
  <2>1. /\ j.op \in {"reconcile", "recalculate"} /\ j.pc = "derived"
        /\ room' = MergeRoom(room, j.snap, j.goal)
        /\ Finish(w) /\ res' = res
    BY <1>1, <1>14 DEF SweepSave
  <2>2. j.goal \in Room /\ j.snap = room /\ BedsTrue(j.goal, res)
    BY <1>2, <1>3, <2>1 DEF JobTied, SweepTied, Sweep
  <2>3. \A b \in Beds : room'.beds[b].by = j.goal.beds[b].by
    BY <2>1, <2>2 DEF MergeRoom, Modified, Room, Bed
  <2>4. BedsTrue(room', res)
    BY <2>2, <2>3 DEF BedsTrue
  <2>. QED BY <1>2, <2>1, <2>4, TiedEnds
<1>. QED
  BY <1>6, <1>7, <1>8, <1>9, <1>10, <1>11, <1>12, <1>13, <1>14 DEF Proceed

\* A request that loads and modifies in memory.
LEMMA LoadTied ==
    ASSUME OneAtATime, TypeOK, Tied, NEW w \in Workers, NEW op \in Ops,
           NEW r \in Reservations, NEW new \in Document, Load(w, op, r, new),
           new.status # "none",
           op \in {"create", "submit"} => res[r].fee = "none",
           op \notin {"create", "submit"} => new.bed = res[r].bed
    PROVE  Tied'
PROOF
<1>1. PICK k : k = [op |-> op, r |-> r, pc |-> "loaded",
                    old |-> res[r].status, seen |-> res[r], new |-> new]
  OBVIOUS
<1>2. worker' = [worker EXCEPT ![w] = k] /\ UNCHANGED <<res, room>>
  BY <1>1 DEF Load
<1>3. /\ k.op = op /\ k.r = r /\ k.pc = "loaded" /\ k.old = res[r].status
      /\ k.seen = res[r] /\ k.new = new
  BY <1>1
<1>4. JobTied(k, res', room')
  BY <1>2, <1>3
     DEF JobTied, RequestTied, Ops, Plain, TwoWrites, Syncing
<1>. QED BY <1>2, <1>4, TiedMoves DEF Tied

\* One document changes in place and keeps its bed; the room points its beds
\* where they should.
LEMMA DirectTied ==
    ASSUME OneAtATime, TypeOK, Tied, NEW w \in Workers, worker[w] = Idle,
           NEW r \in Reservations, NEW d \in Document,
           res' = [res EXCEPT ![r] = d], d.status # "none",
           d.bed = res[r].bed, worker' = worker,
           BedsTrue(room, res') => BedsTrue(room', res')
    PROVE  Tied'
PROOF
<1>1. res'[r] = d /\ \A q \in Reservations \ {r} : res'[q] = res[q]
  BY DEF TypeOK
<1>2. BedsTrue(room, res')
  BY <1>1, BedsTrueKept DEF Tied
<1>3. AbsentUnpaid(res')
  BY <1>1 DEF Tied, AbsentUnpaid
<1>. QED BY <1>2, <1>3, TiedIdle

LEMMA TiedRequest ==
    ASSUME OneAtATime, TypeOK, HolderHasPaid, Tied,
           NEW w \in Workers, NEW r \in Reservations,
           Applicant(w, r) \/ Admin(w, r) \/ System(w, r)
    PROVE  Tied'
PROOF
<1>1. PICK d : d = res[r]
  OBVIOUS
<1>2. d \in Document /\ room \in Room
  BY <1>1 DEF TypeOK
<1>3. BedsTrue(room, res) /\ AbsentUnpaid(res)
  BY DEF Tied
<1>4. ASSUME NEW op \in Ops, NEW new \in Document, Load(w, op, r, new),
             new.status # "none", op \notin {"create", "submit"},
             new.bed = d.bed
      PROVE  Tied'
  BY <1>1, <1>4, LoadTied
<1>5. ASSUME NEW b \in Beds, CreateLoad(w, r, b) PROVE Tied'
  <2>1. PICK new : new = [d EXCEPT !.status = "pending", !.bed = b]
    OBVIOUS
  <2>2. PICK k : k = [op |-> "create", r |-> r, pc |-> "loaded",
                      old |-> "none", seen |-> d, new |-> new]
    OBVIOUS
  <2>3. /\ worker' = [worker EXCEPT ![w] = k] /\ res' = res
        /\ d.status = "none"
    BY <1>1, <1>5, <2>1, <2>2 DEF CreateLoad
  <2>4. BedsTrue(room', res)
    <3>1. room'.beds = room.beds
      BY <1>2, <1>5 DEF CreateLoad, Room
    <3>. QED BY <1>3, <3>1 DEF BedsTrue
  <2>5. new.status = "pending" /\ d.fee = "none"
    BY <1>1, <1>2, <1>3, <2>1, <2>3 DEF Document, AbsentUnpaid
  <2>6. /\ k.op = "create" /\ k.r = r /\ k.pc = "loaded" /\ k.old = "none"
        /\ k.seen = d /\ k.new = new
    BY <2>2
  <2>7. JobTied(k, res', room')
    BY <1>1, <2>3, <2>5, <2>6 DEF JobTied, RequestTied
  <2>. QED BY <1>3, <2>3, <2>4, <2>7, TiedMoves
<1>6. ASSUME NEW b \in Beds, SubmitLoad(w, r, b) PROVE Tied'
  <2>1. PICK new : new = [d EXCEPT !.status = "pending_application_review",
                                   !.bed = b]
    OBVIOUS
  <2>2. new \in Document /\ new.status # "none"
    BY <1>2, <2>1 DEF Document, Statuses
  <2>3. Load(w, "submit", r, new) /\ d.fee = "none"
    BY <1>1, <1>6, <2>1 DEF SubmitLoad, Submittable
  <2>. QED BY <1>1, <2>2, <2>3, LoadTied DEF Ops
<1>7. CASE CheckoutLoad(w, r)
  <2>1. PICK new : new = [d EXCEPT !.status = "payment_pending",
                                   !.checkout = TRUE]
    OBVIOUS
  <2>2. new \in Document /\ new.status # "none" /\ new.bed = d.bed
    BY <1>2, <2>1 DEF Document, Statuses
  <2>3. Load(w, "checkout", r, new)
    BY <1>1, <1>7, <2>1 DEF CheckoutLoad
  <2>. QED BY <1>4, <2>2, <2>3 DEF Ops, Plain
<1>8. CASE ProofLoad(w, r)
  <2>1. Load(w, "proof", r, d) /\ d.status # "none"
    BY <1>1, <1>8 DEF ProofLoad, Load
  <2>. QED BY <1>2, <1>4, <2>1 DEF Ops
<1>9. ASSUME NEW op \in Ops \ {"create", "submit"},
             NEW st \in Statuses \ {"none"},
             Load(w, op, r, [res[r] EXCEPT !.status = st])
      PROVE  Tied'
  <2>1. PICK new : new = [d EXCEPT !.status = st]
    OBVIOUS
  <2>2. new \in Document /\ new.status # "none" /\ new.bed = d.bed
    BY <1>2, <2>1 DEF Document
  <2>3. Load(w, op, r, new)
    BY <1>1, <1>9, <2>1
  <2>. QED BY <1>4, <2>2, <2>3
<1>10. /\ {"userCancel", "releaseSlot", "softDelete", "abandon", "expire",
           "noShow"} \subseteq Ops \ {"create", "submit"}
       /\ {"cancelled", "moveOut"} \subseteq Statuses \ {"none"}
  BY DEF Ops, Plain, TwoWrites, Syncing, Statuses
<1>11. CASE \/ UserCancelLoad(w, r) \/ ReleaseSlotLoad(w, r)
            \/ SoftDeleteLoad(w, r) \/ AbandonLoad(w, r)
            \/ ExpireLoad(w, r) \/ NoShowLoad(w, r)
  BY <1>9, <1>10, <1>11 DEF UserCancelLoad, ReleaseSlotLoad, SoftDeleteLoad,
     AbandonLoad, ExpireLoad, NoShowLoad
<1>12. CASE \/ RequestCancellationLoad(w, r) \/ WithdrawCancellationLoad(w, r)
            \/ RejectCancellationLoad(w, r) \/ ArchiveLoad(w, r)
            \/ RestoreLoad(w, r) \/ ApproveCancellationLoad(w, r)
  <2>1. PICK op \in {"requestCancellation", "withdrawCancellation",
                     "rejectCancellation", "archive", "restore",
                     "approveCancellation"},
             new \in {[d EXCEPT !.request = TRUE, !.reason = TRUE],
                      [d EXCEPT !.request = FALSE, !.reason = FALSE],
                      [d EXCEPT !.request = FALSE],
                      [d EXCEPT !.archived = TRUE],
                      [d EXCEPT !.archived = FALSE,
                                !.status = IF d.status \in SafeRestore
                                           THEN d.status ELSE "cancelled"],
                      [d EXCEPT !.status = "cancelled", !.request = FALSE,
                                !.reason = TRUE]} :
             Load(w, op, r, new)
    BY <1>1, <1>12, Zenon DEF RequestCancellationLoad, WithdrawCancellationLoad,
       RejectCancellationLoad, ArchiveLoad, RestoreLoad,
       ApproveCancellationLoad
  <2>2. d.status # "none"
    BY <1>1, <2>1 DEF Load
  <2>3. new \in Document /\ new.status # "none" /\ new.bed = d.bed
    BY <1>2, <2>1, <2>2 DEF Document, Statuses
  <2>4. op \in Ops /\ op \notin {"create", "submit"}
    BY <2>1 DEF Ops, Plain, TwoWrites, Syncing
  <2>. QED BY <1>4, <2>1, <2>3, <2>4
<1>13. ASSUME NEW to, AdminCheck(w, r, to) PROVE Tied'
  <2>1. PICK new : new = [d EXCEPT !.status = to]
    OBVIOUS
  <2>2. PICK k : k = [op |-> "admin", r |-> r, pc |-> "checked",
                      old |-> d.status, seen |-> d, new |-> new]
    OBVIOUS
  <2>3. /\ worker' = [worker EXCEPT ![w] = k] /\ UNCHANGED <<res, room>>
        /\ d.status # "none" /\ to \in AdminTargets(d.status)
    BY <1>1, <1>13, <2>1, <2>2 DEF AdminCheck
  <2>4. to # "none"
    BY <2>3 DEF AdminTargets, SafeRestore
  <2>5. new.status = to /\ new.bed = d.bed
    BY <1>2, <2>1 DEF Document
  <2>6. /\ k.op = "admin" /\ k.r = r /\ k.pc = "checked"
        /\ k.old = d.status /\ k.seen = d /\ k.new = new
    BY <2>2
  <2>7. JobTied(k, res', room')
    BY <1>1, <2>3, <2>4, <2>5, <2>6 DEF JobTied, RequestTied
  <2>. QED BY <1>3, <2>3, <2>7, TiedMoves
<1>14. CASE MoveOut(w, r)
  <2>1. PICK b, n : /\ b \in Beds
                    /\ room' = [n EXCEPT !.beds[b] = Free]
                    /\ n = Decrease(room)
    <3>1. res[r].bed \in Beds
      BY <1>1, <1>2 DEF Document
    <3>. QED BY <1>14, <3>1 DEF MoveOut
  <2>2. PICK e : e = [d EXCEPT !.status = "moveOut"]
    OBVIOUS
  <2>3. e \in Document /\ e.status # "none" /\ e.bed = d.bed
    BY <1>2, <2>2 DEF Document, Statuses
  <2>4. /\ res' = [res EXCEPT ![r] = e]
        /\ worker[w] = Idle /\ worker' = worker
    BY <1>1, <1>14, <2>2 DEF MoveOut, Open
  <2>5. ASSUME BedsTrue(room, res') PROVE BedsTrue(room', res')
    <3>1. n \in Room /\ n.beds = room.beds
      BY <1>2, <2>1, CounterType DEF Decrease, Room
    <3>2. \A c \in Beds : room'.beds[c] = IF c = b THEN Free ELSE room.beds[c]
      BY <2>1, <3>1 DEF Room
    <3>. QED BY <2>5, <3>2 DEF BedsTrue, Free
  <2>. QED BY <1>1, <2>3, <2>4, <2>5, DirectTied
<1>15. CASE Settle(w, r)
  <2>1. PICK e : e = [d EXCEPT !.status = "reserved", !.fee = "verified"]
    OBVIOUS
  <2>2. e \in Document /\ e.status # "none" /\ e.bed = d.bed
    BY <1>2, <2>1 DEF Document, Statuses
  <2>3. /\ res' = [res EXCEPT ![r] = e] /\ room' = Settled(room, res', r)
        /\ worker[w] = Idle /\ worker' = worker
    BY <1>1, <1>15, <2>1 DEF Settle, Open
  <2>4. ASSUME BedsTrue(room, res') PROVE BedsTrue(room', res')
    <3>1. PICK n : n = Assign(room, r, res'[r].bed, "reserved")
      OBVIOUS
    <3>2. res'[r].bed \in Beds
      BY <1>2, <2>2, <2>3 DEF TypeOK, Document
    <3>3. n \in Room /\ BedsTrue(n, res')
      BY <1>2, <2>4, <3>1, <3>2, AssignTrue, AssignType
    <3>4. room'.beds = n.beds
      BY <2>3, <3>1, <3>3 DEF Settled, Room
    <3>. QED BY <3>3, <3>4 DEF BedsTrue
  <2>. QED BY <1>1, <2>2, <2>3, <2>4, DirectTied
<1>16. CASE FlagOverdue(w, r)
  <2>1. PICK e : e = [d EXCEPT !.status = "move_in_overdue"]
    OBVIOUS
  <2>2. e \in Document /\ e.status # "none" /\ e.bed = d.bed
    BY <1>2, <2>1 DEF Document, Statuses
  <2>3. /\ res' = [res EXCEPT ![r] = e] /\ room' = room
        /\ worker[w] = Idle /\ worker' = worker
    BY <1>1, <1>16, <2>1 DEF FlagOverdue, Open
  <2>. QED BY <1>1, <2>2, <2>3, DirectTied
<1>. QED
  BY <1>5, <1>6, <1>7, <1>8, <1>11, <1>12, <1>13, <1>14, <1>15, <1>16
     DEF Applicant, Admin, System

LEMMA TiedRoomWork ==
    ASSUME OneAtATime, TypeOK, Tied, NEW w \in Workers, RoomWork(w)
    PROVE  Tied'
PROOF
<1>1. BedsTrue(room, res) /\ AbsentUnpaid(res) /\ room \in Room
  BY DEF Tied, TypeOK
<1>2. ASSUME NEW b \in Beds, StartMaintenance(w, b) \/ EndMaintenance(w, b)
      PROVE  Tied'
  <2>1. /\ worker[w] = Idle /\ worker' = worker /\ res' = res
        /\ \A c \in Beds : room'.beds[c].by \in {NoRes, room.beds[c].by}
    BY <1>1, <1>2 DEF StartMaintenance, EndMaintenance, Open, Room, Bed
  <2>2. BedsTrue(room', res)
    BY <1>1, <2>1 DEF BedsTrue
  <2>. QED BY <1>1, <2>1, <2>2, TiedIdle
<1>3. ASSUME NEW op \in {"reconcile", "recalculate"}, SweepLoad(w, op)
      PROVE  Tied'
  <2>1. PICK k : k = [op |-> op, pc |-> "loaded", snap |-> room,
                      goal |-> room]
    OBVIOUS
  <2>2. worker' = [worker EXCEPT ![w] = k] /\ UNCHANGED <<res, room>>
    BY <1>3, <2>1 DEF SweepLoad
  <2>3. k.op = op /\ k.pc = "loaded" /\ k.snap = room
    BY <2>1
  <2>4. JobTied(k, res', room')
    BY <2>2, <2>3 DEF JobTied, SweepTied, Ops, Plain, TwoWrites, Syncing
  <2>. QED BY <1>1, <2>2, <2>4, TiedMoves
<1>. QED BY <1>2, <1>3 DEF RoomWork

LEMMA TiedInit == Init => Tied
PROOF
<1> SUFFICES ASSUME Init PROVE Tied
  OBVIOUS
<1>1. BedsTrue(room, res) /\ AbsentUnpaid(res)
  BY DEF Init, BedsTrue, AbsentUnpaid, Absent, Free
<1>2. \A w \in Workers : worker[w] = Idle
  BY DEF Init
<1>. QED BY <1>1, <1>2, IdleTied DEF Tied

LEMMA AlwaysTied == ASSUME OneAtATime PROVE Spec => []Tied
PROOF
<1>1. ASSUME TypeOK, HolderHasPaid, Tied, [Next]_vars PROVE Tied'
  <2>1. CASE Next
    BY <1>1, <2>1, TiedProceed, TiedRequest, TiedRoomWork DEF Next
  <2>2. CASE UNCHANGED vars
    BY <1>1, <2>2 DEF vars, Tied, JobTied, RequestTied, SweepTied, BedsTrue,
       AbsentUnpaid
  <2>. QED BY <1>1, <2>1, <2>2
<1>. QED BY <1>1, TiedInit, TypeCorrect, HolderPaid, PTL DEF Spec

\* Between two requests every bed points at a reservation that chose it: an
\* applicant who changes beds has not paid, and no bed points at who has not;
\* for every number of beds and reservations, all the operations, and syncs
\* that fail.
THEOREM BedsPointTrue ==
    ASSUME OneAtATime PROVE Spec => []BedPointsAtItsTenant
PROOF
<1>1. Tied => BedPointsAtItsTenant
  BY DEF Tied, BedsTrue, BedPointsAtItsTenant
<1>. QED BY <1>1, AlwaysTied, PTL

-----------------------------------------------------------------------------
(* The counter covers the tenants                                          *)

\* Archived reservations keep their status, so that one may be confirmed that
\* no count includes; none are archived here.
NoArchive == "archive" \notin Kinds

Covered(rm, rs) == Cardinality(Live(rs)) <= rm.count

\* The occupancy update still to come will take a tenant off the counter.
Owed(j) ==
    /\ j.op \in Syncing /\ j.pc = "saved"
    /\ j.old \in Active /\ j.new.status \notin Active

\* No request confirms a tenant: only a settlement does.
RequestCovered(j, rs, rm) ==
    /\ ~j.new.archived
    /\ j.new.status \in Active => j.old \in Active
    /\ j.new.status = "reserved" => j.old = "reserved"
    /\ Owed(j) => Cardinality(Live(rs)) + 1 <= rm.count

JobCovered(j, rs, rm) ==
    /\ j.op \in Ops => RequestCovered(j, rs, rm)
    /\ j.op \in {"reconcile", "recalculate"} /\ j.pc = "derived"
          => Covered(j.goal, rs)

NoneArchived(rs) == \A r \in Reservations : ~rs[r].archived

CoverInv ==
    /\ NoneArchived(res)
    /\ Covered(room, res)
    /\ \A w \in Workers : JobCovered(worker[w], res, room)

LEMMA LiveCount ==
    ASSUME NEW rs
    PROVE  IsFiniteSet(Live(rs)) /\ Cardinality(Live(rs)) \in Nat
PROOF
BY RoomAssumption, FS_Subset, FS_CardinalityType DEF Live

\* No reservation becomes live: there are not more than before.
LEMMA NoneEnters ==
    ASSUME NEW rs, NEW ss, Live(ss) \subseteq Live(rs)
    PROVE  Cardinality(Live(ss)) <= Cardinality(Live(rs))
PROOF
BY LiveCount, FS_Subset

\* One reservation less is live: there is at least one less than before.
LEMMA OneLeaves ==
    ASSUME NEW rs, NEW ss, NEW r \in Live(rs), Live(ss) \subseteq Live(rs) \ {r}
    PROVE  Cardinality(Live(ss)) + 1 <= Cardinality(Live(rs))
PROOF
<1>1. IsFiniteSet(Live(rs)) /\ Cardinality(Live(rs)) \in Nat
      /\ Cardinality(Live(ss)) \in Nat
  BY LiveCount
<1>2. IsFiniteSet(Live(rs) \ {r})
      /\ Cardinality(Live(rs) \ {r}) = Cardinality(Live(rs)) - 1
  BY <1>1, FS_RemoveElement
<1>3. Cardinality(Live(ss)) <= Cardinality(Live(rs) \ {r})
  BY <1>2, FS_Subset
<1>. QED BY <1>1, <1>2, <1>3

LEMMA IdleCovered ==
    ASSUME NEW rs, NEW rm
    PROVE  JobCovered(Idle, rs, rm)
PROOF
BY DEF JobCovered, Idle, Ops, Plain, TwoWrites, Syncing

LEMMA CoverMoves ==
    ASSUME OneAtATime, TypeOK, NEW w \in Workers, NEW j,
           worker' = [worker EXCEPT ![w] = j],
           NoneArchived(res'), Covered(room', res'),
           JobCovered(j, res', room')
    PROVE  CoverInv'
PROOF
<1>1. \A v \in Workers : worker'[v] = j
  BY OnlyWorker
<1>2. NoneArchived(res)' /\ Covered(room, res)'
  BY DEF NoneArchived, Covered, Live
<1>3. ASSUME NEW v \in Workers PROVE JobCovered(worker[v], res, room)'
  <2>1. worker'[v] = j
    BY <1>1
  <2>2. JobCovered(worker'[v], res', room')
    BY <2>1
  <2>. QED BY <2>2 DEF JobCovered, RequestCovered, Covered, Owed, Live
<1>. QED BY <1>2, <1>3 DEF CoverInv

LEMMA CoverEnds ==
    ASSUME OneAtATime, TypeOK, NEW w \in Workers, Finish(w),
           NoneArchived(res'), Covered(room', res')
    PROVE  CoverInv'
PROOF
<1>1. worker' = [worker EXCEPT ![w] = Idle]
  BY DEF Finish
<1>. QED BY <1>1, IdleCovered, CoverMoves

LEMMA CoverIdle ==
    ASSUME OneAtATime, TypeOK, NEW w \in Workers, worker[w] = Idle,
           worker' = worker, NoneArchived(res'), Covered(room', res')
    PROVE  CoverInv'
PROOF
<1>1. worker' = [worker EXCEPT ![w] = Idle]
  BY DEF TypeOK
<1>. QED BY <1>1, IdleCovered, CoverMoves

\* One document is written: the effect on who is live.
LEMMA LiveAfter ==
    ASSUME NEW rs, NoneArchived(rs), NEW ss, NEW r \in Reservations,
           \A q \in Reservations \ {r} : ss[q] = rs[q], ~ss[r].archived
    PROVE  /\ NoneArchived(ss)
           /\ (ss[r].status \in Active => rs[r].status \in Active)
                 => Live(ss) \subseteq Live(rs)
           /\ rs[r].status \in Active /\ ss[r].status \notin Active
                 => r \in Live(rs) /\ Live(ss) \subseteq Live(rs) \ {r}
PROOF
<1>1. NoneArchived(ss)
  BY DEF NoneArchived
<1>2. ASSUME ss[r].status \in Active => rs[r].status \in Active
      PROVE  Live(ss) \subseteq Live(rs)
  BY <1>2 DEF Live, NoneArchived
<1>3. ASSUME rs[r].status \in Active, ss[r].status \notin Active
      PROVE  r \in Live(rs) /\ Live(ss) \subseteq Live(rs) \ {r}
  BY <1>3 DEF Live, NoneArchived
<1>. QED BY <1>1, <1>2, <1>3

\* What a synchronisation does to the counter, when no tenant is confirmed.
LEMMA SyncCovers ==
    ASSUME NEW rm \in Room, NEW r, NEW bed, NEW old, NEW new, NEW n \in Nat,
           new \in Active => old \in Active,
           new = "reserved" => old = "reserved",
           n <= rm.count,
           old \in Active /\ new \notin Active => n + 1 <= rm.count
    PROVE  n <= Sync(rm, r, bed, old, new).count
PROOF
<1>1. \A x \in Room : /\ \A st : Assign(x, r, bed, st).count = x.count
                     /\ Vacate(x, r, bed).count = x.count
  BY DEF Assign, Vacate, Room
<1>2. rm.count \in Nat /\ Decrease(rm) \in Room
  BY CounterType DEF Room
<1>3. Decrease(rm).count = IF rm.count > 0 THEN rm.count - 1 ELSE rm.count
  BY DEF Decrease, Room
<1>4. PICK m : m = Decrease(rm)
  OBVIOUS
<1>5. CASE new \in Active
  <2>1. Sync(rm, r, bed, old, new) = rm
        \/ Sync(rm, r, bed, old, new) = Assign(rm, r, bed, "occupied")
    BY <1>5 DEF Sync, Active
  <2>. QED BY <1>1, <2>1
<1>6. CASE new \notin Active /\ old \in Active
  <2>1. \/ Sync(rm, r, bed, old, new) = rm
        \/ Sync(rm, r, bed, old, new) = Vacate(m, r, bed)
    BY <1>4, <1>6 DEF Sync, Active, PreviouslyHeldOccupancy
  <2>2. n + 1 <= rm.count
    BY <1>6
  <2>3. n <= m.count
    BY <1>2, <1>3, <1>4, <2>2
  <2>4. m \in Room
    BY <1>2, <1>4
  <2>. QED BY <1>1, <2>1, <2>3, <2>4
<1>7. CASE new \notin Active /\ old \notin Active
  <2>1. \/ Sync(rm, r, bed, old, new) = rm
        \/ Sync(rm, r, bed, old, new) = Vacate(rm, r, bed)
    BY <1>7 DEF Sync, Active, PreviouslyHeldOccupancy
  <2>. QED BY <1>1, <2>1
<1>. QED BY <1>5, <1>6, <1>7

LEMMA CoverProceed ==
    ASSUME OneAtATime, TypeOK, TypeOK', Tied, CoverInv,
           NEW w \in Workers, Proceed(w)
    PROVE  CoverInv'
PROOF
<1>1. PICK j : j = worker[w]
  OBVIOUS
<1>2. /\ JobTied(j, res, room) /\ JobCovered(j, res, room)
      /\ NoneArchived(res) /\ Covered(room, res)
  BY <1>1 DEF Tied, CoverInv
<1>3. /\ j.op \in Ops => j \in Request
      /\ j.op \in {"reconcile", "recalculate"} => j \in Sweep
  BY <1>1, WorkerKind
<1>4. ASSUME j \in Request
      PROVE  /\ j.r \in Reservations /\ res[j.r] \in Document
             /\ j.new \in Document /\ j.seen \in Document
  BY <1>4 DEF Request, TypeOK
<1>5. /\ room \in Room /\ room.count \in Nat
      /\ res \in [Reservations -> Document]
  BY DEF TypeOK, Room
<1>6. CASE AdminLoad(w)
  <2>1. j.op = "admin" /\ j.pc = "checked" /\ UNCHANGED <<res, room>>
    BY <1>1, <1>6 DEF AdminLoad
  <2>2. j \in Request /\ RequestCovered(j, res, room)
    BY <1>2, <1>3, <2>1 DEF Ops, Plain, TwoWrites, Syncing, JobCovered
  <2>3. PICK a : worker' = [worker EXCEPT
            ![w].pc = "loaded",
            ![w].seen = res[j.r],
            ![w].new = [res[j.r] EXCEPT !.status = j.new.status,
                                        !.approved = a]]
    BY <1>1, <1>6, Zenon DEF AdminLoad
  <2>4. PICK d, n, k : /\ d = res[j.r]
                       /\ n = [d EXCEPT !.status = j.new.status, !.approved = a]
                       /\ k = [j EXCEPT !.pc = "loaded", !.seen = d, !.new = n]
    OBVIOUS
  <2>5. worker' = [worker EXCEPT ![w] = k]
    BY <1>1, <2>3, <2>4, Zenon
  <2>6. d \in Document /\ ~d.archived
    BY <1>2, <1>4, <2>2, <2>4 DEF NoneArchived
  <2>7. n.status = j.new.status /\ ~n.archived
    BY <2>4, <2>6 DEF Document
  <2>8. k.op = "admin" /\ k.pc = "loaded" /\ k.new = n /\ k.old = j.old
    BY <2>1, <2>2, <2>4 DEF Request
  <2>9. JobCovered(k, res', room')
    BY <2>2, <2>7, <2>8 DEF JobCovered, RequestCovered, Owed
  <2>. QED BY <1>2, <2>1, <2>5, <2>9, CoverMoves
<1>7. CASE Save(w)
  <2>1. j.op \in Plain /\ j.pc = "loaded" /\ res' = Saved(j)
    BY <1>1, <1>7 DEF Save
  <2>2. j \in Request /\ RequestTied(j, res) /\ RequestCovered(j, res, room)
    BY <1>2, <1>3, <2>1 DEF Ops, JobTied, JobCovered
  <2>3. res' = [res EXCEPT ![j.r] = j.new]
    <3>1. MergeDocument(res[j.r], j.seen, j.new) = j.new
      BY <1>4, <2>1, <2>2, MergedIsNew DEF RequestTied
    <3>. QED BY <2>1, <3>1 DEF Saved
  <2>4. res'[j.r] = j.new /\ \A q \in Reservations \ {j.r} : res'[q] = res[q]
    BY <1>4, <1>5, <2>2, <2>3
  <2>5. /\ j.old = res[j.r].status /\ ~j.new.archived
        /\ j.new.status \in Active => j.old \in Active
        /\ j.new.status = "reserved" => j.old = "reserved"
    BY <2>1, <2>2 DEF RequestTied, RequestCovered
  <2>6. PICK n, m : n = Cardinality(Live(res')) /\ m = Cardinality(Live(res))
    OBVIOUS
  <2>7. n \in Nat /\ m \in Nat /\ m <= room.count
    BY <1>2, <2>6, LiveCount DEF Covered
  <2>8. NoneArchived(res') /\ n <= m
    <3>1. j.r \in Reservations
      BY <1>4, <2>2
    <3>2. NoneArchived(res') /\ Live(res') \subseteq Live(res)
      BY <1>2, <2>4, <2>5, <3>1, LiveAfter
    <3>. QED BY <2>6, <3>2, NoneEnters
  <2>9. ASSUME j.old \in Active, j.new.status \notin Active
        PROVE  n + 1 <= room.count
    <3>1. j.r \in Reservations
      BY <1>4, <2>2
    <3>2. j.r \in Live(res) /\ Live(res') \subseteq Live(res) \ {j.r}
      BY <1>2, <2>4, <2>5, <2>9, <3>1, LiveAfter
    <3>3. n + 1 <= m
      BY <2>6, <3>2, OneLeaves
    <3>. QED BY <1>5, <2>7, <3>3
  <2>10. n <= room.count
    BY <1>5, <2>7, <2>8
  <2>11. CASE OneTransaction(j)
    <3>1. room' = Sync(room, j.r, j.new.bed, j.old, j.new.status) /\ Finish(w)
      BY <1>1, <1>7, <2>11 DEF Save
    <3>2. n <= room'.count
      BY <1>5, <2>5, <2>7, <2>9, <2>10, <3>1, SyncCovers
    <3>. QED BY <2>6, <2>8, <3>1, <3>2, CoverEnds DEF Covered
  <2>12. CASE ~OneTransaction(j)
    <3>1. room' = room
      BY <1>1, <1>7, <2>12 DEF Save
    <3>2. Covered(room', res')
      BY <2>6, <2>10, <3>1 DEF Covered
    <3>3. CASE j.op \in TwoWrites
      <4>1. PICK k : k = [j EXCEPT !.pc = "saved"]
        OBVIOUS
      <4>2. worker' = [worker EXCEPT ![w] = k]
        BY <1>1, <1>7, <2>12, <3>3, <4>1, Zenon DEF Save
      <4>3. /\ k.op = j.op /\ k.pc = "saved"
            /\ k.new = j.new /\ k.old = j.old
        BY <2>2, <4>1 DEF Request
      <4>4. RequestCovered(k, res', room')
        BY <2>5, <2>6, <2>9, <3>1, <4>3 DEF RequestCovered, Owed
      <4>5. k.op \notin {"reconcile", "recalculate"}
        BY <3>3, <4>3 DEF TwoWrites, Syncing
      <4>6. JobCovered(k, res', room')
        BY <4>4, <4>5 DEF JobCovered
      <4>. QED BY <2>8, <3>2, <4>2, <4>6, CoverMoves
    <3>4. CASE j.op \notin TwoWrites
      <4>1. Finish(w)
        BY <1>1, <1>7, <2>12, <3>4 DEF Save
      <4>. QED BY <2>8, <3>2, <4>1, CoverEnds
    <3>. QED BY <3>3, <3>4
  <2>. QED BY <2>11, <2>12
<1>8. CASE SaveRejected(w) \/ SyncLost(w)
  <2>1. Finish(w) /\ UNCHANGED <<res, room>>
    BY <1>8 DEF SaveRejected, SyncLost
  <2>. QED BY <1>2, <2>1, CoverEnds
<1>9. CASE SyncRoom(w)
  <2>1. /\ j.op \in Syncing /\ j.pc = "saved" /\ Finish(w) /\ res' = res
        /\ room' = Sync(room, j.r, j.new.bed, j.old, j.new.status)
    BY <1>1, <1>9 DEF SyncRoom
  <2>2. RequestCovered(j, res, room)
    BY <1>2, <2>1 DEF Ops, Plain, TwoWrites, JobCovered
  <2>3. PICK n : n = Cardinality(Live(res))
    OBVIOUS
  <2>4. n \in Nat /\ n <= room.count
    BY <1>2, <2>3, LiveCount DEF Covered
  <2>5. ASSUME j.old \in Active, j.new.status \notin Active
        PROVE  n + 1 <= room.count
    BY <2>1, <2>2, <2>3, <2>5 DEF RequestCovered, Owed
  <2>6. n <= room'.count
    BY <1>5, <2>1, <2>2, <2>4, <2>5, SyncCovers DEF RequestCovered
  <2>. QED BY <1>2, <2>1, <2>3, <2>6, CoverEnds DEF Covered
<1>10. CASE SubmitSave(w) \/ ProofSave(w)
  <2>1. /\ j.op \in {"submit", "proof"} /\ Finish(w) /\ room' = room
        /\ res' = res \/ res' = Submitted(j) \/ res' = Proven(j)
    BY <1>1, <1>10 DEF SubmitSave, ProofSave
  <2>2. j.r \in Reservations /\ res[j.r] \in Document /\ ~res[j.r].archived
    BY <1>2, <1>3, <1>4, <2>1 DEF Ops, NoneArchived
  <2>3. CASE res' = res
    BY <1>2, <2>1, <2>3, CoverEnds
  <2>4. CASE res' = Submitted(j) \/ res' = Proven(j)
    <3>1. /\ res'[j.r].status \notin Active /\ ~res'[j.r].archived
          /\ \A q \in Reservations \ {j.r} : res'[q] = res[q]
      <4>1. CASE res' = Submitted(j)
        BY <1>5, <2>2, <4>1 DEF Submitted, Document, Active
      <4>2. CASE res' = Proven(j)
        BY <1>5, <2>2, <4>2 DEF Proven, Document, Active
      <4>. QED BY <2>4, <4>1, <4>2
    <3>2. NoneArchived(res') /\ Live(res') \subseteq Live(res)
      BY <1>2, <2>2, <3>1, LiveAfter
    <3>3. PICK n, m : n = Cardinality(Live(res')) /\ m = Cardinality(Live(res))
      OBVIOUS
    <3>4. n <= m /\ n \in Nat /\ m \in Nat /\ m <= room.count
      BY <1>2, <3>2, <3>3, NoneEnters, LiveCount DEF Covered
    <3>5. n <= room.count
      BY <1>5, <3>4
    <3>. QED BY <2>1, <3>2, <3>3, <3>5, CoverEnds DEF Covered
  <2>. QED BY <2>1, <2>3, <2>4
<1>11. CASE AbandonFree(w)
  <2>1. /\ Finish(w) /\ res' = res
        /\ room' = [room EXCEPT !.beds[j.new.bed].status = "available"]
    BY <1>1, <1>11 DEF AbandonFree
  <2>2. room'.count = room.count
    BY <1>5, <2>1 DEF Room
  <2>. QED BY <1>2, <2>1, <2>2, CoverEnds DEF Covered
<1>12. CASE SweepDerive(w)
  <2>1. j.op \in {"reconcile", "recalculate"} /\ UNCHANGED <<res, room>>
    BY <1>1, <1>12 DEF SweepDerive
  <2>2. j \in Sweep
    BY <1>3, <2>1
  <2>3. PICK g : /\ g \in {Reconciled(j.snap), Recalculated(j.snap)}
                 /\ worker' = [worker EXCEPT ![w].pc = "derived", ![w].goal = g]
    BY <1>1, <1>12, Zenon DEF SweepDerive
  <2>4. PICK k : k = [j EXCEPT !.pc = "derived", !.goal = g]
    OBVIOUS
  <2>5. worker' = [worker EXCEPT ![w] = k]
    BY <1>1, <2>3, <2>4, Zenon
  <2>6. k.op = j.op /\ k.goal = g
    BY <2>2, <2>4 DEF Sweep
  <2>7. g.count = Cardinality(Live(res))
    BY <2>3 DEF Reconciled, Recalculated
  <2>8. Covered(g, res)
    <3>1. PICK n : n = Cardinality(Live(res))
      OBVIOUS
    <3>2. n \in Nat
      BY <3>1, LiveCount
    <3>. QED BY <2>7, <3>1, <3>2 DEF Covered
  <2>9. JobCovered(k, res', room')
    BY <2>1, <2>6, <2>8
       DEF JobCovered, Ops, Plain, TwoWrites, Syncing
  <2>. QED BY <1>2, <2>1, <2>5, <2>9, CoverMoves
<1>13. CASE SweepSave(w)
  <2>1. /\ j.op \in {"reconcile", "recalculate"} /\ j.pc = "derived"
        /\ room' = MergeRoom(room, j.snap, j.goal)
        /\ Finish(w) /\ res' = res
    BY <1>1, <1>13 DEF SweepSave
  <2>2. j.goal \in Room /\ j.snap = room /\ Covered(j.goal, res)
    BY <1>2, <1>3, <2>1 DEF JobTied, SweepTied, JobCovered, Sweep
  <2>3. room'.count = j.goal.count
    BY <2>1, <2>2 DEF MergeRoom, Modified
  <2>. QED BY <1>2, <2>1, <2>2, <2>3, CoverEnds DEF Covered
<1>. QED
  BY <1>6, <1>7, <1>8, <1>9, <1>10, <1>11, <1>12, <1>13 DEF Proceed

\* A request that loads: it confirms no tenant.
LEMMA LoadCovered ==
    ASSUME OneAtATime, TypeOK, CoverInv, NEW w \in Workers, NEW op \in Ops,
           NEW r \in Reservations, NEW new, Load(w, op, r, new),
           ~new.archived, new.status \in Active => new.status = res[r].status
    PROVE  CoverInv'
PROOF
<1>1. PICK k : k = [op |-> op, r |-> r, pc |-> "loaded",
                    old |-> res[r].status, seen |-> res[r], new |-> new]
  OBVIOUS
<1>2. worker' = [worker EXCEPT ![w] = k] /\ UNCHANGED <<res, room>>
  BY <1>1 DEF Load
<1>3. k.op = op /\ k.pc = "loaded" /\ k.old = res[r].status /\ k.new = new
  BY <1>1
<1>4. JobCovered(k, res', room')
  BY <1>3 DEF JobCovered, RequestCovered, Owed, Active, Ops, Plain, TwoWrites,
     Syncing
<1>. QED BY <1>2, <1>4, CoverMoves DEF CoverInv

LEMMA CoverRequest ==
    ASSUME OneAtATime, NoArchive, TypeOK, CoverInv,
           NEW w \in Workers, NEW r \in Reservations,
           Applicant(w, r) \/ Admin(w, r) \/ System(w, r)
    PROVE  CoverInv'
PROOF
<1>1. PICK d : d = res[r]
  OBVIOUS
<1>2. /\ d \in Document /\ ~d.archived /\ room \in Room /\ room.count \in Nat
      /\ res \in [Reservations -> Document]
  BY <1>1 DEF TypeOK, CoverInv, NoneArchived, Room
<1>3. NoneArchived(res) /\ Covered(room, res)
  BY DEF CoverInv
<1>4. PICK m : m = Cardinality(Live(res))
  OBVIOUS
<1>5. m \in Nat /\ m <= room.count
  BY <1>3, <1>4, LiveCount DEF Covered
<1>6. ASSUME NEW op \in Ops, NEW new, Load(w, op, r, new), ~new.archived,
             new.status \in Active => new.status = d.status
      PROVE  CoverInv'
  BY <1>1, <1>6, LoadCovered
<1>7. ASSUME NEW b \in Beds, CreateLoad(w, r, b) PROVE CoverInv'
  <2>1. PICK new : new = [d EXCEPT !.status = "pending", !.bed = b]
    OBVIOUS
  <2>2. PICK k : k = [op |-> "create", r |-> r, pc |-> "loaded",
                      old |-> "none", seen |-> d, new |-> new]
    OBVIOUS
  <2>3. worker' = [worker EXCEPT ![w] = k] /\ res' = res
    BY <1>1, <1>7, <2>1, <2>2 DEF CreateLoad
  <2>4. PICK H : H = {q \in Reservations : Holds(res, q)}
    OBVIOUS
  <2>5. Live(res) \subseteq H /\ H \subseteq Reservations
    BY <2>4 DEF Live, Holds, Active, BedHolding
  <2>6. IsFiniteSet(H)
    BY <2>5, RoomAssumption, FS_Subset
  <2>7. m <= Cardinality(H)
    BY <1>4, <2>5, <2>6, FS_Subset
  <2>8. m <= room'.count
    <3>1. room' = room \/ room' = [room EXCEPT !.count = Cardinality(H)]
      BY <1>7, <2>4 DEF CreateLoad
    <3>. QED BY <1>2, <1>5, <2>7, <3>1 DEF Room
  <2>9. new.status = "pending" /\ ~new.archived
    BY <1>2, <2>1 DEF Document
  <2>10. k.op = "create" /\ k.pc = "loaded" /\ k.old = "none" /\ k.new = new
    BY <2>2
  <2>11. JobCovered(k, res', room')
    BY <2>9, <2>10 DEF JobCovered, RequestCovered, Owed, Active
  <2>. QED BY <1>3, <1>4, <2>3, <2>8, <2>11, CoverMoves DEF Covered
<1>8. CASE \/ \E b \in Beds : SubmitLoad(w, r, b)
           \/ CheckoutLoad(w, r) \/ ProofLoad(w, r) \/ UserCancelLoad(w, r)
           \/ RequestCancellationLoad(w, r) \/ WithdrawCancellationLoad(w, r)
           \/ RejectCancellationLoad(w, r) \/ ApproveCancellationLoad(w, r)
           \/ ReleaseSlotLoad(w, r) \/ SoftDeleteLoad(w, r)
           \/ AbandonLoad(w, r) \/ ExpireLoad(w, r) \/ NoShowLoad(w, r)
  <2>1. PICK op \in {"submit", "checkout", "proof", "userCancel",
                     "requestCancellation", "withdrawCancellation",
                     "rejectCancellation", "approveCancellation",
                     "releaseSlot", "softDelete", "abandon", "expire",
                     "noShow"},
             new \in {d, [d EXCEPT !.status = "payment_pending",
                                   !.checkout = TRUE],
                      [d EXCEPT !.request = TRUE, !.reason = TRUE],
                      [d EXCEPT !.request = FALSE, !.reason = FALSE],
                      [d EXCEPT !.request = FALSE],
                      [d EXCEPT !.status = "cancelled", !.request = FALSE,
                                !.reason = TRUE],
                      [d EXCEPT !.status = "cancelled"],
                      [d EXCEPT !.status = "moveOut"]}
                  \cup {[d EXCEPT !.status = "pending_application_review",
                                  !.bed = b] : b \in Beds} :
             Load(w, op, r, new)
    BY <1>1, <1>8, Zenon DEF SubmitLoad, CheckoutLoad, ProofLoad,
       UserCancelLoad, RequestCancellationLoad, WithdrawCancellationLoad,
       RejectCancellationLoad, ApproveCancellationLoad, ReleaseSlotLoad,
       SoftDeleteLoad, AbandonLoad, ExpireLoad, NoShowLoad
  <2>2. ~new.archived /\ (new.status \in Active => new.status = d.status)
    <3>1. CASE new \in {[d EXCEPT !.status = "pending_application_review",
                                  !.bed = b] : b \in Beds}
      BY <1>2, <3>1 DEF Document, Active
    <3>2. CASE new \notin {[d EXCEPT !.status = "pending_application_review",
                                     !.bed = b] : b \in Beds}
      BY <1>2, <2>1, <3>2 DEF Document, Active
    <3>. QED BY <3>1, <3>2
  <2>3. op \in Ops
    BY <2>1 DEF Ops, Plain, TwoWrites, Syncing
  <2>. QED BY <1>6, <2>1, <2>2, <2>3
<1>9. ASSUME NEW to, AdminCheck(w, r, to) PROVE CoverInv'
  <2>1. PICK new : new = [d EXCEPT !.status = to]
    OBVIOUS
  <2>2. PICK k : k = [op |-> "admin", r |-> r, pc |-> "checked",
                      old |-> d.status, seen |-> d, new |-> new]
    OBVIOUS
  <2>3. /\ worker' = [worker EXCEPT ![w] = k] /\ UNCHANGED <<res, room>>
        /\ to \in AdminTargets(d.status)
        /\ to = "moveIn" => d.status \in Active
    BY <1>1, <1>9, <2>1, <2>2 DEF AdminCheck, MoveInReady, Active
  <2>4. to # "reserved"
    BY <2>3 DEF AdminTargets, SafeRestore
  <2>5. new.status = to /\ ~new.archived
    BY <1>2, <2>1 DEF Document
  <2>6. k.op = "admin" /\ k.pc = "checked" /\ k.old = d.status /\ k.new = new
    BY <2>2
  <2>7. JobCovered(k, res', room')
    BY <2>3, <2>4, <2>5, <2>6 DEF JobCovered, RequestCovered, Owed, Active
  <2>. QED BY <1>3, <2>3, <2>7, CoverMoves
<1>10. CASE ArchiveLoad(w, r)
  BY <1>10 DEF ArchiveLoad, Load, Open, NoArchive
<1>11. CASE RestoreLoad(w, r)
  BY <1>1, <1>2, <1>11 DEF RestoreLoad
<1>12. CASE MoveOut(w, r)
  <2>1. PICK b, n : room' = [n EXCEPT !.beds[b] = Free] /\ n = Decrease(room)
    BY <1>12, Zenon DEF MoveOut
  <2>2. PICK e : e = [d EXCEPT !.status = "moveOut"]
    OBVIOUS
  <2>3. /\ e.status = "moveOut" /\ ~e.archived /\ d.status = "moveIn"
        /\ res' = [res EXCEPT ![r] = e]
        /\ worker[w] = Idle /\ worker' = worker
    BY <1>1, <1>2, <1>12, <2>2 DEF MoveOut, Open, Document
  <2>4. res'[r] = e /\ \A q \in Reservations \ {r} : res'[q] = res[q]
    BY <1>2, <2>3
  <2>5. /\ NoneArchived(res') /\ r \in Live(res)
        /\ Live(res') \subseteq Live(res) \ {r}
    <3>1. /\ ~res'[r].archived /\ res'[r].status \notin Active
          /\ res[r].status \in Active
      BY <1>1, <2>3, <2>4 DEF Active
    <3>. QED BY <1>3, <2>4, <3>1, LiveAfter
  <2>6. PICK l : l = Cardinality(Live(res'))
    OBVIOUS
  <2>7. l \in Nat /\ l + 1 <= m
    BY <1>4, <2>5, <2>6, OneLeaves, LiveCount
  <2>8. n.count = IF room.count > 0 THEN room.count - 1 ELSE room.count
    BY <1>2, <2>1 DEF Decrease, Room
  <2>9. n \in Room
    BY <1>2, <2>1, CounterType
  <2>10. room'.count = n.count
    BY <2>1, <2>9 DEF Room
  <2>11. l <= room'.count
    BY <1>2, <1>5, <2>7, <2>8, <2>10
  <2>. QED BY <2>3, <2>5, <2>6, <2>11, CoverIdle DEF Covered
<1>13. CASE Settle(w, r)
  <2>1. PICK e : e = [d EXCEPT !.status = "reserved", !.fee = "verified"]
    OBVIOUS
  <2>2. /\ res' = [res EXCEPT ![r] = e] /\ room' = Settled(room, res', r)
        /\ worker[w] = Idle /\ worker' = worker
    BY <1>1, <1>13, <2>1 DEF Settle, Open
  <2>3. ~e.archived
    BY <1>2, <2>1 DEF Document
  <2>4. res'[r] = e /\ \A q \in Reservations \ {r} : res'[q] = res[q]
    BY <1>2, <2>2
  <2>5. NoneArchived(res')
    BY <1>3, <2>3, <2>4, LiveAfter
  <2>6. PICK l : l = Cardinality(Live(res'))
    OBVIOUS
  <2>7. l \in Nat
    BY <2>6, LiveCount
  <2>8. room'.count = l
    BY <2>2, <2>6 DEF Settled, Assign
  <2>9. Covered(room', res')
    BY <2>6, <2>7, <2>8 DEF Covered
  <2>. QED BY <2>2, <2>5, <2>9, CoverIdle
<1>14. CASE FlagOverdue(w, r)
  <2>1. PICK e : e = [d EXCEPT !.status = "move_in_overdue"]
    OBVIOUS
  <2>2. /\ e.status = "move_in_overdue" /\ ~e.archived
        /\ res' = [res EXCEPT ![r] = e] /\ room' = room
        /\ worker[w] = Idle /\ worker' = worker
    BY <1>1, <1>2, <1>14, <2>1 DEF FlagOverdue, Open, Document
  <2>3. res'[r] = e /\ \A q \in Reservations \ {r} : res'[q] = res[q]
    BY <1>2, <2>2
  <2>4. NoneArchived(res') /\ Live(res') \subseteq Live(res)
    <3>1. ~res'[r].archived /\ res'[r].status \notin Active
      BY <2>2, <2>3 DEF Active
    <3>. QED BY <1>3, <2>3, <3>1, LiveAfter
  <2>5. PICK l : l = Cardinality(Live(res'))
    OBVIOUS
  <2>6. l \in Nat /\ l <= m
    BY <1>4, <2>4, <2>5, NoneEnters, LiveCount
  <2>7. l <= room.count
    BY <1>2, <1>5, <2>6
  <2>. QED BY <2>2, <2>4, <2>5, <2>7, CoverIdle DEF Covered
<1>. QED
  BY <1>7, <1>8, <1>9, <1>10, <1>11, <1>12, <1>13, <1>14
     DEF Applicant, Admin, System

LEMMA CoverRoomWork ==
    ASSUME OneAtATime, TypeOK, CoverInv, NEW w \in Workers, RoomWork(w)
    PROVE  CoverInv'
PROOF
<1>1. NoneArchived(res) /\ Covered(room, res) /\ room \in Room
  BY DEF CoverInv, TypeOK
<1>2. ASSUME NEW b \in Beds, StartMaintenance(w, b) \/ EndMaintenance(w, b)
      PROVE  CoverInv'
  <2>1. /\ worker[w] = Idle /\ worker' = worker /\ res' = res
        /\ room'.count = room.count
    BY <1>1, <1>2 DEF StartMaintenance, EndMaintenance, Open, Room
  <2>. QED BY <1>1, <2>1, CoverIdle DEF Covered
<1>3. ASSUME NEW op \in {"reconcile", "recalculate"}, SweepLoad(w, op)
      PROVE  CoverInv'
  <2>1. PICK k : k = [op |-> op, pc |-> "loaded", snap |-> room,
                      goal |-> room]
    OBVIOUS
  <2>2. worker' = [worker EXCEPT ![w] = k] /\ UNCHANGED <<res, room>>
    BY <1>3, <2>1 DEF SweepLoad
  <2>3. k.op = op /\ k.pc = "loaded"
    BY <2>1
  <2>4. JobCovered(k, res', room')
    BY <2>3 DEF JobCovered, Ops, Plain, TwoWrites, Syncing
  <2>. QED BY <1>1, <2>2, <2>4, CoverMoves
<1>. QED BY <1>2, <1>3 DEF RoomWork

LEMMA CoverInit == Init => CoverInv
PROOF
<1> SUFFICES ASSUME Init PROVE CoverInv
  OBVIOUS
<1>1. NoneArchived(res) /\ Live(res) = {} /\ room.count = 0
  BY DEF Init, NoneArchived, Live, Absent, Active
<1>2. Covered(room, res)
  BY <1>1, FS_EmptySet DEF Covered
<1>3. \A w \in Workers : worker[w] = Idle
  BY DEF Init
<1>. QED BY <1>1, <1>2, <1>3, IdleCovered DEF CoverInv

\* Between two requests the counter covers every confirmed or seated tenant,
\* also after updates of the room that were lost: only settlements confirm a
\* tenant, and they count; everyone else only takes tenants off, one for each
\* that leaves.
THEOREM CounterCovers ==
    ASSUME OneAtATime, NoArchive PROVE Spec => []CounterCoversTenants
PROOF
<1>1. ASSUME TypeOK, TypeOK', Tied, CoverInv, [Next]_vars PROVE CoverInv'
  <2>1. CASE Next
    BY <1>1, <2>1, CoverProceed, CoverRequest, CoverRoomWork DEF Next
  <2>2. CASE UNCHANGED vars
    BY <1>1, <2>2 DEF vars, CoverInv, JobCovered, RequestCovered, Covered,
       NoneArchived, Owed, Live
  <2>. QED BY <1>1, <2>1, <2>2
<1>2. CoverInv => CounterCoversTenants
  BY DEF CoverInv, Covered, CounterCoversTenants
<1>. QED BY <1>1, <1>2, CoverInit, TypeCorrect, AlwaysTied, PTL DEF Spec
=============================================================================
