-------------------------- MODULE RoomReservations --------------------------
(***************************************************************************)
(* One dormitory room, the reservations competing for its beds, and the    *)
(* HTTP handlers, cron jobs and payment callbacks that change them.        *)
(*                                                                         *)
(* MongoDB makes a single document write, and a withTransaction body,      *)
(* atomic; nothing else is.  A handler therefore is a sequence of steps of *)
(* a worker: it loads a document, decides on what it loaded, saves the     *)
(* paths it modified, and finally brings the room in line.  Between two of *)
(* its steps any other handler or job may run.                             *)
(*                                                                         *)
(* The visit statuses are folded into "pending", and a bed that carries    *)
(* only a draft lock ("locked") into "available": no reservation or        *)
(* settlement check looks at that lock.                                    *)
(***************************************************************************)
EXTENDS Naturals, FiniteSets

CONSTANTS
    Reservations,   \* reservation ids, each of a user of its own
    Beds,           \* the beds of the room; the capacity is their number
    Workers,        \* requests and jobs the server runs at a time (a bound)
    Kinds,          \* the operations a run exercises (a bound)
    Decisions,      \* the statuses an administrator sets (a bound)
    Submetered,     \* branchHasSubmeter: a move-in is one transaction
    NoRes           \* no occupant, or no bed

ASSUME RoomAssumption ==
    /\ IsFiniteSet(Reservations)
    /\ IsFiniteSet(Beds)
    /\ NoRes \notin Reservations \cup Beds
    /\ Submetered \in BOOLEAN

VARIABLES
    res,        \* the reservation documents
    room,       \* the room document: counter and beds
    worker      \* what every worker is in the middle of

vars == <<res, room, worker>>

-----------------------------------------------------------------------------
(* Operations                                                              *)

\* The operations that call updateOccupancyOnReservationChange afterwards.
Syncing == {"admin", "userCancel", "approveCancellation", "releaseSlot",
            "softDelete", "expire", "noShow"}

\* "abandon" frees the bed on its own.
TwoWrites == Syncing \cup {"abandon"}

\* The operations that load a document and later save what they modified.
Plain == TwoWrites \cup {"create", "requestCancellation",
         "withdrawCancellation", "rejectCancellation", "archive", "restore",
         "checkout"}

Ops == Plain \cup {"proof", "submit"}

-----------------------------------------------------------------------------
(* Documents                                                               *)

Statuses == {"none", "pending", "pending_application_review",
             "needs_revision", "approved_for_payment", "payment_pending",
             "reserved", "move_in_overdue", "moveIn", "moveOut", "rejected",
             "cancelled", "archived"}

Active == {"reserved", "moveIn"}

\* The statuses unique_active_room_bed_assignment covers.
BedHolding == {"pending", "pending_application_review", "needs_revision",
               "approved_for_payment", "payment_pending", "reserved",
               "moveIn"}

Payable == {"approved_for_payment", "payment_pending"}

SafeRestore == {"cancelled", "rejected", "moveOut"}

\* fee joins paymentStatus, paymentDate and reservationFeePaymentStatus:
\* "claimed" by a proof of payment, "verified" by a settlement.
Document == [status: Statuses, archived: BOOLEAN, bed: Beds,
             fee: {"none", "claimed", "verified"},
             approved: BOOLEAN,     \* approvedForPaymentAt is set
             request: BOOLEAN,      \* a cancellation request is pending
             reason: BOOLEAN,       \* cancellationReason is not empty
             checkout: BOOLEAN]     \* a PayMongo session exists

Bed == [status: {"available", "reserved", "occupied", "maintenance"},
        by: Reservations \cup {NoRes}]

Room == [count: Nat, beds: [Beds -> Bed]]

Free == [status |-> "available", by |-> NoRes]

\* A request holds the document it loaded (seen), the one it modified in
\* memory (new) and the status it will call the old one (old).
Request == [op: Ops, r: Reservations,
            pc: {"checked", "loaded", "saved"},
            old: Statuses, seen: Document, new: Document]

\* A sweep of the room: the room as loaded and as it should be.
Sweep == [op: {"reconcile", "recalculate"}, pc: {"loaded", "derived"},
          snap: Room, goal: Room]

Idle == [op |-> "idle"]

Capacity == Cardinality(Beds)

\* Mongoose writes a path only if the handler changed its value in memory.
Modified(now, seen, new) == IF new # seen THEN new ELSE now

MergeDocument(d, seen, new) ==
    [status   |-> Modified(d.status, seen.status, new.status),
     archived |-> Modified(d.archived, seen.archived, new.archived),
     bed      |-> Modified(d.bed, seen.bed, new.bed),
     fee      |-> Modified(d.fee, seen.fee, new.fee),
     approved |-> Modified(d.approved, seen.approved, new.approved),
     request  |-> Modified(d.request, seen.request, new.request),
     reason   |-> Modified(d.reason, seen.reason, new.reason),
     checkout |-> Modified(d.checkout, seen.checkout, new.checkout)]

MergeRoom(rm, snap, goal) ==
    [count |-> Modified(rm.count, snap.count, goal.count),
     beds  |-> [b \in Beds |->
        [status |-> Modified(rm.beds[b].status, snap.beds[b].status,
                             goal.beds[b].status),
         by     |-> Modified(rm.beds[b].by, snap.beds[b].by,
                             goal.beds[b].by)]]]

Holds(rs, r) == ~rs[r].archived /\ rs[r].status \in BedHolding

Live(rs) == {r \in Reservations : ~rs[r].archived /\ rs[r].status \in Active}

\* unique_active_room_bed_assignment: a write that breaks it is refused.
IndexAllows(rs) ==
    \A q, r \in Reservations :
        q # r /\ Holds(rs, q) /\ Holds(rs, r) => rs[q].bed # rs[r].bed

-----------------------------------------------------------------------------
(* updateOccupancyOnReservationChange: one transaction on the room.        *)

Increase(rm) ==
    IF rm.count < Capacity THEN [rm EXCEPT !.count = @ + 1] ELSE rm

\* Mutation: the decrement without its filter on the counter.
DecreaseBelowZero(rm) == [rm EXCEPT !.count = @ - 1]

Decrease(rm) ==
    IF rm.count > 0 THEN [rm EXCEPT !.count = @ - 1] ELSE rm

\* Mutation: every cancellation decrements.
AlwaysHeldOccupancy(old) == TRUE

\* A cancellation takes a tenant off the counter only if the old status was
\* an active one.
PreviouslyHeldOccupancy(old) == old \in Active

\* The target bed is written whatever it held; the sweep frees the others.
Assign(rm, r, bed, st) ==
    [rm EXCEPT !.beds =
        [b \in Beds |-> CASE b = bed -> [status |-> st, by |-> r]
                          [] b # bed /\ rm.beds[b].by = r -> Free
                          [] OTHER -> rm.beds[b]]]

\* vacateBed gets the bed id alone: it frees that bed whoever occupies it.
Vacate(rm, r, bed) ==
    [rm EXCEPT !.beds =
        [b \in Beds |-> IF b = bed \/ rm.beds[b].by = r
                        THEN Free ELSE rm.beds[b]]]

Sync(rm, r, bed, old, new) ==
    CASE new = "reserved" /\ old \notin Active ->
            Assign(Increase(rm), r, bed, "reserved")
      [] new = "moveIn" /\ old # "moveIn" ->
            Assign(IF old = "reserved" THEN rm ELSE Increase(rm),
                   r, bed, "occupied")
      [] new \in {"cancelled", "archived", "rejected"} /\ old # new ->
            Vacate(IF PreviouslyHeldOccupancy(old) THEN Decrease(rm) ELSE rm,
                   r, bed)
      [] new = "moveOut" /\ PreviouslyHeldOccupancy(old) ->
            Vacate(Decrease(rm), r, bed)
      [] OTHER -> rm

-----------------------------------------------------------------------------
(* Steps every request takes                                               *)

Open(op, w) == op \in Kinds /\ worker[w] = Idle

Finish(w) == worker' = [worker EXCEPT ![w] = Idle]

\* findById, the guards, and the modifications made in memory.
Load(w, op, r, new) ==
    /\ Open(op, w)
    /\ res[r].status # "none"
    /\ worker' = [worker EXCEPT ![w] =
                    [op |-> op, r |-> r, pc |-> "loaded",
                     old |-> res[r].status, seen |-> res[r], new |-> new]]
    /\ UNCHANGED <<res, room>>

\* guardAdminCancellationReason sees the document of the handler, as stale
\* as it is.  guardSystemCancellationOfPaidSlots never fires: no handler
\* and no scheduled job writes the cancellationSource "system".
MayCancel(seen, new) ==
    (/\ new.status = "cancelled"
     /\ seen.status # "cancelled"
     /\ new.fee = "verified") => new.reason

\* A submetered move-in saves the reservation and the room together.
OneTransaction(j) ==
    /\ j.op = "admin"
    /\ Submetered
    /\ j.new.status = "moveIn"
    /\ j.old # "moveIn"

Saved(j) == [res EXCEPT ![j.r] = MergeDocument(@, j.seen, j.new)]

\* Mutation: no unique_active_room_bed_assignment index.
SaveWithoutIndex(j) == MayCancel(j.seen, j.new)

SaveAllowed(j) == MayCancel(j.seen, j.new) /\ IndexAllows(Saved(j))

Save(w) ==
    LET j == worker[w] IN
    /\ j.op \in Plain
    /\ j.pc = "loaded"
    /\ SaveAllowed(j)
    /\ res' = Saved(j)
    /\ \/ /\ OneTransaction(j)
          /\ room' = Sync(room, j.r, j.new.bed, j.old, j.new.status)
          /\ Finish(w)
       \/ /\ ~OneTransaction(j)
          /\ room' = room
          /\ IF j.op \in TwoWrites
             THEN worker' = [worker EXCEPT ![w].pc = "saved"]
             ELSE Finish(w)

\* A pre-save hook or the unique index rejects the save: the request ends.
SaveRejected(w) ==
    LET j == worker[w] IN
    /\ j.op \in Plain
    /\ j.pc = "loaded"
    /\ ~SaveAllowed(j)
    /\ Finish(w)
    /\ UNCHANGED <<res, room>>

SyncRoom(w) ==
    LET j == worker[w] IN
    /\ j.op \in Syncing
    /\ j.pc = "saved"
    /\ room' = Sync(room, j.r, j.new.bed, j.old, j.new.status)
    /\ Finish(w)
    /\ UNCHANGED res

\* The process stops between the two writes, or the occupancy transaction
\* fails: every caller logs that and goes on.
SyncLost(w) ==
    LET j == worker[w] IN
    /\ "fail" \in Kinds
    /\ j.op \in TwoWrites
    /\ j.pc = "saved"
    /\ Finish(w)
    /\ UNCHANGED <<res, room>>

-----------------------------------------------------------------------------
(* The applicant                                                           *)

\* createReservation: the capacity check and the auto-heal of the counter,
\* then the bed check.  The document is saved in a later step.
CreateLoad(w, r, b) ==
    LET holders == {q \in Reservations : Holds(res, q)} IN
    /\ Open("create", w)
    /\ res[r].status = "none"
    /\ Cardinality(holders) < Capacity
    /\ \A q \in holders : res[q].bed # b
    /\ room' = IF room.count < Capacity THEN room
               ELSE [room EXCEPT !.count = Cardinality(holders)]
    /\ worker' = [worker EXCEPT ![w] =
                    [op |-> "create", r |-> r, pc |-> "loaded",
                     old |-> "none", seen |-> res[r],
                     new |-> [res[r] EXCEPT !.status = "pending",
                                            !.bed = b]]]
    /\ UNCHANGED res

\* Mutation: a settled fee does not stop a new submission.
SubmittableWhenPaid(d) ==
    /\ d.status \notin Payable \cup Active \cup {"moveOut"}
    /\ ~d.approved

\* submitApplication is refused once the application was approved or paid.
Submittable(d) ==
    /\ d.status \notin Payable \cup Active \cup {"moveOut"}
    /\ ~d.approved
    /\ d.fee = "none"

\* The applicant may choose another bed that nobody else holds.
SubmitLoad(w, r, b) ==
    LET others == {q \in Reservations \ {r} : Holds(res, q)} IN
    /\ Submittable(res[r])
    /\ Cardinality(others) < Capacity
    /\ \A q \in others : res[q].bed # b
    /\ Load(w, "submit", r,
            [res[r] EXCEPT !.status = "pending_application_review",
                           !.bed = b])

\* The statuses the filter of the conditional update excludes; a first
\* submission also requires that none was made meanwhile.
SubmitBlocked(seen) ==
    Payable \cup Active \cup {"moveOut"} \cup
        (IF seen.status = "pending"
         THEN {"pending_application_review", "needs_revision", "rejected",
               "move_in_overdue"}
         ELSE {})

Submitted(j) ==
    [res EXCEPT ![j.r] = [@ EXCEPT !.status = "pending_application_review",
                                   !.bed = j.new.bed,
                                   !.approved = FALSE]]

SubmitSave(w) ==
    LET j == worker[w] IN
    /\ j.op = "submit"
    /\ res' = IF /\ res[j.r].status \notin SubmitBlocked(j.seen)
                 /\ IndexAllows(Submitted(j))
              THEN Submitted(j) ELSE res
    /\ Finish(w)
    /\ UNCHANGED room

\* createDepositCheckout: the status is read before the PayMongo call and
\* written after it.
CheckoutLoad(w, r) ==
    /\ res[r].fee # "verified"
    /\ res[r].status \in Payable
    /\ Load(w, "checkout", r, [res[r] EXCEPT !.status = "payment_pending",
                                            !.checkout = TRUE])

\* updateReservationByUser with a proof of payment: checked on a read,
\* written without a condition.
ProofLoad(w, r) ==
    /\ res[r].status \in Payable
    /\ Load(w, "proof", r, res[r])

Proven(j) ==
    LET d == res[j.r] IN
    [res EXCEPT ![j.r] = [d EXCEPT
        !.status = "payment_pending",
        !.fee = IF d.fee = "none" THEN "claimed" ELSE d.fee]]

ProofSave(w) ==
    LET j == worker[w] IN
    /\ j.op = "proof"
    /\ res' = IF IndexAllows(Proven(j)) THEN Proven(j) ELSE res
    /\ Finish(w)
    /\ UNCHANGED room

HasPaidReservationFee(d) ==
    d.fee # "none" \/ d.status = "reserved"

ApplicantCancellable == BedHolding \ {"moveIn"}

UserCancelLoad(w, r) ==
    /\ res[r].status \in ApplicantCancellable
    /\ ~HasPaidReservationFee(res[r])
    /\ Load(w, "userCancel", r, [res[r] EXCEPT !.status = "cancelled"])

RequestCancellationLoad(w, r) ==
    /\ res[r].status \in ApplicantCancellable
    /\ HasPaidReservationFee(res[r])
    /\ ~res[r].request
    /\ Load(w, "requestCancellation", r,
            [res[r] EXCEPT !.request = TRUE, !.reason = TRUE])

WithdrawCancellationLoad(w, r) ==
    /\ res[r].request
    /\ Load(w, "withdrawCancellation", r,
            [res[r] EXCEPT !.request = FALSE, !.reason = FALSE])

-----------------------------------------------------------------------------
(* The administrator                                                       *)

\* Mutation: the edit screen may confirm an approved application.
AdminTargetsWithReserved(s) ==
    IF s \in Payable THEN {"reserved", "payment_pending", "cancelled"}
    ELSE {"approved_for_payment"}

\* ALLOWED_RESERVATION_STATUS_TRANSITIONS, "reserved" left out: the handler
\* refuses it (PAYMENT_SETTLEMENT_REQUIRES_DEDICATED_ENDPOINT).
AdminTargets(s) ==
    ({s} \ {"reserved"}) \cup
    (CASE s = "pending" -> {"pending_application_review",
                           "approved_for_payment", "payment_pending",
                           "cancelled", "archived"}
      [] s = "pending_application_review" ->
            {"needs_revision", "approved_for_payment", "rejected",
             "cancelled", "archived"}
      [] s = "needs_revision" ->
            {"pending_application_review", "approved_for_payment",
             "rejected", "cancelled", "archived"}
      [] s = "approved_for_payment" ->
            {"needs_revision", "pending_application_review",
             "payment_pending", "cancelled", "archived"}
      [] s = "payment_pending" -> {"approved_for_payment", "needs_revision",
                                   "cancelled", "archived"}
      [] s = "reserved" -> {"payment_pending", "approved_for_payment",
                            "move_in_overdue", "moveIn", "cancelled",
                            "archived"}
      [] s = "move_in_overdue" -> {"moveIn", "cancelled", "archived"}
      [] s = "moveIn" -> {"moveOut", "archived"}
      [] s \in SafeRestore -> {"archived"}
      [] s = "archived" -> {"cancelled", "rejected", "moveOut"}
      [] OTHER -> {})

\* getMoveInBlockers and the pending-cancellation check.
MoveInReady(d) ==
    /\ d.status = "reserved"
    /\ ~d.request
    /\ d.fee = "verified"

\* updateReservation, first read: the transition is validated and this
\* status becomes the old one of the occupancy change.
AdminCheck(w, r, to) ==
    /\ Open("admin", w)
    /\ res[r].status # "none"
    /\ to \in AdminTargets(res[r].status)
    /\ (to = "moveIn" /\ res[r].status # "moveIn") => MoveInReady(res[r])
    /\ worker' = [worker EXCEPT ![w] =
                    [op |-> "admin", r |-> r, pc |-> "checked",
                     old |-> res[r].status, seen |-> res[r],
                     new |-> [res[r] EXCEPT !.status = to]]]
    /\ UNCHANGED <<res, room>>

\* updateReservation, second read: the fields are assigned to this document.
AdminLoad(w) ==
    LET j == worker[w]
        to == j.new.status
        d == res[j.r] IN
    /\ j.op = "admin"
    /\ j.pc = "checked"
    /\ worker' = [worker EXCEPT
            ![w].pc = "loaded",
            ![w].seen = d,
            ![w].new = [d EXCEPT
                !.status = to,
                !.approved =
                    IF to = "approved_for_payment" THEN @ \/ j.old # to
                    ELSE @ /\ to \notin {"needs_revision", "rejected"}]]
    /\ UNCHANGED <<res, room>>

\* approveCancellationRequest
ApproveCancellationLoad(w, r) ==
    /\ res[r].request
    /\ res[r].status \notin {"moveIn", "moveOut"}
    /\ Load(w, "approveCancellation", r,
            [res[r] EXCEPT !.status = "cancelled", !.request = FALSE,
                           !.reason = TRUE])

\* rejectCancellationRequest keeps the reason the tenant gave.
RejectCancellationLoad(w, r) ==
    /\ res[r].request
    /\ Load(w, "rejectCancellation", r, [res[r] EXCEPT !.request = FALSE])

\* releaseSlot looks at no status.
ReleaseSlotLoad(w, r) ==
    Load(w, "releaseSlot", r, [res[r] EXCEPT !.status = "cancelled"])

\* deleteReservation, without hardDelete
SoftDeleteLoad(w, r) ==
    /\ res[r].status \notin Active \cup {"approved_for_payment"}
    /\ Load(w, "softDelete", r, [res[r] EXCEPT !.status = "cancelled"])

\* archiveReservation (and archiveStaleCancelled).  Its branch that cancels
\* an active stay first follows a check that refuses every active stay.
ArchiveLoad(w, r) ==
    /\ res[r].status \notin Active \cup {"approved_for_payment"}
    /\ Load(w, "archive", r, [res[r] EXCEPT !.archived = TRUE])

\* restoreReservation
RestoreLoad(w, r) ==
    /\ res[r].archived
    /\ Load(w, "restore", r,
            [res[r] EXCEPT !.archived = FALSE,
                           !.status = IF @ \in SafeRestore THEN @
                                      ELSE "cancelled"])

\* executeAbandonmentProtocolWorkflow: looks at no status.
AbandonLoad(w, r) ==
    Load(w, "abandon", r, [res[r] EXCEPT !.status = "moveOut"])

\* It frees the bed by its status alone.
AbandonFree(w) ==
    LET j == worker[w] IN
    /\ j.op = "abandon"
    /\ j.pc = "saved"
    /\ room' = [room EXCEPT !.beds[j.new.bed].status = "available"]
    /\ Finish(w)
    /\ UNCHANGED res

\* updateBedStatus
StartMaintenance(w, b) ==
    /\ Open("maintenance", w)
    /\ room.beds[b].status \in {"available", "maintenance"}
    /\ room' = [room EXCEPT !.beds[b] = [status |-> "maintenance",
                                        by |-> NoRes]]
    /\ UNCHANGED <<res, worker>>

EndMaintenance(w, b) ==
    /\ Open("maintenance", w)
    /\ room.beds[b].status = "maintenance"
    /\ room' = [room EXCEPT !.beds[b].status = "available"]
    /\ UNCHANGED <<res, worker>>

\* moveOutStayWorkflow: one transaction; vacateBed knows the tenant here.
MoveOut(w, r) ==
    LET own == {b \in Beds : room.beds[b].by = r} IN
    /\ Open("moveOut", w)
    /\ res[r].status = "moveIn"
    /\ res' = [res EXCEPT ![r].status = "moveOut"]
    /\ \E b \in IF res[r].bed \in own \/ own = {} THEN {res[r].bed}
              ELSE own :
          room' = [Decrease(room) EXCEPT !.beds[b] = Free]
    /\ IndexAllows(res')
    /\ UNCHANGED worker

-----------------------------------------------------------------------------
(* The payment gateway                                                     *)

\* assertRoomAvailability
RoomAvailable(r) ==
    LET d == res[r] IN
    /\ \A q \in Reservations \ {r} :
          ~(/\ ~res[q].archived
            /\ res[q].status \in Active \cup {"payment_pending"}
            /\ res[q].bed = d.bed)
    /\ room.beds[d.bed].status # "maintenance"
    /\ room.beds[d.bed].by \in {r, NoRes}

\* Mutation: the settlement increments the counter.
SettledByIncrement(rm, rs, r) ==
    [Assign(rm, r, rs[r].bed, "reserved") EXCEPT !.count = @ + 1]

\* The counter is recounted, not incremented.
Settled(rm, rs, r) ==
    [Assign(rm, r, rs[r].bed, "reserved")
     EXCEPT !.count = Cardinality(Live(rs))]

\* settleReservationDeposit, called by the webhook or by polling: one
\* transaction.  A payment that was settled already changes nothing.
Settle(w, r) ==
    /\ Open("settle", w)
    /\ res[r].checkout
    /\ res[r].fee # "verified"
    /\ res[r].status \in Payable
    /\ RoomAvailable(r)
    /\ res' = [res EXCEPT ![r] = [@ EXCEPT !.status = "reserved",
                                           !.fee = "verified"]]
    /\ IndexAllows(res')
    /\ room' = Settled(room, res', r)
    /\ UNCHANGED worker

-----------------------------------------------------------------------------
(* The scheduler                                                           *)

ExpireLoad(w, r) ==
    /\ res[r].status \in {"pending", "payment_pending"}
    /\ ~res[r].archived
    /\ Load(w, "expire", r, [res[r] EXCEPT !.status = "cancelled"])

NoShowLoad(w, r) ==
    /\ res[r].status = "reserved"
    /\ ~res[r].archived
    /\ Load(w, "noShow", r, [res[r] EXCEPT !.status = "cancelled"])

\* detectOverdueMoveIns: a conditional update that leaves the room alone.
FlagOverdue(w, r) ==
    /\ Open("flag", w)
    /\ res[r].status = "reserved"
    /\ ~res[r].archived
    /\ res' = [res EXCEPT ![r].status = "move_in_overdue"]
    /\ UNCHANGED <<room, worker>>

\* Mutation: the job forgets the beds.
SameBeds(rm) == rm.beds

\* reconcileOccupancyIntegrity frees the beds whose reservation is not live
\* or claims another bed.
ReconciledBeds(rm) ==
    LET live == Live(res)
        Stale(b) ==
            /\ rm.beds[b].status \in {"reserved", "occupied"}
            /\ rm.beds[b].by # NoRes
            /\ ~(rm.beds[b].by \in live /\ res[rm.beds[b].by].bed = b)
    IN  [b \in Beds |-> IF Stale(b) THEN Free ELSE rm.beds[b]]

\* Mutation: the job forgets the counter.
SameCount(rm) == [count |-> rm.count, beds |-> ReconciledBeds(rm)]

Reconciled(rm) ==
    [count |-> Cardinality(Live(res)), beds |-> ReconciledBeds(rm)]

\* recalculateRoomOccupancy derives every bed from the live reservations.
Recalculated(rm) ==
    LET live == Live(res)
        On(b) == {r \in live : res[r].bed = b}
        Held(r) == [status |-> IF res[r].status = "moveIn" THEN "occupied"
                               ELSE "reserved",
                    by |-> r]
    IN  [count |-> Cardinality(live),
         beds |-> [b \in Beds |->
            IF rm.beds[b].status = "maintenance" THEN rm.beds[b]
            ELSE IF On(b) = {} THEN Free
            ELSE Held(CHOOSE r \in On(b) : TRUE)]]

SweepLoad(w, op) ==
    /\ Open(op, w)
    /\ worker' = [worker EXCEPT ![w] =
                    [op |-> op, pc |-> "loaded", snap |-> room,
                     goal |-> room]]
    /\ UNCHANGED <<res, room>>

SweepDerive(w) ==
    LET j == worker[w] IN
    /\ j.op \in {"reconcile", "recalculate"}
    /\ j.pc = "loaded"
    /\ worker' = [worker EXCEPT
            ![w].pc = "derived",
            ![w].goal = IF j.op = "reconcile" THEN Reconciled(j.snap)
                        ELSE Recalculated(j.snap)]
    /\ UNCHANGED <<res, room>>

SweepSave(w) ==
    LET j == worker[w] IN
    /\ j.op \in {"reconcile", "recalculate"}
    /\ j.pc = "derived"
    /\ room' = MergeRoom(room, j.snap, j.goal)
    /\ Finish(w)
    /\ UNCHANGED res

-----------------------------------------------------------------------------

Absent(b) ==
    [status |-> "none", archived |-> FALSE, bed |-> b, fee |-> "none",
     approved |-> FALSE, request |-> FALSE, reason |-> FALSE,
     checkout |-> FALSE]

Init ==
    /\ \E b \in Beds : res = [r \in Reservations |-> Absent(b)]
    /\ room = [count |-> 0, beds |-> [b \in Beds |-> Free]]
    /\ worker = [w \in Workers |-> Idle]

Applicant(w, r) ==
    \/ \E b \in Beds : CreateLoad(w, r, b) \/ SubmitLoad(w, r, b)
    \/ CheckoutLoad(w, r)
    \/ ProofLoad(w, r)
    \/ UserCancelLoad(w, r)
    \/ RequestCancellationLoad(w, r)
    \/ WithdrawCancellationLoad(w, r)

Admin(w, r) ==
    \/ \E to \in Decisions : AdminCheck(w, r, to)
    \/ ApproveCancellationLoad(w, r)
    \/ RejectCancellationLoad(w, r)
    \/ ReleaseSlotLoad(w, r)
    \/ SoftDeleteLoad(w, r)
    \/ ArchiveLoad(w, r)
    \/ RestoreLoad(w, r)
    \/ AbandonLoad(w, r)
    \/ MoveOut(w, r)

System(w, r) ==
    \/ Settle(w, r)
    \/ ExpireLoad(w, r)
    \/ NoShowLoad(w, r)
    \/ FlagOverdue(w, r)

Proceed(w) ==
    \/ AdminLoad(w)
    \/ Save(w)
    \/ SaveRejected(w)
    \/ SyncRoom(w)
    \/ SyncLost(w)
    \/ SubmitSave(w)
    \/ ProofSave(w)
    \/ AbandonFree(w)
    \/ SweepDerive(w)
    \/ SweepSave(w)

RoomWork(w) ==
    \/ \E b \in Beds : StartMaintenance(w, b) \/ EndMaintenance(w, b)
    \/ \E op \in {"reconcile", "recalculate"} : SweepLoad(w, op)

Next ==
    \E w \in Workers :
        \/ Proceed(w)
        \/ RoomWork(w)
        \/ \E r \in Reservations :
              Applicant(w, r) \/ Admin(w, r) \/ System(w, r)

Spec == Init /\ [][Next]_vars

Reconcile(w) ==
    \/ SweepLoad(w, "reconcile")
    \/ worker[w].op = "reconcile" /\ (SweepDerive(w) \/ SweepSave(w))

\* A handler that started goes on, and the nightly job starts every night,
\* whatever else keeps the server busy.
FairSpec ==
    /\ Spec
    /\ \A w \in Workers : WF_vars(Proceed(w)) /\ SF_vars(Reconcile(w))

-----------------------------------------------------------------------------
(* Properties                                                              *)

TypeOK ==
    /\ res \in [Reservations -> Document]
    /\ room \in Room
    /\ worker \in [Workers -> {Idle} \cup Request \cup Sweep]

\* No bed is promised to two reservations, whatever handlers, jobs and
\* callbacks run at the same time: what the unique index is for.
OneTenantPerBed == IndexAllows(res)

\* The occupancy counter never passes the number of beds, although the
\* guarded $inc, the settlement's recount, the auto-heal of a booking and the
\* sweeps, which save a count they took earlier, all write it.
OccupancyWithinCapacity == room.count <= Capacity

\* Whoever a bed points at has settled the reservation fee, even when the
\* pointer is written late by a handler or a sweep that read before.
HolderHasPaid ==
    \A b \in Beds : room.beds[b].by # NoRes
                        => res[room.beds[b].by].fee = "verified"

\* The bed a reservation holds by the index.
HeldBed ==
    [r \in Reservations |-> IF Holds(res, r) THEN res[r].bed ELSE NoRes]

Claims == INSTANCE BedClaims WITH claim <- HeldBed, NoBed <- NoRes

\* Overlapping handlers, jobs and callbacks change the beds reservations hold
\* as BedClaims does: one at a time, and only to a bed nobody else holds.
ImplementsBedClaims == Claims!Spec

\* Nobody is in the middle of anything.
Quiet == \A w \in Workers : worker[w] = Idle

\* One request at a time, the counter covers every confirmed or seated
\* tenant, also after occupancy updates that were lost: drift never makes
\* room for one tenant too many.
CounterCoversTenants == Quiet => Cardinality(Live(res)) <= room.count

\* One request at a time, a bed points at a reservation that chose this bed:
\* no reservation keeps a bed it left for another.
BedPointsAtItsTenant ==
    Quiet => \A b \in Beds :
        room.beds[b].by # NoRes => res[room.beds[b].by].bed = b

\* The nightly reconciliation takes a bed away from a cancelled reservation
\* whose release was lost.
LostReleaseHeals ==
    \A r \in Reservations, b \in Beds :
        (res[r].status = "cancelled" /\ room.beds[b].by = r)
            ~> room.beds[b].by # r

\* It brings a counter that drifted back to the tenants there are.
CounterHeals ==
    room.count # Cardinality(Live(res)) ~> room.count = Cardinality(Live(res))

\* What comments of the code promise and the code does not do.

\* Reservation.js, guardSystemCancellationOfPaidSlots: the system must not
\* cancel a paid reservation by itself.
SystemNeverReleasesPaid ==
    [][\A w \in Workers, r \in Reservations :
        (/\ worker[w].op \in {"expire", "noShow"}
         /\ worker'[w] # worker[w]
         /\ res[r].fee = "verified"
         /\ res[r].status # "cancelled")
            => res'[r].status # "cancelled"]_vars
=============================================================================
