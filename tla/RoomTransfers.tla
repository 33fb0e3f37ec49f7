--------------------------- MODULE RoomTransfers ---------------------------
(***************************************************************************)
(* Scheduled room transfers.  Scheduling holds the destination bed; on or  *)
(* after the date an administrator completes the transfer, which bills the *)
(* difference, waits until it is paid and then moves the tenant.  Before   *)
(* that the transfer can be rescheduled or cancelled, and a tenant who     *)
(* leaves takes it back.                                                   *)
(*                                                                         *)
(* A request claims the record first and every write after that carries    *)
(* its token.  A claim expires: a request that stalls or a process that    *)
(* stops is overtaken, and may wake up later.  Payments read and save the  *)
(* bill without a claim.                                                   *)
(*                                                                         *)
(* What a request reads before its claim it reads again under the claim or *)
(* in its transaction, so the first read and the claim are one step.       *)
(* Shared rooms only; a bill is unpaid or paid in full.                    *)
(***************************************************************************)
EXTENDS Naturals, FiniteSets

CONSTANTS
    Tenants,    \* moved-in tenants
    Beds,       \* beds of the rooms of a branch
    Rooms,      \* the rooms
    RoomOf,     \* the room of every bed
    Transfers,  \* ScheduledRoomTransfer records (a bound)
    Workers,    \* requests and jobs at a time (a bound)
    LastDay,    \* the last calendar day (a bound)
    Kinds,      \* what a run exercises (a bound)
    None        \* no bed, no tenant, no claim

ASSUME TransferAssumption ==
    /\ IsFiniteSet(Beds)
    /\ RoomOf \in [Beds -> Rooms]
    /\ LastDay \in Nat
    /\ None \notin Beds \cup Tenants \cup Workers

VARIABLES
    today,      \* the calendar day in Manila
    home,       \* the bed of every tenant's active Stay
    beds,       \* status and occupiedBy of every bed
    count,      \* currentOccupancy of every room
    record,     \* the ScheduledRoomTransfer, its addendum and its bill
    worker      \* what every worker is in the middle of

vars == <<today, home, beds, count, record, worker>>

-----------------------------------------------------------------------------
(* Documents                                                               *)

Days == 0..LastDay

Bed == [status: {"available", "reserved", "occupied"},
        by: Tenants \cup {None}]

Free == [status |-> "available", by |-> None]

\* executionToken and whether it is younger than TRANSFER_CLAIM_TTL_MS
Claim == [by: Workers \cup {None}, fresh: BOOLEAN]

Unclaimed == [by |-> None, fresh |-> FALSE]

\* An addendum is a prepared draft, the current contract, or cancelled; it is
\* acknowledged for the day it states.
Record == [status: {"none", "scheduled", "action_required",
                    "executed", "cancelled"},
           tenant: Tenants \cup {None}, from: Beds \cup {None},
           to: Beds \cup {None}, day: Days, hold: BOOLEAN, claim: Claim,
           doc: {"none", "draft", "current", "cancelled"}, docDay: Days,
           acked: BOOLEAN, bill: {"none", "unpaid", "paid", "voided"}]

NoRecord == [status |-> "none", tenant |-> None, from |-> None, to |-> None,
             day |-> 0, hold |-> FALSE, claim |-> Unclaimed, doc |-> "none",
             docDay |-> 0, acked |-> FALSE, bill |-> "none"]

Job == [op: {"complete", "cancel", "depart", "reschedule", "pay"},
        pc: {"resolve", "prepare", "cutover", "decide", "commit", "release",
             "save"},
        x: Transfers, day: Days]

Idle == [op |-> "idle"]

IsOpen(x) == record[x].status \in {"scheduled", "action_required"}

Changes(x) == RoomOf[record[x].from] # RoomOf[record[x].to]

\* availableTransferClaimFilter
Available(x) == ~record[x].claim.fresh

\* Mutation: a request does not look whether it was overtaken.
OwnsAnyway(w) == TRUE

Owns(w) == record[worker[w].x].claim.by = w

Held(x) ==
    beds[record[x].to] = [status |-> "reserved", by |-> record[x].tenant]

Done(w) == worker' = [worker EXCEPT ![w] = Idle]

Goto(w, pc) == worker' = [worker EXCEPT ![w].pc = pc]

\* Only the owner of the claim clears it.
Unclaim(x, w) ==
    IF record[x].claim.by = w THEN Unclaimed ELSE record[x].claim

GiveUp(w) ==
    LET x == worker[w].x IN
    /\ record' = [record EXCEPT ![x].claim = Unclaim(x, w)]
    /\ Done(w)
    /\ UNCHANGED <<today, home, beds, count>>

NeedsAction(w) ==
    LET x == worker[w].x IN
    /\ record' = [record EXCEPT ![x].status = "action_required",
                                ![x].claim = Unclaimed]
    /\ Done(w)
    /\ UNCHANGED <<today, home, beds, count>>

-----------------------------------------------------------------------------
(* Scheduling                                                              *)

InRoom(r) == {t \in Tenants : home[t] # None /\ RoomOf[home[t]] = r}

Capacity(r) == Cardinality({b \in Beds : RoomOf[b] = r})

\* atomicIncreaseOccupancy and atomicDecreaseOccupancy
Increased(r) == [count EXCEPT ![r] = @ + 1]

Decreased(r) == [count EXCEPT ![r] = IF @ = 0 THEN 0 ELSE @ - 1]

\* Mutation: the counter goes down for a tenant who stays in the room.
DecreasedAlways(x) == Decreased(RoomOf[record[x].to])

\* releaseScheduledTransferHold
CountReleased(x) ==
    IF Changes(x) THEN Decreased(RoomOf[record[x].to]) ELSE count

\* Mutation: a free bed is taken for a free slot.
HoldAppliesByBed(t, b) == beds[b].status = "available"

\* applyScheduledTransferHold
HoldApplies(t, b) ==
    /\ beds[b].status = "available"
    /\ RoomOf[home[t]] # RoomOf[b] =>
          count[RoomOf[b]] < Capacity(RoomOf[b])

\* scheduleRoomTransfer: the addendum is prepared before the transaction, all
\* else is one transaction.
Schedule(x, t, b, d) ==
    /\ record[x].status = "none"
    /\ home[t] # None
    /\ d >= today
    /\ \A y \in Transfers : ~(IsOpen(y) /\ record[y].tenant = t)
    /\ HoldApplies(t, b)
    /\ beds' = [beds EXCEPT ![b] = [status |-> "reserved", by |-> t]]
    /\ count' = IF RoomOf[home[t]] # RoomOf[b]
                   THEN Increased(RoomOf[b]) ELSE count
    /\ record' = [record EXCEPT ![x] =
                     [NoRecord EXCEPT !.status = "scheduled", !.tenant = t,
                        !.from = home[t], !.to = b, !.day = d,
                        !.hold = TRUE, !.doc = "draft", !.docDay = d]]
    /\ UNCHANGED <<today, home, worker>>

-----------------------------------------------------------------------------
(* Claims                                                                  *)

TakeClaim(w, x, job) ==
    /\ record' = [record EXCEPT ![x].claim = [by |-> w, fresh |-> TRUE]]
    /\ worker' = [worker EXCEPT ![w] = job]
    /\ UNCHANGED <<today, home, beds, count>>

\* completeRoomTransfer
StartComplete(w, x) ==
    /\ "complete" \in Kinds
    /\ worker[w] = Idle
    /\ IsOpen(x) /\ record[x].hold /\ Available(x)
    /\ TakeClaim(w, x, [op |-> "complete", pc |-> "prepare", x |-> x,
                        day |-> record[x].day])

\* rescheduleRoomTransfer
StartReschedule(w, x, d) ==
    /\ "reschedule" \in Kinds
    /\ worker[w] = Idle
    /\ IsOpen(x) /\ Available(x)
    /\ d >= today /\ d # record[x].day
    /\ home[record[x].tenant] # None /\ Held(x)
    /\ TakeClaim(w, x, [op |-> "reschedule", pc |-> "commit", x |-> x,
                        day |-> d])

\* cancelScheduledRoomTransfer, for an administrator and for a departure
Cancellable(x) ==
    /\ IsOpen(x) /\ Available(x)
    /\ ~record[x].acked /\ record[x].doc # "current"

StartCancel(w, x) ==
    /\ "cancel" \in Kinds
    /\ worker[w] = Idle
    /\ Cancellable(x)
    /\ TakeClaim(w, x, [op |-> "cancel", pc |-> "decide", x |-> x,
                        day |-> record[x].day])

-----------------------------------------------------------------------------
(* Completing                                                              *)

\* Preconditions of completeRoomTransferClaimed.  A paid transfer that fails
\* them needs an administrator.
Completable(x) ==
    /\ record[x].day <= today
    /\ home[record[x].tenant] # None
    /\ Held(x)

RefuseComplete(w) ==
    LET x == worker[w].x IN
    /\ worker[w].op = "complete" /\ worker[w].pc = "prepare"
    /\ ~Owns(w) \/ ~Completable(x)
    /\ IF Owns(w) /\ record[x].bill = "paid" /\ record[x].day <= today
          THEN NeedsAction(w) ELSE GiveUp(w)

\* upsertTransferSettlementBill, with the amounts of today: nothing is due, a
\* new or changed bill waits for its payment, and a paid bill whose amounts
\* changed needs an administrator.
Prepare(w, due) ==
    LET x == worker[w].x
        Bill(b) == [record EXCEPT ![x].bill = b,
                                  ![x].status = "action_required",
                                  ![x].claim = Unclaimed]
    IN
    /\ worker[w].op = "complete" /\ worker[w].pc = "prepare"
    /\ Owns(w) /\ IsOpen(x) /\ Completable(x)
    /\ \/ /\ record[x].bill = "none" /\ ~due
          /\ Goto(w, "cutover")
          /\ UNCHANGED <<today, home, beds, count, record>>
       \/ /\ \/ record[x].bill = "none" /\ due
             \/ record[x].bill = "unpaid"
          /\ record' = Bill("unpaid")
          /\ Done(w)
          /\ UNCHANGED <<today, home, beds, count>>
       \/ /\ record[x].bill = "paid" /\ ~due
          /\ Goto(w, "cutover")
          /\ UNCHANGED <<today, home, beds, count, record>>
       \/ /\ record[x].bill = "paid" /\ due
          /\ NeedsAction(w)

\* Mutation: the day of the move is stamped on any addendum.
NeverLocked(x) == FALSE

\* An acknowledged addendum keeps its day.
Locked(x) ==
    record[x].doc = "draft" /\ record[x].acked /\ record[x].docDay # today

\* Mutation: the transaction trusts what was checked before it.
MayCutoverAsPrepared(w) ==
    LET x == worker[w].x IN
    Owns(w) /\ IsOpen(x) /\ record[x].hold /\ ~Locked(x)

\* transferStayWorkflow checks everything again in its transaction.
MayCutover(w) ==
    LET x == worker[w].x IN
    /\ Owns(w) /\ IsOpen(x) /\ record[x].hold
    /\ record[x].day <= today
    /\ home[record[x].tenant] = record[x].from
    /\ Held(x)
    /\ record[x].bill # "unpaid"
    /\ ~Locked(x)

CutoverFails(w) ==
    /\ worker[w].op = "complete" /\ worker[w].pc = "cutover"
    /\ "fail" \in Kinds \/ ~MayCutover(w)
    /\ IF Owns(w) THEN NeedsAction(w) ELSE GiveUp(w)

\* The hold is used up: only the counter of the room he leaves changes.  A
\* discarded addendum was prepared again; an unacknowledged one is stamped
\* with the day of the move.
Cutover(w) ==
    LET x == worker[w].x
        r == record[x]
    IN
    /\ worker[w].op = "complete" /\ worker[w].pc = "cutover"
    /\ MayCutover(w)
    /\ home' = [home EXCEPT ![r.tenant] = r.to]
    /\ beds' = [beds EXCEPT ![r.from] = Free,
                            ![r.to] = [status |-> "occupied",
                                       by |-> r.tenant]]
    /\ count' = IF Changes(x) THEN Decreased(RoomOf[r.from]) ELSE count
    /\ record' = [record EXCEPT ![x].status = "executed", ![x].hold = FALSE,
                                ![x].claim = Unclaimed, ![x].doc = "current",
                                ![x].docDay = today,
                                ![x].acked = @ /\ r.doc = "draft"]
    /\ Done(w)
    /\ UNCHANGED today

-----------------------------------------------------------------------------
(* Rescheduling                                                            *)

MayReschedule(x) ==
    /\ IsOpen(x)
    /\ record[x].bill \in {"none", "unpaid"}
    /\ record[x].doc # "current" /\ ~record[x].acked

Reschedule(w) ==
    LET x == worker[w].x IN
    /\ worker[w].op = "reschedule"
    /\ Owns(w) /\ MayReschedule(x)
    /\ record' = [record EXCEPT ![x].day = worker[w].day,
                                ![x].docDay = worker[w].day,
                                ![x].claim = Unclaimed]
    /\ Done(w)
    /\ UNCHANGED <<today, home, beds, count>>

RefuseReschedule(w) ==
    /\ worker[w].op = "reschedule"
    /\ ~Owns(w) \/ ~MayReschedule(worker[w].x)
    /\ GiveUp(w)

-----------------------------------------------------------------------------
(* Cancelling                                                              *)

Cancelling(w, pc) ==
    worker[w].op \in {"cancel", "depart"} /\ worker[w].pc = pc

\* No money: everything in one transaction, later.  Money: an administrator
\* must look, and a departure goes on to release the bed.
Decide(w) ==
    LET x == worker[w].x IN
    /\ Cancelling(w, "decide")
    /\ IF record[x].bill # "paid"
          THEN Goto(w, "commit") /\ UNCHANGED record
          ELSE IF worker[w].op = "cancel"
          THEN /\ Done(w)
               /\ record' = IF Owns(w)
                     THEN [record EXCEPT ![x].status = "action_required",
                                         ![x].claim = Unclaimed]
                     ELSE record
          ELSE /\ Goto(w, "release")
               /\ record' = IF Owns(w)
                     THEN [record EXCEPT ![x].status = "action_required"]
                     ELSE record
    /\ UNCHANGED <<today, home, beds, count>>

\* Mutation: what the request decided before stands.
MayCancelAsDecided(w) ==
    LET x == worker[w].x IN
    Owns(w) /\ IsOpen(x) /\ (record[x].hold => Held(x))

\* The transaction looks at the bill and the addendum once more.
MayCancel(w) ==
    LET x == worker[w].x IN
    /\ Owns(w) /\ IsOpen(x)
    /\ record[x].bill # "paid"
    /\ ~record[x].acked /\ record[x].doc # "current"
    /\ record[x].hold => Held(x)

Cancel(w) ==
    LET x == worker[w].x
        r == record[x]
    IN
    /\ Cancelling(w, "commit")
    /\ MayCancel(w)
    /\ beds' = IF r.hold THEN [beds EXCEPT ![r.to] = Free] ELSE beds
    /\ count' = IF r.hold THEN CountReleased(x) ELSE count
    /\ record' = [record EXCEPT
                     ![x].status = "cancelled", ![x].hold = FALSE,
                     ![x].claim = Unclaimed, ![x].doc = "cancelled",
                     ![x].bill = IF @ = "unpaid" THEN "voided" ELSE @]
    /\ Done(w)
    /\ UNCHANGED <<today, home>>

CancelFails(w) ==
    /\ Cancelling(w, "commit")
    /\ "fail" \in Kinds \/ ~MayCancel(w)
    /\ GiveUp(w)

\* Mutation: the bed stays held for a tenant who paid.
DepartureKeepsHold(w) ==
    /\ Cancelling(w, "release")
    /\ GiveUp(w)

\* releaseHoldInOwnTxn; the claim is cleared whether it worked or not.
DepartureRelease(w) ==
    LET x == worker[w].x
        r == record[x]
    IN
    /\ Cancelling(w, "release")
    /\ Owns(w) /\ r.hold /\ Held(x)
    /\ beds' = [beds EXCEPT ![r.to] = Free]
    /\ count' = CountReleased(x)
    /\ record' = [record EXCEPT ![x].hold = FALSE, ![x].claim = Unclaimed]
    /\ Done(w)
    /\ UNCHANGED <<today, home>>

DepartureReleaseFails(w) ==
    LET x == worker[w].x IN
    /\ Cancelling(w, "release")
    /\ "fail" \in Kinds \/ ~(Owns(w) /\ record[x].hold /\ Held(x))
    /\ GiveUp(w)

-----------------------------------------------------------------------------
(* Departure                                                               *)

OpenOf(t) == {x \in Transfers : IsOpen(x) /\ record[x].tenant = t}

\* moveOutStayWorkflow: one transaction, which also cancels the contract that
\* waits to succeed; the transfer is resolved after it.
MoveOut(w, t) ==
    /\ "depart" \in Kinds
    /\ worker[w] = Idle
    /\ home[t] # None
    /\ home' = [home EXCEPT ![t] = None]
    /\ beds' = [beds EXCEPT ![home[t]] = Free]
    /\ count' = Decreased(RoomOf[home[t]])
    /\ record' = [x \in Transfers |->
                    IF x \in OpenOf(t) /\ record[x].doc = "draft"
                       THEN [record[x] EXCEPT !.doc = "cancelled"]
                       ELSE record[x]]
    /\ \/ /\ OpenOf(t) = {}
          /\ UNCHANGED worker
       \/ \E x \in OpenOf(t) :
             worker' = [worker EXCEPT ![w] =
                           [op |-> "depart", pc |-> "resolve", x |-> x,
                            day |-> record[x].day]]
    /\ UNCHANGED today

\* resolveScheduledTransferBeforeTenantDeparture swallows every refusal.
Resolve(w) ==
    LET x == worker[w].x IN
    /\ Cancelling(w, "resolve")
    /\ IF Cancellable(x)
          THEN TakeClaim(w, x, [worker[w] EXCEPT !.pc = "decide"])
          ELSE Done(w) /\ UNCHANGED <<today, home, beds, count, record>>

-----------------------------------------------------------------------------
(* The tenant, the addendum, the sweep and time                            *)

\* acknowledgeContract
Acknowledge(x) ==
    /\ "acknowledge" \in Kinds
    /\ record[x].doc \in {"draft", "current"} /\ ~record[x].acked
    /\ record' = [record EXCEPT ![x].acked = TRUE]
    /\ UNCHANGED <<today, home, beds, count, worker>>

\* discardRoomTransferAddendum, by an administrator
Discard(x) ==
    /\ "discard" \in Kinds
    /\ IsOpen(x) /\ record[x].doc = "draft"
    /\ home[record[x].tenant] # None
    /\ record' = [record EXCEPT ![x].doc = "cancelled"]
    /\ UNCHANGED <<today, home, beds, count, worker>>

\* finalizeBillPayment reads the bill and saves it paid, whatever happened
\* to it in between.
PayRead(w, x) ==
    /\ "pay" \in Kinds
    /\ worker[w] = Idle
    /\ record[x].bill = "unpaid"
    /\ worker' = [worker EXCEPT ![w] = [op |-> "pay", pc |-> "save", x |-> x,
                                        day |-> record[x].day]]
    /\ UNCHANGED <<today, home, beds, count, record>>

PaySave(w) ==
    /\ worker[w].op = "pay"
    /\ record' = [record EXCEPT ![worker[w].x].bill = "paid"]
    /\ Done(w)
    /\ UNCHANGED <<today, home, beds, count>>

\* countOpenDestinationHolds, openHoldBackedBedKeys
HoldsIn(r) ==
    {x \in Transfers : /\ IsOpen(x) /\ record[x].hold
                       /\ RoomOf[record[x].to] = r}

\* Mutation: a reserved bed whose tenant lives elsewhere is a stale pointer.
HoldBackedByTenant(b) == FALSE

HoldBacked(b) == \E x \in HoldsIn(RoomOf[b]) : record[x].to = b

\* reconcileOccupancyIntegrity, one room
Sweep(r) ==
    /\ "sweep" \in Kinds
    /\ beds' = [b \in Beds |->
                  IF /\ RoomOf[b] = r /\ beds[b].by # None
                     /\ ~HoldBacked(b) /\ home[beds[b].by] # b
                     THEN Free ELSE beds[b]]
    /\ count' = [count EXCEPT ![r] =
                    Cardinality(InRoom(r)) + Cardinality(HoldsIn(r))]
    /\ UNCHANGED <<today, home, record, worker>>

NextDay ==
    /\ today < LastDay
    /\ today' = today + 1
    /\ UNCHANGED <<home, beds, count, record, worker>>

\* Fifteen minutes pass while a request stalls.
Expire(x) ==
    /\ record[x].claim.fresh
    /\ record' = [record EXCEPT ![x].claim.fresh = FALSE]
    /\ UNCHANGED <<today, home, beds, count, worker>>

Crash(w) ==
    /\ "crash" \in Kinds
    /\ worker[w] # Idle
    /\ Done(w)
    /\ UNCHANGED <<today, home, beds, count, record>>

-----------------------------------------------------------------------------
(* The specification                                                       *)

Init ==
    /\ today = 0
    /\ home \in [Tenants -> Beds]
    /\ \A t, u \in Tenants : home[t] = home[u] => t = u
    /\ beds = [b \in Beds |->
                 IF \E t \in Tenants : home[t] = b
                    THEN [status |-> "occupied",
                          by |-> CHOOSE t \in Tenants : home[t] = b]
                    ELSE Free]
    /\ count = [r \in Rooms |-> Cardinality(InRoom(r))]
    /\ record = [x \in Transfers |-> NoRecord]
    /\ worker = [w \in Workers |-> Idle]

Work(w) ==
    \/ RefuseComplete(w) \/ CutoverFails(w) \/ Cutover(w)
    \/ \E due \in BOOLEAN : Prepare(w, due)
    \/ Reschedule(w) \/ RefuseReschedule(w)
    \/ Decide(w) \/ Cancel(w) \/ CancelFails(w)
    \/ DepartureRelease(w) \/ DepartureReleaseFails(w)
    \/ Resolve(w) \/ PaySave(w)

Next ==
    \/ \E x \in Transfers, t \in Tenants, b \in Beds, d \in Days :
          Schedule(x, t, b, d)
    \/ \E w \in Workers, x \in Transfers :
          \/ StartComplete(w, x) \/ StartCancel(w, x) \/ PayRead(w, x)
          \/ \E d \in Days : StartReschedule(w, x, d)
    \/ \E w \in Workers : Work(w) \/ Crash(w)
    \/ \E w \in Workers, t \in Tenants : MoveOut(w, t)
    \/ \E x \in Transfers : Acknowledge(x) \/ Discard(x) \/ Expire(x)
    \/ \E r \in Rooms : Sweep(r)
    \/ NextDay

Spec == Init /\ [][Next]_vars

\* A request that was begun is worked off.  Nobody has to schedule, complete,
\* pay or cancel.
FairSpec == Spec /\ \A w \in Workers : WF_vars(Work(w))

-----------------------------------------------------------------------------
(* Properties                                                              *)

\* Every document is well formed; the counter stays within the capacity
\* although sweeps write it and transfers move it by one.
TypeOK ==
    /\ today \in Days
    /\ home \in [Tenants -> Beds \cup {None}]
    /\ beds \in [Beds -> Bed]
    /\ count \in [Rooms -> Nat]
    /\ \A r \in Rooms : count[r] <= Capacity(r)
    /\ record \in [Transfers -> Record]
    /\ worker \in [Workers -> Job \cup {Idle}]

\* A bed is reserved exactly for the open transfer that holds it, and occupied
\* exactly by the tenant whose Stay is there: no hold is lost, leaked or
\* released twice, whatever request stalls, fails or is overtaken between its
\* claim and its transaction, and no sweep takes it for a stale pointer.
BedsAgree ==
    \A b \in Beds :
       /\ \A t \in Tenants :
             beds[b] = [status |-> "occupied", by |-> t] <=> home[t] = b
       /\ \A t \in Tenants :
             beds[b] = [status |-> "reserved", by |-> t]
                <=> \E x \in Transfers : /\ IsOpen(x) /\ record[x].hold
                                         /\ record[x].tenant = t
                                         /\ record[x].to = b

\* The counter of a room covers its tenants and the tenants it expects from
\* other rooms, so a slot is never given away twice.
SlotsCovered ==
    \A r \in Rooms :
       Cardinality(InRoom(r)) + Cardinality({x \in HoldsIn(r) : Changes(x)})
          <= count[r]

\* A request that was overtaken (its claim expired and another one took it)
\* may wake up at any of its steps and changes nothing any more.
OvertakenChangesNothing ==
    [][\A w \in Workers :
          worker[w] # Idle /\ worker'[w] # worker[w]
             /\ worker[w].op # "pay" /\ worker[w].pc # "resolve"
             /\ record[worker[w].x].claim.by # w
          => UNCHANGED <<home, beds, count, record>>]_vars

\* Money ends every automatism: once the bill of a transfer is paid, no
\* request voids it, bills again, or cancels the transfer, also when it had
\* read the bill before the payment.
PaidIsKept ==
    [][\A x \in Transfers :
          record[x].bill = "paid" =>
             /\ record'[x].bill = "paid"
             /\ record'[x].status = "cancelled"
                   => record[x].status = "cancelled"]_vars

\* What a tenant acknowledged stands: an addendum keeps the day it stated
\* when it was acknowledged, until it is replaced by a new one.
AcknowledgedDayStands ==
    [][\A x \in Transfers :
          record[x].acked /\ record'[x].acked
             => record'[x].docDay = record[x].docDay]_vars

\* When a transfer of a departed tenant is resolved and no acknowledgement
\* stands in the way, the destination bed becomes free, also when it was paid.
DepartureReleases ==
    \A x \in Transfers :
       (\E w \in Workers : worker[w] # Idle /\ worker[w].op = "depart"
                              /\ worker[w].x = x /\ Cancellable(x))
          ~> (~record[x].hold \/ record[x].acked)

-----------------------------------------------------------------------------
(* The documents implement TransferLifecycle.                              *)

Phase(x) ==
    IF IsOpen(x) THEN "open" ELSE record[x].status

Promises ==
    [x \in Transfers |-> [phase |-> Phase(x), tenant |-> record[x].tenant,
                          bed |-> record[x].to, held |-> record[x].hold]]

Lifecycle == INSTANCE TransferLifecycle WITH transfer <- Promises

\* Claims, transactions and sweeps give what the life cycle promises: one hold
\* per bed, one move, one end.
ImplementsLifecycle == Lifecycle!Spec
=============================================================================
