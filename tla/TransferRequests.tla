-------------------------- MODULE TransferRequests --------------------------
(***************************************************************************)
(* A tenant asks for another room; an administrator declines the request   *)
(* or schedules a transfer for it.  The request and the transfer are two   *)
(* documents: scheduling claims the request, commits the transfer, and     *)
(* links the two in a third write, which may fail or never happen.  Every  *)
(* later change of the transfer is copied to the request by a handler that *)
(* read the transfer before, and whoever reads a request repairs it.       *)
(*                                                                         *)
(* One tenant and one reservation.  Requests and transfers are numbered in *)
(* the order they are created, which stands for submittedAt and            *)
(* scheduledAt.  A transfer is open, executed or cancelled: its own life   *)
(* is RoomTransfers.                                                       *)
(***************************************************************************)
EXTENDS Naturals, FiniteSetsExt

CONSTANTS
    MaxRequests,    \* requests the tenant submits (a bound)
    MaxTransfers,   \* transfers that are scheduled (a bound)
    Workers,        \* requests the server runs at a time (a bound)
    Kinds,          \* what a run exercises (a bound)
    Nobody          \* no scheduling token

ASSUME RequestAssumption ==
    /\ MaxRequests \in Nat /\ MaxTransfers \in Nat
    /\ Nobody \notin Workers

Requests == 1..MaxRequests

Transfers == 1..MaxTransfers

NoTransfer == 0

VARIABLES
    request,    \* the TenantTransferRequest documents
    transfer,   \* the ScheduledRoomTransfer documents
    worker      \* what every worker is in the middle of

vars == <<request, transfer, worker>>

-----------------------------------------------------------------------------
(* Documents                                                               *)

OpenStatuses == {"pending", "scheduling", "scheduled"}

Closed == {"completed", "declined", "cancelled"}

\* "after" is the number of transfers scheduled before the request.  The
\* token is fresh while its heartbeat is younger than five minutes.
Request == [status: {"none"} \cup OpenStatuses \cup Closed,
            link: 0..MaxTransfers, token: Workers \cup {Nobody},
            fresh: BOOLEAN, after: 0..MaxTransfers]

\* "of" is the request a transfer was scheduled for, which the code does not
\* store.
Transfer == [status: {"none", "open", "executed", "cancelled"},
             of: 0..MaxRequests]

Job == [op: {"schedule", "sync", "reconcile"},
        pc: {"schedule", "link", "repair", "release", "unclaim", "sync",
             "write"},
        q: 0..MaxRequests, x: 0..MaxTransfers,
        saw: {"none", "open", "executed", "cancelled", "lapsed"}]

Idle == [op |-> "idle"]

Submitted == {q \in Requests : request[q].status # "none"}

OpenTransfers == {x \in Transfers : transfer[x].status = "open"}

Scheduled == {x \in Transfers : transfer[x].status # "none"}

OpenRequest(q) == request[q].status \in OpenStatuses

\* unique_open_tenant_transfer_request
IndexAllows(q, status) ==
    status \in OpenStatuses => \A p \in Requests \ {q} : ~OpenRequest(p)

Next1(S) == Max(S \cup {0}) + 1

\* Mutation: the status is copied as it is.
MirroredAsIs(s) == s

\* Mutation: whatever is over counts as completed.
MirroredAsDone(s) == IF s = "open" THEN "scheduled" ELSE "completed"

\* executed -> completed, cancelled -> cancelled, else scheduled
Mirrored(s) ==
    CASE s = "executed"  -> "completed"
      [] s = "cancelled" -> "cancelled"
      [] OTHER           -> "scheduled"

\* Sets the status and the link, and drops the claim.
Adopt(q, x, s) ==
    request' = [request EXCEPT ![q].status = Mirrored(s), ![q].link = x,
                               ![q].token = Nobody, ![q].fresh = FALSE]

Done(w) == worker' = [worker EXCEPT ![w] = Idle]

Goto(w, pc) == worker' = [worker EXCEPT ![w].pc = pc]

-----------------------------------------------------------------------------
(* The tenant, and an administrator who declines                           *)

\* createTenantTransferRequest: its reconciliation is ReconcileRead and
\* ReconcileWrite, the rest is one transaction.
Create ==
    LET q == Next1(Submitted) IN
    /\ q <= MaxRequests
    /\ OpenTransfers = {}
    /\ IndexAllows(q, "pending")
    /\ request' = [request EXCEPT
          ![q] = [status |-> "pending", link |-> NoTransfer,
                  token |-> Nobody, fresh |-> FALSE,
                  after |-> Max(Scheduled \cup {0})]]
    /\ UNCHANGED <<transfer, worker>>

Untouched(q) == request[q].status = "pending" /\ request[q].link = NoTransfer

\* cancelTenantTransferRequest, declineTenantTransferRequest
Refuse(q, status) ==
    /\ Untouched(q)
    /\ request' = [request EXCEPT ![q].status = status]
    /\ UNCHANGED <<transfer, worker>>

-----------------------------------------------------------------------------
(* transferTenant                                                          *)

\* claimTenantTransferRequestForScheduling, after its reconciliation.  A new
\* claim has a new heartbeat: a reader that saw the old one lapse finds
\* another value when it writes.
ClaimRequest(w, q) ==
    /\ worker[w] = Idle
    /\ Untouched(q)
    /\ request' = [request EXCEPT ![q].status = "scheduling",
                                  ![q].token = w, ![q].fresh = TRUE]
    /\ worker' = [v \in Workers |->
          IF v = w
             THEN [op |-> "schedule", pc |-> "schedule", q |-> q,
                   x |-> NoTransfer, saw |-> "none"]
          ELSE IF worker[v] # Idle /\ worker[v].q = q
                     /\ worker[v].saw = "lapsed"
             THEN [worker[v] EXCEPT !.saw = "none"]
          ELSE worker[v]]
    /\ UNCHANGED transfer

\* A transfer nobody asked for.
ScheduleUnasked(w) ==
    /\ "unasked" \in Kinds
    /\ worker[w] = Idle
    /\ worker' = [worker EXCEPT ![w] =
                     [op |-> "schedule", pc |-> "schedule", q |-> 0,
                      x |-> NoTransfer, saw |-> "none"]]
    /\ UNCHANGED <<request, transfer>>

\* scheduleRoomTransfer commits; it does not look at the request.
CommitTransfer(w) ==
    LET x == Next1(Scheduled) IN
    /\ worker[w].op = "schedule" /\ worker[w].pc = "schedule"
    /\ x <= MaxTransfers
    /\ OpenTransfers = {}
    /\ transfer' = [transfer EXCEPT ![x] = [status |-> "open",
                                            of |-> worker[w].q]]
    /\ IF worker[w].q = 0
          THEN Done(w)
          ELSE worker' = [worker EXCEPT ![w].pc = "link", ![w].x = x,
                                        ![w].saw = "open"]
    /\ UNCHANGED request

CommitFails(w) ==
    /\ worker[w].op = "schedule" /\ worker[w].pc = "schedule"
    /\ \/ "fail" \in Kinds
       \/ OpenTransfers # {}
       \/ Next1(Scheduled) > MaxTransfers
    /\ IF worker[w].q = 0 THEN Done(w) ELSE Goto(w, "release")
    /\ UNCHANGED <<request, transfer>>

Claimed(w) ==
    LET q == worker[w].q IN
    /\ request[q].status = "scheduling"
    /\ request[q].token = w
    /\ request[q].link = NoTransfer

\* linkScheduledTransferToRequest
Link(w) ==
    /\ worker[w].op = "schedule" /\ worker[w].pc = "link"
    /\ IF Claimed(w)
          THEN Adopt(worker[w].q, worker[w].x, "open") /\ Done(w)
          ELSE Goto(w, "repair") /\ UNCHANGED request
    /\ UNCHANGED transfer

\* The link fails and is only logged.
LinkFails(w) ==
    /\ "fail" \in Kinds
    /\ worker[w].op = "schedule" /\ worker[w].pc = "link"
    /\ Done(w)
    /\ UNCHANGED <<request, transfer>>

\* releaseTenantTransferSchedulingClaim: a transfer that is open although
\* scheduling it failed is linked.
Release(w) ==
    /\ worker[w].op = "schedule" /\ worker[w].pc = "release"
    /\ IF OpenTransfers # {}
          THEN worker' = [worker EXCEPT ![w].pc = "link", ![w].saw = "open",
                                        ![w].x = Max(OpenTransfers)]
          ELSE Goto(w, "unclaim")
    /\ UNCHANGED <<request, transfer>>

Unclaim(w) ==
    LET q == worker[w].q IN
    /\ worker[w].op = "schedule" /\ worker[w].pc = "unclaim"
    /\ request' = IF request[q].status = "scheduling" /\ request[q].token = w
                     THEN [request EXCEPT ![q].status = "pending",
                                          ![q].token = Nobody,
                                          ![q].fresh = FALSE]
                     ELSE request
    /\ Done(w)
    /\ UNCHANGED transfer

-----------------------------------------------------------------------------
(* The transfer goes on, and the handler copies what it read               *)

StartSync(w, x, s) ==
    worker' = [worker EXCEPT ![w] = [op |-> "sync", pc |-> "sync", q |-> 0,
                                     x |-> x, saw |-> s]]

\* cancelScheduledRoomTransfer
CancelTransfer(w, x) ==
    /\ worker[w] = Idle
    /\ transfer[x].status = "open"
    /\ transfer' = [transfer EXCEPT ![x].status = "cancelled"]
    /\ StartSync(w, x, "cancelled")
    /\ UNCHANGED request

\* rescheduleRoomTransfer
RescheduleTransfer(w, x) ==
    /\ "reschedule" \in Kinds
    /\ worker[w] = Idle
    /\ transfer[x].status = "open"
    /\ StartSync(w, x, "open")
    /\ UNCHANGED <<request, transfer>>

LinkedTo(x) == {q \in Requests : request[q].link = x}

\* transferStayWorkflow refuses when the linked request is closed and else
\* completes it in its transaction.
ExecuteTransfer(w, x) ==
    /\ worker[w] = Idle
    /\ transfer[x].status = "open"
    /\ \A q \in LinkedTo(x) : request[q].status \notin Closed
    /\ transfer' = [transfer EXCEPT ![x].status = "executed"]
    /\ request' = [q \in Requests |->
                     IF q \in LinkedTo(x)
                        THEN [request[q] EXCEPT !.status = "completed"]
                        ELSE request[q]]
    /\ StartSync(w, x, "executed")

\* Mutation: any open request is taken for the one of the transfer.
MatchesAnyOpen(q, x) == request[q].link = x \/ OpenRequest(q)

\* The request is linked, or open and not younger than the transfer.
Matches(q, x) ==
    \/ request[q].link = x
    \/ OpenRequest(q) /\ request[q].after < x

\* syncRequestFromScheduledTransfer, the newest match; a refusal by the index
\* is only logged.
Sync(w) ==
    LET x == worker[w].x
        M == {q \in Submitted : Matches(q, x)}
        q == Max(M \cup {0})
    IN
    /\ \/ worker[w].op = "sync"
       \/ worker[w].op = "schedule" /\ worker[w].pc = "repair"
    /\ IF M # {} /\ IndexAllows(q, Mirrored(worker[w].saw))
          THEN Adopt(q, x, worker[w].saw)
          ELSE UNCHANGED request
    /\ Done(w)
    /\ UNCHANGED transfer

SyncFails(w) ==
    /\ "fail" \in Kinds
    /\ worker[w].op = "sync"
    /\ Done(w)
    /\ UNCHANGED <<request, transfer>>

-----------------------------------------------------------------------------
(* Reconciliation by a reader                                              *)

\* selectCanonicalTenantTransferLifecycle: the open transfer, else the latest
\* if it is linked or not older than the request.
Canonical(q) ==
    IF OpenTransfers # {} THEN Max(OpenTransfers)
    ELSE LET x == Max(Scheduled \cup {0}) IN
         IF x = request[q].link \/ x > request[q].after THEN x ELSE NoTransfer

\* Mutation: every claim is taken for a dead one.
LapsedAlways(q) == request[q].status = "scheduling"

Lapsed(q) == request[q].status = "scheduling" /\ ~request[q].fresh

ReconcileRead(w, q) ==
    LET x == Canonical(q) IN
    /\ worker[w] = Idle
    /\ request[q].status # "none"
    /\ worker' = [worker EXCEPT ![w] =
          [op |-> "reconcile", pc |-> "write", q |-> q, x |-> x,
           saw |-> IF x # NoTransfer THEN transfer[x].status
                   ELSE IF Lapsed(q) THEN "lapsed" ELSE "none"]]
    /\ UNCHANGED <<request, transfer>>

\* Mutation: a reader repairs open requests only while nothing is linked.
AdoptableUnlinked(q, x, s) == OpenRequest(q) /\ request[q].link = NoTransfer

Adoptable(q, x, s) ==
    /\ request[q].status \in OpenStatuses \cup {Mirrored(s)}
    /\ request[q].link = x \/ request[q].after < x

\* reconcileRequestRecord
ReconcileWrite(w) ==
    LET q == worker[w].q
        x == worker[w].x
        s == worker[w].saw
    IN
    /\ worker[w].op = "reconcile"
    /\ \/ /\ s = "lapsed" /\ Lapsed(q)
          /\ request' = [request EXCEPT ![q].status = "pending",
                                        ![q].token = Nobody]
       \/ /\ x # NoTransfer
          /\ Adoptable(q, x, s) /\ IndexAllows(q, Mirrored(s))
          /\ Adopt(q, x, s)
       \/ /\ ~(s = "lapsed" /\ Lapsed(q))
          /\ ~(/\ x # NoTransfer
               /\ Adoptable(q, x, s) /\ IndexAllows(q, Mirrored(s)))
          /\ UNCHANGED request
    /\ Done(w)
    /\ UNCHANGED transfer

-----------------------------------------------------------------------------
(* Time and crashes                                                        *)

Scheduling(w, q) == worker[w].op = "schedule" /\ worker[w].q = q

\* Five minutes without a heartbeat: a live request sends one every thirty
\* seconds.
Lapse(q) ==
    /\ request[q].status = "scheduling" /\ request[q].fresh
    /\ \A w \in Workers : worker[w] = Idle \/ ~Scheduling(w, q)
    /\ request' = [request EXCEPT ![q].fresh = FALSE]
    /\ UNCHANGED <<transfer, worker>>

Crash(w) ==
    /\ "crash" \in Kinds
    /\ worker[w] # Idle
    /\ Done(w)
    /\ UNCHANGED <<request, transfer>>

-----------------------------------------------------------------------------
(* The specification                                                       *)

Init ==
    /\ request = [q \in Requests |->
                    [status |-> "none", link |-> NoTransfer, token |-> Nobody,
                     fresh |-> FALSE, after |-> 0]]
    /\ transfer = [x \in Transfers |-> [status |-> "none", of |-> 0]]
    /\ worker = [w \in Workers |-> Idle]

Work(w) ==
    \/ CommitTransfer(w) \/ CommitFails(w) \/ Link(w) \/ LinkFails(w)
    \/ Release(w) \/ Unclaim(w) \/ Sync(w) \/ SyncFails(w)
    \/ ReconcileWrite(w)

Next ==
    \/ Create
    \/ \E q \in Requests :
          Refuse(q, "cancelled") \/ Refuse(q, "declined") \/ Lapse(q)
    \/ \E w \in Workers, q \in Requests :
          ClaimRequest(w, q) \/ ReconcileRead(w, q)
    \/ \E w \in Workers, x \in Transfers :
          CancelTransfer(w, x) \/ RescheduleTransfer(w, x)
             \/ ExecuteTransfer(w, x)
    \/ \E w \in Workers : ScheduleUnasked(w) \/ Work(w) \/ Crash(w)

Spec == Init /\ [][Next]_vars

\* A request that was begun is worked off, and minutes pass.  Nobody has to
\* read, decline, schedule, cancel or complete anything.
FairSpec ==
    /\ Spec
    /\ \A w \in Workers : WF_vars(Work(w))
    /\ \A q \in Requests : WF_vars(Lapse(q))

-----------------------------------------------------------------------------
(* Properties                                                              *)

\* Every document and every request in flight is well formed.
TypeOK ==
    /\ request \in [Requests -> Request]
    /\ transfer \in [Transfers -> Transfer]
    /\ \A w \in Workers : worker[w] = Idle \/ worker[w] \in Job

\* A late copy of an old transfer never reaches a request that was submitted
\* after that transfer: a request is linked only to a younger transfer.
OwnTransfer ==
    \A q \in Submitted :
       request[q].link # NoTransfer => request[q].after < request[q].link

\* A request says completed only when the tenant was moved.
CompletedMeansMoved ==
    \A q \in Submitted :
       request[q].status = "completed" =>
          /\ request[q].link # NoTransfer
          /\ transfer[request[q].link].status = "executed"

\* A request that the tenant withdrew or the administrator declined has no
\* transfer that was scheduled for it: the claim and the refusal exclude each
\* other as long as claims of live requests do not lapse.
RefusedIsNotScheduled ==
    \A q \in Submitted :
       request[q].status \in {"declined", "cancelled"}
          /\ request[q].link = NoTransfer
       => \A x \in OpenTransfers : transfer[x].of # q

\* A scheduling claim without a request behind it.
DeadClaim(q) ==
    /\ request[q].status = "scheduling"
    /\ \A w \in Workers : worker[w] = Idle \/ ~Scheduling(w, q)

\* The request shows a transfer that is over as still to come.
Overdue(q) ==
    /\ request[q].status = "scheduled"
    /\ transfer[request[q].link].status \in {"executed", "cancelled"}

ReadAgainAndAgain(q) ==
    []<><<\E w \in Workers : worker[w] # Idle /\ worker[w].op = "reconcile"
             /\ worker[w].q = q /\ ReconcileWrite(w)>>_vars

\* Whatever crash, failed link or late copy left behind, a request that is
\* looked at again and again does not stay with a dead claim, and does not
\* stay scheduled for a transfer that is over.
ReadersRepair ==
    \A q \in Requests :
       ReadAgainAndAgain(q) =>
          /\ []<>~DeadClaim(q)
          /\ []<>~Overdue(q)
=============================================================================
