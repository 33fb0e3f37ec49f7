---------------------------- MODULE StayChanges ----------------------------
(***************************************************************************)
(* What can happen to a running tenancy: the tenant asks for an extension  *)
(* or answers a renewal offer, an administrator approves, renews, moves    *)
(* the tenant to another room, opens a clearance or a termination review   *)
(* and ends the stay.  A renewal is a second stay, whose contract is       *)
(* prepared in the background, signed, and put in force by a nightly job.  *)
(*                                                                         *)
(* One reservation.  Every transaction below writes the Reservation, so    *)
(* that two of them never interleave; what a handler reads before its      *)
(* transaction, or writes after it, is a step of its own.  Stays,          *)
(* contracts, requests and offers are numbered in the order of their       *)
(* creation.  A stay lasts Term days; a room transfer keeps the stay and   *)
(* replaces its contract.  The transfer itself is RoomTransfers.           *)
(***************************************************************************)
EXTENDS Naturals, FiniteSetsExt

CONSTANTS
    MaxStays,       \* the first stay and its renewals (a bound)
    MaxMoves,       \* room transfers that are carried out (a bound)
    MaxRequests,    \* extension requests (a bound)
    MaxOffers,      \* renewal offers (a bound)
    MaxReviews,     \* termination reviews (a bound)
    MaxDay,         \* the last day of the model (a bound)
    MaxCrashes,     \* restarts of the server (a bound)
    Term,           \* days of a stay
    Workers,        \* requests the server runs at a time (a bound)
    Preparers,      \* contract preparations at a time (a bound)
    Kinds,          \* what a run exercises, of AllKinds (a bound)
    Nobody          \* no lock holder

\* "clearance", and "stall": a preparation that outlives its lock.
AllKinds == {"clearance", "stall"}

ASSUME StayAssumption ==
    /\ MaxStays \in Nat \ {0} /\ MaxMoves \in Nat
    /\ MaxRequests \in Nat /\ MaxOffers \in Nat /\ MaxReviews \in Nat
    /\ MaxDay \in Nat /\ MaxCrashes \in Nat /\ Term \in Nat \ {0}
    /\ Nobody \notin Preparers /\ Kinds \subseteq AllKinds

Stays == 1..MaxStays

Contracts == 1..(MaxStays + MaxMoves)

Requests == 1..MaxRequests

Offers == 1..MaxOffers

Reviews == 1..MaxReviews

None == 0

VARIABLES
    day,            \* today, in Manila
    reservation,    \* the Reservation
    stays,          \* the Stay documents
    contracts,      \* the Contract documents
    requests,       \* the StayExtensionRequest documents
    clearance,      \* the MoveOutClearance
    reviews,        \* the TerminationReview documents
    transfer,       \* whether a transfer is requested or scheduled
    lease,          \* contractPreparationLease of every stay
    worker,         \* what every request is in the middle of
    preparer,       \* what every preparation is in the middle of
    crashes         \* restarts so far

records == <<reservation, stays, contracts, requests, clearance, reviews,
             transfer, lease>>

vars == <<day, records, worker, preparer, crashes>>

-----------------------------------------------------------------------------
(* Documents                                                               *)

\* "ended" is completed or terminated.
Stay == [status: {"none", "active", "upcoming", "renewed", "ended",
                  "cancelled"},
         start: Nat, end: Nat, prev: 0..MaxStays, offer: 0..MaxOffers]

\* "draft" is every status before "generated", "signing" every one from the
\* printed copy to the final document, "closed" is expired or terminated.
Contract == [purpose: {"none", "first", "renewal", "transfer"},
             stay: 0..MaxStays, replaces: Contracts \cup {None},
             status: {"none", "draft", "generated", "signing", "published",
                      "active", "replaced", "closed", "cancelled"},
             final: BOOLEAN, current: BOOLEAN]

Request == [status: {"none", "pending", "approved", "rejected", "cancelled"},
            stay: 0..MaxStays, contract: Contracts \cup {None}, end: Nat,
            successor: 0..MaxStays]

Review == [status: {"none", "open", "closed"},
           outcome: {"none", "approved"},
           execution: {"none", "pending_execution", "executed"}]

Reservation == [status: {"moveIn", "moveOut"}, stay: Stays,
                pending: 0..MaxRequests,
                offers: [Offers -> {"none", "pending", "accepted", "declined",
                                    "cancelled"}]]

Job == [op: {"approve", "accept", "withdraw", "offer", "clear", "settle",
             "execute", "sign", "notarize"},
        pc: {"renew", "rollback", "write", "moveOut", "save"},
        n: Nat, k: Nat]

Preparation == [pc: {"create", "generate", "unlock"}, stay: 0..MaxStays,
                old: Contracts, made: Contracts \cup {None}]

Idle == [op |-> "idle"]

Next1(S) == Max(S \cup {0}) + 1

Used == {s \in Stays : stays[s].status # "none"}

Written == {c \in Contracts : contracts[c].status # "none"}

Submitted == {q \in Requests : requests[q].status # "none"}

Active == {s \in Stays : stays[s].status = "active"}

\* resolveCurrentStayForReservation
InForce == Max(Active \cup {None})

Visible == {"generated", "signing", "published", "active"}

\* resolveAuthoritativeCurrentContract
Lease == Max({c \in Contracts : /\ contracts[c].current
                                /\ contracts[c].status \in Visible}
             \cup {None})

\* Room moves so far, which stand for the room the tenant is in.
Moves == Cardinality({c \in Contracts : contracts[c].purpose = "transfer"})

PendingOffer == \E o \in Offers : reservation.offers[o] = "pending"

Blocking(r) == \/ reviews[r].status = "open"
               \/ reviews[r].execution = "pending_execution"

MovedIn == reservation.status = "moveIn"

Start(w, op, pc, n, k) ==
    /\ worker[w] = Idle
    /\ worker' = [worker EXCEPT
          ![w] = [op |-> op, pc |-> pc, n |-> n, k |-> k]]

At(w, op, pc) == worker[w] # Idle /\ worker[w].op = op /\ worker[w].pc = pc

Done(w) == worker' = [worker EXCEPT ![w] = Idle]

Goto(w, pc) == worker' = [worker EXCEPT ![w].pc = pc]

-----------------------------------------------------------------------------
(* Extension requests                                                      *)

\* currentContext
Context ==
    /\ MovedIn /\ InForce # None /\ reservation.stay = InForce
    /\ Lease # None
    /\ contracts[Lease].status \in {"active", "published"}
    /\ stays[InForce].start <= day

\* assertNoConflicts
NoConflicts ==
    /\ clearance = "none"
    /\ \A r \in Reviews : ~Blocking(r)
    /\ \A c \in Written : contracts[c].replaces = Lease =>
          contracts[c].status \in {"replaced", "closed", "cancelled"}
    /\ ~PendingOffer
    /\ \A s \in Used : stays[s].prev = InForce =>
          stays[s].status = "cancelled"
    /\ transfer = "none"

\* createStayExtension
CreateExtension ==
    LET q == Next1(Submitted) IN
    /\ q <= MaxRequests
    /\ Context /\ NoConflicts
    /\ day <= stays[InForce].end
    /\ reservation.pending = None
    /\ \A p \in Requests : requests[p].status # "pending"
    /\ requests' = [requests EXCEPT
          ![q] = [status |-> "pending", stay |-> InForce, contract |-> Lease,
                  end |-> stays[InForce].end, successor |-> None]]
    /\ reservation' = [reservation EXCEPT !.pending = q]
    /\ UNCHANGED <<day, stays, contracts, clearance, reviews, transfer, lease,
                   worker, preparer, crashes>>

\* reviewStayExtension "approved": everything it checks before the renewal.
ApproveRead(w, q) ==
    /\ requests[q].status = "pending"
    /\ Context /\ NoConflicts
    /\ day <= requests[q].end
    /\ Start(w, "approve", "renew", q, requests[q].end + 1)
    /\ UNCHANGED <<day, records, preparer, crashes>>

\* Mutation: a status the schema does not know.
Declined(q) == [requests[q] EXCEPT !.status = "declined"]

Rejected(q) == [requests[q] EXCEPT !.status = "rejected"]

\* reviewStayExtension "rejected"
Reject(q) ==
    /\ requests[q].status = "pending"
    /\ requests' = [requests EXCEPT ![q] = Rejected(q)]
    /\ reservation' = IF reservation.pending = q
                         THEN [reservation EXCEPT !.pending = None]
                         ELSE reservation
    /\ UNCHANGED <<day, stays, contracts, clearance, reviews, transfer, lease,
                   worker, preparer, crashes>>

-----------------------------------------------------------------------------
(* renewStayWorkflow                                                       *)

\* What its transaction requires, for the request q or none.
RenewAllowed(q, start) ==
    /\ MovedIn /\ InForce # None
    /\ transfer = "none"
    /\ reservation.pending \in {None, q}
    /\ q # None => /\ requests[q].status = "pending"
                   /\ requests[q].stay = InForce
                   /\ requests[q].contract = Lease
                   /\ requests[q].end = stays[InForce].end
    /\ start > stays[InForce].end
    /\ \A s \in Used \ {InForce} :
          start > stays[s].end \/ start + Term <= stays[s].start
    /\ \A s \in Used : stays[s].prev # InForce

\* Creates the upcoming stay and closes the request.
Renew(q, o, start) ==
    LET s == Next1(Used) IN
    /\ s <= MaxStays
    /\ stays' = [stays EXCEPT
          ![s] = [status |-> "upcoming", start |-> start,
                  end |-> start + Term - 1, prev |-> InForce, offer |-> o]]
    /\ IF q = None
          THEN UNCHANGED <<requests, reservation>>
          ELSE /\ requests' = [requests EXCEPT ![q].status = "approved",
                                               ![q].successor = s]
               /\ reservation' = [reservation EXCEPT !.pending = None]
    /\ UNCHANGED <<contracts, clearance, reviews, transfer, lease>>

ApproveCommit(w) ==
    LET j == worker[w] IN
    /\ At(w, "approve", "renew")
    /\ IF RenewAllowed(j.n, j.k) THEN Renew(j.n, None, j.k)
                                 ELSE UNCHANGED records
    /\ Done(w)
    /\ UNCHANGED <<day, preparer, crashes>>

\* renewContract: the administrator chooses the first day.
DirectRenew(gap) ==
    LET start == stays[InForce].end + 1 + gap IN
    /\ InForce # None
    /\ RenewAllowed(None, start)
    /\ Renew(None, None, start)
    /\ UNCHANGED <<day, worker, preparer, crashes>>

-----------------------------------------------------------------------------
(* Renewal offers                                                          *)

Made == {o \in Offers : reservation.offers[o] # "none"}

SetOffer(o, status) ==
    /\ reservation' = [reservation EXCEPT !.offers[o] = status]
    /\ UNCHANGED <<stays, contracts, requests, clearance, reviews, transfer,
                   lease>>

\* createRenewalOffer: the first checks,
OfferRead(w) ==
    /\ Next1(Made) <= MaxOffers
    /\ MovedIn /\ reservation.pending = None /\ ~PendingOffer
    /\ Start(w, "offer", "write", None, None)
    /\ UNCHANGED <<day, records, preparer, crashes>>

\* and its conditional $push.
OfferWrite(w) ==
    /\ At(w, "offer", "write")
    /\ Next1(Made) <= MaxOffers
    /\ IF reservation.pending = None /\ ~PendingOffer
          THEN SetOffer(Next1(Made), "pending")
          ELSE UNCHANGED records
    /\ Done(w)
    /\ UNCHANGED <<day, preparer, crashes>>

\* cancelRenewalOffer reads the offer and saves it without a condition.
WithdrawRead(w, o) ==
    /\ reservation.offers[o] = "pending"
    /\ Start(w, "withdraw", "write", o, None)
    /\ UNCHANGED <<day, records, preparer, crashes>>

WithdrawWrite(w) ==
    /\ At(w, "withdraw", "write")
    /\ SetOffer(worker[w].n, "cancelled")
    /\ Done(w)
    /\ UNCHANGED <<day, preparer, crashes>>

\* respondToRenewalOffer "decline"
Decline(o) ==
    /\ reservation.offers[o] = "pending"
    /\ SetOffer(o, "declined")
    /\ UNCHANGED <<day, worker, preparer, crashes>>

\* Mutation: an offer accepted before may be accepted again.
AcceptableAgain(o) == reservation.offers[o] \in {"pending", "accepted"}

Acceptable(o) == reservation.offers[o] = "pending"

\* "accept": the claim, with the first day read after it,
AcceptClaim(w, o) ==
    /\ Acceptable(o)
    /\ SetOffer(o, "accepted")
    /\ Start(w, "accept", "renew", o,
             IF InForce = None THEN None ELSE stays[InForce].end + 1)
    /\ UNCHANGED <<day, preparer, crashes>>

\* the renewal,
AcceptRenew(w) ==
    LET j == worker[w] IN
    /\ At(w, "accept", "renew")
    /\ IF RenewAllowed(None, j.k)
          THEN Renew(None, j.n, j.k) /\ Done(w)
          ELSE UNCHANGED records /\ Goto(w, "rollback")
    /\ UNCHANGED <<day, preparer, crashes>>

\* and, if it was refused, the claim given back.
AcceptRollback(w) ==
    LET o == worker[w].n IN
    /\ At(w, "accept", "rollback")
    /\ IF reservation.offers[o] = "accepted" THEN SetOffer(o, "pending")
                                             ELSE UNCHANGED records
    /\ Done(w)
    /\ UNCHANGED <<day, preparer, crashes>>

-----------------------------------------------------------------------------
(* Contracts of renewals                                                   *)

Papers(s) == {c \in Contracts : /\ contracts[c].purpose = "renewal"
                                /\ contracts[c].stay = s}

CurrentOf(s) == Max({c \in Contracts : /\ contracts[c].stay = s
                                       /\ contracts[c].current} \cup {None})

\* reconcileRenewalContractPreparation, renewStayWorkflow and "retry
\* preparation" all take the lock of an upcoming stay, and stop if its
\* contract is past the draft.
PrepareLock(p, s) ==
    /\ preparer[p] = Idle
    /\ stays[s].status = "upcoming"
    /\ lease[s] = Nobody
    /\ \A c \in Papers(s) : contracts[c].status = "draft"
    /\ CurrentOf(stays[s].prev) # None
    /\ lease' = [lease EXCEPT ![s] = p]
    /\ preparer' = [preparer EXCEPT
          ![p] = [pc |-> "create", stay |-> s,
                  old |-> CurrentOf(stays[s].prev), made |-> None]]
    /\ UNCHANGED <<day, reservation, stays, contracts, requests, clearance,
                   reviews, transfer, worker, crashes>>

\* createSuccessorContractForRenewal: one successor of a contract, whatever
\* became of the stay since; a successor past the draft ends the preparation.
PrepareCreate(p) ==
    LET j == preparer[p]
        found == {c \in Written : /\ contracts[c].replaces = j.old
                                  /\ contracts[c].purpose = "renewal"
                                  /\ contracts[c].status # "cancelled"}
        c == IF found = {} THEN Next1(Written) ELSE Max(found)
    IN
    /\ j # Idle /\ j.pc = "create"
    /\ c \in Contracts
    /\ contracts' = IF found # {} THEN contracts ELSE [contracts EXCEPT
          ![c] = [purpose |-> "renewal", stay |-> j.stay,
                  replaces |-> j.old, status |-> "draft", final |-> FALSE,
                  current |-> FALSE]]
    /\ preparer' = [preparer EXCEPT
          ![p].made = c,
          ![p].pc = IF contracts[c].status \in {"none", "draft"}
                       THEN "generate" ELSE "unlock"]
    /\ UNCHANGED <<day, reservation, stays, requests, clearance, reviews,
                   transfer, lease, worker, crashes>>

\* prepareRenewalContract saves the document it holds, then generates.
PrepareGenerate(p) ==
    /\ preparer[p] # Idle /\ preparer[p].pc = "generate"
    /\ contracts' = [contracts EXCEPT ![preparer[p].made].status = "generated"]
    /\ preparer' = [preparer EXCEPT ![p].pc = "unlock"]
    /\ UNCHANGED <<day, reservation, stays, requests, clearance, reviews,
                   transfer, lease, worker, crashes>>

\* The end of withRenewalPreparationLock: only its own lock.
PrepareUnlock(p) ==
    LET s == preparer[p].stay IN
    /\ preparer[p] # Idle /\ preparer[p].pc = "unlock"
    /\ lease' = IF lease[s] = p THEN [lease EXCEPT ![s] = Nobody] ELSE lease
    /\ preparer' = [preparer EXCEPT ![p] = Idle]
    /\ UNCHANGED <<day, reservation, stays, contracts, requests, clearance,
                   reviews, transfer, worker, crashes>>

\* Mutation: a lock without an end.
LapsesNever(s) == FALSE

\* A lock ends after fifteen minutes, its holder dead or only slow.
Lapses(s) ==
    \/ "stall" \in Kinds
    \/ \A p \in Preparers : lease[s] = p => preparer[p] = Idle

ExpireLease(s) ==
    /\ lease[s] # Nobody /\ Lapses(s)
    /\ lease' = [lease EXCEPT ![s] = Nobody]
    /\ UNCHANGED <<day, reservation, stays, contracts, requests, clearance,
                   reviews, transfer, worker, preparer, crashes>>

\* markContractPrinted
MarkPrinted(c) ==
    /\ contracts[c].status = "generated"
    /\ contracts' = [contracts EXCEPT ![c].status = "signing"]
    /\ UNCHANGED <<day, reservation, stays, requests, clearance, reviews,
                   transfer, lease, worker, preparer, crashes>>

\* uploadSignedContract, uploadAndFinalizeNotarizedContract: the contract as
\* it was read,
SignRead(w, c, op) ==
    /\ \/ contracts[c].status \in {"generated", "signing"}
       \/ op = "sign" /\ contracts[c].status = "draft"
    /\ ~contracts[c].final
    /\ Start(w, op, "write", c, None)
    /\ UNCHANGED <<day, records, preparer, crashes>>

\* and its final document: a signed copy publishes the contract, a notarized
\* one makes it active.  Neither makes it current.
SignWrite(w) ==
    LET c == worker[w].n IN
    /\ At(w, "sign", "write") \/ At(w, "notarize", "write")
    /\ contracts' = [contracts EXCEPT
          ![c].final = TRUE,
          ![c].status = IF worker[w].op = "sign" THEN "published"
                                                 ELSE "active"]
    /\ Done(w)
    /\ UNCHANGED <<day, reservation, stays, requests, clearance, reviews,
                   transfer, lease, preparer, crashes>>

Due(c) == stays[contracts[c].stay].start <= day

\* What the query of activateDueRenewalContracts finds.
Candidates == {c \in Written : /\ contracts[c].purpose = "renewal"
                               /\ contracts[c].status = "published"
                               /\ contracts[c].final
                               /\ Due(c)}

\* Mutation: the predecessor stays current.
StillCurrent(c) == [contracts[c] EXCEPT !.status = "replaced"]

\* transitionContract to "replaced"
Superseded(c) == [contracts[c] EXCEPT !.status = "replaced",
                                      !.current = FALSE]

\* activateDueRenewalContracts: its transaction for one contract.
Activate(c) ==
    LET old  == contracts[c].replaces
        next == contracts[c].stay
        prev == stays[next].prev
        takesOver == stays[next].status = "upcoming"
    IN
    /\ c \in Candidates
    /\ \A d \in Candidates : contracts[d].replaces = old => d = c
    /\ contracts[old].status = "active"
    /\ MovedIn /\ \A s \in Stays : stays[s].status # "ended"
    /\ takesOver => /\ stays[prev].status = "active"
                    /\ contracts[old].stay = prev
                    /\ reservation.stay = prev
    /\ contracts' = [contracts EXCEPT ![c].status = "active",
                                      ![c].current = TRUE,
                                      ![old] = Superseded(old)]
    /\ IF takesOver
          THEN /\ stays' = [stays EXCEPT ![prev].status = "renewed",
                                         ![next].status = "active"]
               /\ reservation' = [reservation EXCEPT !.stay = next]
          ELSE UNCHANGED <<stays, reservation>>
    /\ UNCHANGED <<day, requests, clearance, reviews, transfer, lease, worker,
                   preparer, crashes>>

-----------------------------------------------------------------------------
(* moveOutStayWorkflow                                                     *)

\* transitionContract has no way from a printed addendum to its end.
CanMoveOut == /\ MovedIn /\ InForce # None
              /\ Lease # None => contracts[Lease].status # "signing"

\* Mutation: the planned stay is left as it is.
StaysWithoutPlan ==
    [s \in Stays |-> IF s = InForce
                        THEN [stays[s] EXCEPT !.status = "ended"]
                        ELSE stays[s]]

StaysAfter ==
    [s \in Stays |->
        IF s = InForce THEN [stays[s] EXCEPT !.status = "ended"]
        ELSE IF stays[s].status = "upcoming"
                THEN [stays[s] EXCEPT !.status = "cancelled"]
                ELSE stays[s]]

\* Renewals and transfers that were not fulfilled.
Dangling(c) ==
    /\ contracts[c].status \in {"draft", "generated", "signing", "published"}
    /\ contracts[c].purpose # "first"

ContractsAfter ==
    [c \in Contracts |->
        IF c = Lease
           THEN [contracts[c] EXCEPT !.status = "closed", !.current = FALSE]
        ELSE IF Dangling(c)
           THEN [contracts[c] EXCEPT !.status = "cancelled",
                                     !.current = FALSE]
           ELSE contracts[c]]

MoveOut ==
    /\ stays' = StaysAfter
    /\ contracts' = ContractsAfter
    /\ requests' = [q \in Requests |->
          IF requests[q].status \in {"pending", "approved"}
             THEN [requests[q] EXCEPT !.status = "cancelled"]
             ELSE requests[q]]
    /\ reservation' = [reservation EXCEPT !.status = "moveOut",
                                          !.pending = None]
    /\ UNCHANGED <<clearance, reviews, transfer, lease>>

\* Asked for by an administrator, or by the abandonment protocol.
Leave ==
    /\ CanMoveOut
    /\ MoveOut
    /\ UNCHANGED <<day, worker, preparer, crashes>>

\* The move-out inside a handler that records the outcome afterwards.
HandlerMovesOut(w) ==
    /\ At(w, "settle", "moveOut") \/ At(w, "execute", "moveOut")
    /\ IF CanMoveOut THEN MoveOut /\ Goto(w, "save")
                     ELSE UNCHANGED records /\ Done(w)
    /\ UNCHANGED <<day, preparer, crashes>>

-----------------------------------------------------------------------------
(* Clearance                                                               *)

SetClearance(status) ==
    /\ clearance' = status
    /\ UNCHANGED <<reservation, stays, contracts, requests, reviews, transfer,
                   lease>>

\* openMoveOutClearance: the stay and the room it reads,
ClearRead(w) ==
    /\ "clearance" \in Kinds
    /\ clearance = "none" /\ InForce # None
    /\ Start(w, "clear", "write", None, Moves)
    /\ UNCHANGED <<day, records, preparer, crashes>>

\* and createExclusiveTenancyRecord, which does not look at the stay again.
ClearWrite(w) ==
    /\ At(w, "clear", "write")
    /\ IF transfer = "none" /\ worker[w].k = Moves /\ clearance = "none"
          THEN SetClearance("open") ELSE UNCHANGED records
    /\ Done(w)
    /\ UNCHANGED <<day, preparer, crashes>>

\* completeMoveOutClearance
SettleRead(w) ==
    /\ clearance = "open"
    /\ Start(w, "settle", "moveOut", None, None)
    /\ UNCHANGED <<day, records, preparer, crashes>>

SettleSave(w) ==
    /\ At(w, "settle", "save")
    /\ SetClearance("approved")
    /\ Done(w)
    /\ UNCHANGED <<day, preparer, crashes>>

-----------------------------------------------------------------------------
(* Termination reviews                                                     *)

SetReview(r, review) ==
    /\ reviews' = [reviews EXCEPT ![r] = review]
    /\ UNCHANGED <<reservation, stays, contracts, requests, clearance,
                   transfer, lease>>

Opened == {r \in Reviews : reviews[r].status # "none"}

\* createTerminationCase, and the third notice of issueOverdueNotice, which
\* looks for an open review first.
OpenReview ==
    LET r == Next1(Opened) IN
    /\ r <= MaxReviews
    /\ transfer = "none"
    /\ SetReview(r, [status |-> "open", outcome |-> "none",
                     execution |-> "none"])
    /\ UNCHANGED <<day, worker, preparer, crashes>>

\* updateTerminationDecisionAction: whatever the review was before.
Decide(r, outcome, status) ==
    /\ r \in Opened
    /\ SetReview(r, [status |-> status, outcome |-> outcome,
          execution |-> IF outcome = "approved" THEN "pending_execution"
                                                ELSE reviews[r].execution])
    /\ UNCHANGED <<day, worker, preparer, crashes>>

\* The same handler without an outcome: only the status is set.
Restate(r, status) ==
    /\ r \in Opened
    /\ SetReview(r, [reviews[r] EXCEPT !.status = status])
    /\ UNCHANGED <<day, worker, preparer, crashes>>

\* executeApprovedTermination; k says whether the review it read was open.
ExecuteRead(w, r) ==
    /\ reviews[r].outcome = "approved"
    /\ reviews[r].execution # "executed"
    /\ Start(w, "execute", "moveOut", r,
             IF reviews[r].status = "open" THEN 1 ELSE 0)
    /\ UNCHANGED <<day, records, preparer, crashes>>

ExecuteSave(w) ==
    LET r == worker[w].n IN
    /\ At(w, "execute", "save")
    /\ SetReview(r, [reviews[r] EXCEPT
          !.execution = "executed",
          !.status = IF worker[w].k = 1 THEN "closed" ELSE @])
    /\ Done(w)
    /\ UNCHANGED <<day, preparer, crashes>>

-----------------------------------------------------------------------------
(* Room transfers                                                          *)

\* Mutation: a pending extension request is not looked at.
NoTransferConflictsButExtension ==
    /\ clearance = "none"
    /\ \A r \in Reviews : ~Blocking(r)
    /\ \A s \in Used : ~(/\ stays[s].prev # None /\ stays[s].start > day
                         /\ stays[s].status \in {"upcoming", "active"})

\* assertNoRoomTransferLifecycleConflict
NoTransferConflicts ==
    /\ reservation.pending = None
    /\ clearance = "none"
    /\ \A r \in Reviews : ~Blocking(r)
    /\ \A s \in Used : ~(/\ stays[s].prev # None /\ stays[s].start > day
                         /\ stays[s].status \in {"upcoming", "active"})

\* createTenantTransferRequest, scheduleRoomTransfer
OpenTransfer ==
    /\ Moves < MaxMoves
    /\ MovedIn /\ InForce # None /\ transfer = "none"
    /\ NoTransferConflicts
    /\ transfer' = "open"
    /\ UNCHANGED <<day, reservation, stays, contracts, requests, clearance,
                   reviews, lease, worker, preparer, crashes>>

\* Declined, withdrawn or cancelled.
CloseTransfer ==
    /\ transfer = "open"
    /\ transfer' = "none"
    /\ UNCHANGED <<day, reservation, stays, contracts, requests, clearance,
                   reviews, lease, worker, preparer, crashes>>

\* transferStayWorkflow, scheduled or at once, and the addendum that
\* runRoomTransferDraftActivation makes current.
CutOver ==
    LET c == Next1(Written) IN
    /\ Moves < MaxMoves /\ c \in Contracts
    /\ MovedIn /\ NoTransferConflicts
    /\ InForce # None /\ reservation.stay = InForce
    /\ stays[InForce].start <= day /\ day <= stays[InForce].end
    /\ Lease # None
    /\ \/ contracts[Lease].status \in {"active", "published"}
       \/ /\ contracts[Lease].status = "generated"
          /\ contracts[Lease].purpose = "transfer"
    /\ contracts' = [d \in Contracts |->
          IF d = c THEN [purpose |-> "transfer", stay |-> InForce,
                         replaces |-> Lease, status |-> "generated",
                         final |-> FALSE, current |-> TRUE]
          ELSE IF d = Lease THEN Superseded(d)
          ELSE IF /\ contracts[d].purpose = "renewal"
                  /\ contracts[d].replaces = Lease
                  /\ contracts[d].status = "published"
             THEN [contracts[d] EXCEPT !.status = "cancelled",
                                       !.current = FALSE]
             ELSE contracts[d]]
    /\ transfer' = "none"
    /\ UNCHANGED <<day, reservation, stays, requests, clearance, reviews,
                   lease, worker, preparer, crashes>>

-----------------------------------------------------------------------------
(* Time and restarts                                                       *)

Tick == /\ day < MaxDay
        /\ day' = day + 1
        /\ UNCHANGED <<records, worker, preparer, crashes>>

Crash == /\ crashes < MaxCrashes
         /\ \/ \E w \in Workers : worker[w] # Idle
            \/ \E p \in Preparers : preparer[p] # Idle
         /\ crashes' = crashes + 1
         /\ worker' = [w \in Workers |-> Idle]
         /\ preparer' = [p \in Preparers |-> Idle]
         /\ UNCHANGED <<day, records>>

-----------------------------------------------------------------------------
(* The specification                                                       *)

NoStay == [status |-> "none", start |-> 0, end |-> 0, prev |-> None,
           offer |-> None]

NoContract == [purpose |-> "none", stay |-> None, replaces |-> None,
               status |-> "none", final |-> FALSE, current |-> FALSE]

\* A tenant who moved in; a notarized first contract is active, a wet-signed
\* one is published.
Init ==
    /\ day = 0
    /\ stays = [s \in Stays |-> IF s = 1
          THEN [NoStay EXCEPT !.status = "active", !.end = Term - 1]
          ELSE NoStay]
    /\ \E status \in {"active", "published"} :
          contracts = [c \in Contracts |-> IF c = 1
             THEN [NoContract EXCEPT !.purpose = "first", !.stay = 1,
                                     !.status = status, !.final = TRUE,
                                     !.current = TRUE]
             ELSE NoContract]
    /\ reservation = [status |-> "moveIn", stay |-> 1, pending |-> None,
                      offers |-> [o \in Offers |-> "none"]]
    /\ requests = [q \in Requests |->
          [status |-> "none", stay |-> None, contract |-> None, end |-> 0,
           successor |-> None]]
    /\ reviews = [r \in Reviews |->
          [status |-> "none", outcome |-> "none", execution |-> "none"]]
    /\ clearance = "none" /\ transfer = "none" /\ crashes = 0
    /\ lease = [s \in Stays |-> Nobody]
    /\ worker = [w \in Workers |-> Idle]
    /\ preparer = [p \in Preparers |-> Idle]

Extending(w) ==
    \/ \E q \in Requests : ApproveRead(w, q)
    \/ ApproveCommit(w)

Offering(w) ==
    \/ OfferRead(w) \/ OfferWrite(w)
    \/ \E o \in Offers : WithdrawRead(w, o) \/ AcceptClaim(w, o)
    \/ WithdrawWrite(w) \/ AcceptRenew(w) \/ AcceptRollback(w)

Signing(w) ==
    \/ \E c \in Contracts : \E op \in {"sign", "notarize"} :
          SignRead(w, c, op)
    \/ SignWrite(w)

Ending(w) ==
    \/ ClearRead(w) \/ ClearWrite(w) \/ SettleRead(w) \/ SettleSave(w)
    \/ \E r \in Reviews : ExecuteRead(w, r)
    \/ ExecuteSave(w) \/ HandlerMovesOut(w)

Deciding ==
    \/ OpenReview
    \/ \E r \in Reviews : \E status \in {"open", "closed"} :
          \/ Restate(r, status)
          \/ \E outcome \in {"approved", "none"} : Decide(r, outcome, status)

PreparerNext(p) == PrepareCreate(p) \/ PrepareGenerate(p) \/ PrepareUnlock(p)

Lock == \E p \in Preparers : \E s \in Stays : PrepareLock(p, s)

NightlyActivation == \E c \in Contracts : Activate(c)

Next ==
    \/ CreateExtension
    \/ \E q \in Requests : Reject(q)
    \/ \E gap \in {0, 1} : DirectRenew(gap)
    \/ \E o \in Offers : Decline(o)
    \/ \E w \in Workers :
          Extending(w) \/ Offering(w) \/ Signing(w) \/ Ending(w)
    \/ Lock
    \/ \E p \in Preparers : PreparerNext(p)
    \/ \E s \in Stays : ExpireLease(s)
    \/ NightlyActivation
    \/ \E c \in Contracts : MarkPrinted(c)
    \/ Leave \/ Deciding
    \/ OpenTransfer \/ CloseTransfer \/ CutOver
    \/ Tick \/ Crash

\* Job 19 runs every five minutes and Job 18 every day, whoever holds a lock
\* finishes or loses it, and time passes.  Nobody has to ask, sign or decide.
Fairness ==
    /\ WF_vars(Lock)
    /\ \A p \in Preparers : WF_vars(PreparerNext(p))
    /\ \A s \in Stays : WF_vars(ExpireLease(s))
    /\ WF_vars(NightlyActivation)
    /\ WF_vars(Tick)

Spec == Init /\ [][Next]_vars /\ Fairness

-----------------------------------------------------------------------------
(* Properties                                                              *)

TypeOK ==
    /\ day \in 0..MaxDay
    /\ reservation \in Reservation
    /\ stays \in [Stays -> Stay]
    /\ contracts \in [Contracts -> Contract]
    /\ requests \in [Requests -> Request]
    /\ clearance \in {"none", "open", "approved"}
    /\ reviews \in [Reviews -> Review]
    /\ transfer \in {"none", "open"}
    /\ lease \in [Stays -> Preparers \cup {Nobody}]
    /\ worker \in [Workers -> Job \cup {Idle}]
    /\ preparer \in [Preparers -> Preparation \cup {Idle}]
    /\ crashes \in 0..MaxCrashes

\* A stay may take over once its renewal contract has its final document and
\* its first day has come.
Ready == {s \in Stays : /\ stays[s].start <= day
                        /\ \E c \in Papers(s) : contracts[c].final}

Line == INSTANCE TenancyLine
        WITH inForce <- Active, ready <- Ready,
             planned <- {s \in Stays : stays[s].status = "upcoming"}

\* However extension requests, offers, renewals and departures overlap, one
\* stay is in force, one more at most is planned, it takes over on its day
\* with a final contract, and nothing is planned for who has left
\* (renewStayWorkflow, activateDueRenewalContracts, moveOutStayWorkflow).
ImplementsTenancyLine == Line!LineSpec

\* While the tenant lives there, exactly one contract is current, it is the
\* one of the stay in force, and the reservation points at that stay; after
\* the move-out none is.  Renewals, room transfers and late uploads all touch
\* these three documents.
CurrentContract ==
    LET current == {c \in Contracts : contracts[c].current} IN
    IF MovedIn
       THEN /\ Active = {reservation.stay}
            /\ \E c \in current : /\ current = {c}
                                  /\ contracts[c].stay = reservation.stay
       ELSE current = {}

\* Plans exclude each other: the reservation points at the pending extension
\* request and at no other, and while a room transfer is open there is no
\* pending request, no clearance and no renewal for a later day.
PlansExclude ==
    /\ {q \in Requests : requests[q].status = "pending"} =
          {reservation.pending} \ {None}
    /\ transfer = "open" =>
          /\ reservation.pending = None /\ clearance = "none"
          /\ \A s \in Used : stays[s].status = "upcoming" =>
                stays[s].start <= day

\* An offer that became a stay is answered: it can neither be accepted nor
\* declined again, whatever fails, is retried or is withdrawn around it.
OfferAnsweredOnce ==
    \A s \in Used : stays[s].offer # None =>
        /\ reservation.offers[stays[s].offer] \in {"accepted", "cancelled"}
        /\ \A t \in Used : stays[t].offer = stays[s].offer => t = s

Planned(s) == stays[s].status = "upcoming"

\* Signed by the book: published, and what it replaces is active.
Activatable(c) == /\ MovedIn
                  /\ contracts[c].purpose = "renewal"
                  /\ contracts[c].status = "published"
                  /\ contracts[c].final
                  /\ contracts[contracts[c].replaces].status = "active"
                  /\ stays[contracts[c].stay].start <= MaxDay

\* Neither half of a renewal gets stuck: its contract is generated in the
\* end although preparations crash, stall and overlap, and once it is
\* published and the contract before it is active, it takes effect.
RenewalsProceed ==
    /\ \A s \in Stays :
          Planned(s) ~> \/ ~Planned(s)
                        \/ \E c \in Papers(s) : contracts[c].status # "draft"
    /\ \A c \in Contracts :
          (contracts[c].replaces # None /\ Activatable(c)) ~>
              (contracts[c].replaces = None \/ ~Activatable(c))
=============================================================================
