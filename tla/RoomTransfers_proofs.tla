------------------------ MODULE RoomTransfers_proofs ------------------------
(***************************************************************************)
(* What RoomTransfers guarantees for every number of rooms, beds, tenants, *)
(* transfers and requests that overlap.                                    *)
(***************************************************************************)
EXTENDS RoomTransfers, FiniteSetTheorems, TLAPS

-----------------------------------------------------------------------------
(* The inductive invariant                                                 *)

\* TypeOK without what the counters say.
Shape ==
    /\ today \in Days
    /\ home \in [Tenants -> Beds \cup {None}]
    /\ beds \in [Beds -> Bed]
    /\ record \in [Transfers -> Record]
    /\ worker \in [Workers -> Job \cup {Idle}]

Scheduled(x) == record[x].status # "none"

\* A record is empty or names a tenant and two beds; only an open one holds a
\* bed or is claimed.
RecordInv ==
    \A x \in Transfers :
       /\ ~Scheduled(x) => record[x] = NoRecord
       /\ Scheduled(x) => /\ record[x].tenant \in Tenants
                          /\ record[x].from \in Beds
                          /\ record[x].to \in Beds
       /\ record[x].hold => IsOpen(x)
       /\ record[x].claim.by # None => IsOpen(x)

Departing(j) == j.op = "depart" \/ j.pc = "release"

\* A request in flight is about a scheduled transfer; a departure, and nothing
\* else releases a bed alone, is about a tenant who left.
WorkerInv ==
    \A w \in Workers :
       worker[w] # Idle =>
          /\ Scheduled(worker[w].x)
          /\ Departing(worker[w]) => home[record[worker[w].x].tenant] = None

\* No two transfers hold the same bed, and a free bed points at nobody.
HoldsApart ==
    /\ \A x, y \in Transfers :
          record[x].hold /\ record[y].hold /\ record[x].to = record[y].to
             => x = y
    /\ \A b \in Beds : beds[b].status = "available" <=> beds[b].by = None

BedsInv == BedsAgree /\ HoldsApart

Inv == Shape /\ RecordInv /\ WorkerInv /\ BedsInv

\* Tenants of other rooms who are to move into this one.
Expected(r) == {x \in HoldsIn(r) : Changes(x)}

\* The counter of a room lies between those it counts and the capacity.
Covered(r) ==
    /\ count[r] <= Capacity(r)
    /\ Cardinality(InRoom(r)) + Cardinality(Expected(r)) <= count[r]

CountInv ==
    /\ count \in [Rooms -> Nat]
    /\ \A r \in Rooms : Covered(r)

-----------------------------------------------------------------------------
(* What a step does to one record                                          *)

LEMMA ClaimType ==
    /\ Unclaimed \in Claim
    /\ \A x, w : record[x].claim \in Claim => Unclaim(x, w) \in Claim
BY DEF Unclaimed, Claim, Unclaim

LEMMA NoRecordType == NoRecord \in Record
<1>1. 0 \in Days
  BY TransferAssumption DEF Days
<1> QED
  BY <1>1, ClaimType, Zenon DEF NoRecord, Record

Opened(r) == r.status \in {"scheduled", "action_required"}

\* A paid bill and an acknowledged day stand.
Kept(r, u) ==
    /\ r.bill = "paid" => /\ u.bill = "paid"
                          /\ u.status = "cancelled" => r.status = "cancelled"
    /\ r.acked /\ u.acked => u.docDay = r.docDay

\* The record goes on as the same transfer with the same hold.
Similar(r, u) ==
    /\ Kept(r, u)
    /\ u \in Record
    /\ u.tenant = r.tenant /\ u.from = r.from /\ u.to = r.to
    /\ u.hold = r.hold
    /\ Opened(u) <=> Opened(r)
    /\ ~Opened(r) => u.status = r.status
    /\ u.claim.by # None => Opened(r)
    /\ u = r \/ r.status # "none"

\* A step that moves nobody, holds nothing and releases nothing.
Quiet ==
    /\ UNCHANGED <<home, beds>>
    /\ record' \in [Transfers -> Record]
    /\ \A x \in Transfers : Similar(record[x], record'[x])

LEMMA SimilarClaim ==
    ASSUME NEW r \in Record, NEW c \in Claim, NEW u,
           u = [r EXCEPT !.claim = c],
           r.status # "none", c.by # None => Opened(r)
    PROVE  Similar(r, u)
<1>1. /\ u \in Record /\ u.status = r.status /\ u.claim = c
      /\ u.tenant = r.tenant /\ u.from = r.from /\ u.to = r.to
      /\ u.hold = r.hold /\ u.bill = r.bill /\ u.docDay = r.docDay
  BY Zenon DEF Record
<1> QED
  BY <1>1 DEF Similar, Opened, Kept

LEMMA SimilarAction ==
    ASSUME NEW r \in Record, NEW c \in Claim, NEW u,
           NEW b \in {"none", "unpaid", "paid", "voided"},
           \/ u = [r EXCEPT !.status = "action_required", !.claim = c]
           \/ u = [r EXCEPT !.status = "action_required"] /\ c = r.claim
           \/ /\ u = [r EXCEPT !.bill = b, !.status = "action_required",
                               !.claim = c]
              /\ r.bill # "paid",
           Opened(r)
    PROVE  Similar(r, u)
<1>1. /\ u \in Record /\ u.status = "action_required"
      /\ u.tenant = r.tenant /\ u.from = r.from /\ u.to = r.to
      /\ u.hold = r.hold /\ u.docDay = r.docDay
      /\ u.bill = r.bill \/ r.bill # "paid"
  BY ZenonT(40) DEF Record
<1> QED
  BY <1>1 DEF Similar, Opened, Kept

LEMMA SimilarDay ==
    ASSUME NEW r \in Record, NEW d \in Days, NEW c \in Claim, NEW u,
           u = [r EXCEPT !.day = d, !.docDay = d, !.claim = c],
           Opened(r), ~r.acked
    PROVE  Similar(r, u)
<1>1. /\ u \in Record /\ u.status = r.status
      /\ u.tenant = r.tenant /\ u.from = r.from /\ u.to = r.to
      /\ u.hold = r.hold /\ u.bill = r.bill
  BY Zenon DEF Record
<1> QED
  BY <1>1 DEF Similar, Opened, Kept

LEMMA SimilarPapers ==
    ASSUME NEW r \in Record, NEW u,
           \/ u = [r EXCEPT !.acked = TRUE]
           \/ u = [r EXCEPT !.doc = "cancelled"]
           \/ u = [r EXCEPT !.bill = "paid"],
           r.status # "none", r.claim.by # None => Opened(r)
    PROVE  Similar(r, u)
<1>1. /\ u \in Record /\ u.status = r.status /\ u.claim = r.claim
      /\ u.tenant = r.tenant /\ u.from = r.from /\ u.to = r.to
      /\ u.hold = r.hold /\ u.docDay = r.docDay
      /\ u.bill = r.bill \/ u.bill = "paid"
  BY Zenon DEF Record
<1> QED
  BY <1>1 DEF Similar, Opened, Kept

\* The other records are as they were.
LEMMA OneSimilar ==
    ASSUME Inv, UNCHANGED <<home, beds>>, NEW x \in Transfers, NEW u,
           Similar(record[x], u), record' = [record EXCEPT ![x] = u]
    PROVE  Quiet
<1>1. \A y \in Transfers : Similar(record[y], record[y])
  BY DEF Inv, Shape, RecordInv, Similar, Opened, IsOpen, Kept
<1>2. /\ record'[x] = u
      /\ \A y \in Transfers \ {x} : record'[y] = record[y]
  BY DEF Inv, Shape
<1>3. record' \in [Transfers -> Record]
  BY DEF Inv, Shape, Similar
<1> QED
  BY <1>1, <1>2, <1>3 DEF Quiet

LEMMA NoneSimilar ==
    ASSUME Inv, UNCHANGED <<home, beds, record>>
    PROVE  Quiet
<1>1. \A y \in Transfers : Similar(record[y], record[y])
  BY DEF Inv, Shape, RecordInv, Similar, Opened, IsOpen, Kept
<1> QED
  BY <1>1 DEF Quiet, Inv, Shape

LEMMA WorkingJob ==
    ASSUME Inv, NEW w \in Workers, worker[w] # Idle
    PROVE  /\ worker[w] \in Job /\ worker[w].x \in Transfers
           /\ worker[w].day \in Days
           /\ record[worker[w].x] \in Record
           /\ Scheduled(worker[w].x)
BY DEF Inv, Shape, WorkerInv, Job

LEMMA WorkIsWorking ==
    ASSUME NEW w \in Workers, Work(w)
    PROVE  worker[w] # Idle
<1>1. Idle.op = "idle"
  BY DEF Idle
<1> QED
  BY <1>1, Zenon DEF Work, RefuseComplete, CutoverFails, Cutover, Prepare,
     Reschedule, RefuseReschedule, Decide, Cancel, CancelFails,
     DepartureRelease, DepartureReleaseFails, Resolve, PaySave, Cancelling

LEMMA GiveUpQuiet ==
    ASSUME Inv, NEW w \in Workers, worker[w] # Idle, GiveUp(w)
    PROVE  Quiet
<1> DEFINE x == worker[w].x
           u == [record[x] EXCEPT !.claim = Unclaim(x, w)]
<1>1. record' = [record EXCEPT ![x] = u]
  BY DEF GiveUp
<1>2. Unclaim(x, w) \in Claim
  BY WorkingJob, ClaimType DEF Record
<1>3. Unclaim(x, w).by # None => Opened(record[x])
  BY WorkingJob DEF Unclaim, Unclaimed, Inv, RecordInv, Opened, IsOpen
<1>4. Similar(record[x], u)
  BY <1>2, <1>3, WorkingJob, SimilarClaim DEF Scheduled
<1> QED
  BY <1>1, <1>4, WorkingJob, OneSimilar DEF GiveUp

LEMMA NeedsActionQuiet ==
    ASSUME Inv, NEW w \in Workers, worker[w] # Idle, NeedsAction(w),
           IsOpen(worker[w].x)
    PROVE  Quiet
<1> DEFINE x == worker[w].x
           u == [record[x] EXCEPT !.status = "action_required",
                                  !.claim = Unclaimed]
<1>1. record' = [record EXCEPT ![x] = u]
  BY Zenon DEF NeedsAction
<1>2. Similar(record[x], u)
  BY WorkingJob, ClaimType, SimilarAction, Zenon DEF Opened, IsOpen
<1> QED
  BY <1>1, <1>2, WorkingJob, OneSimilar DEF NeedsAction

LEMMA TakeClaimQuiet ==
    ASSUME Inv, NEW w \in Workers, NEW x \in Transfers, IsOpen(x), NEW job,
           TakeClaim(w, x, job)
    PROVE  Quiet
<1> DEFINE c == [by |-> w, fresh |-> TRUE]
           u == [record[x] EXCEPT !.claim = c]
<1>1. record' = [record EXCEPT ![x] = u]
  BY DEF TakeClaim
<1>2. c \in Claim /\ record[x] \in Record
  BY DEF Claim, Inv, Shape
<1>3. Similar(record[x], u)
  <2> HIDE DEF c
  <2> QED
    BY <1>2, SimilarClaim DEF Opened, IsOpen
<1> QED
  BY <1>1, <1>3, OneSimilar DEF TakeClaim

\* The owner of a claim works on an open transfer.
LEMMA OwnerOpen ==
    ASSUME Inv, NEW w \in Workers, worker[w] # Idle, Owns(w)
    PROVE  IsOpen(worker[w].x)
BY WorkingJob, TransferAssumption DEF Owns, Inv, RecordInv

\* What a request does, but for the four steps that move, hold or release.
LEMMA WorkQuiet ==
    ASSUME Inv, NEW w \in Workers, Work(w)
    PROVE  Quiet \/ Cutover(w) \/ Cancel(w) \/ DepartureRelease(w)
<1> DEFINE x == worker[w].x
<1>1. worker[w] # Idle /\ x \in Transfers /\ record[x] \in Record
  BY WorkIsWorking, WorkingJob
<1>2. CASE RefuseComplete(w) \/ CutoverFails(w)
  BY <1>1, <1>2, OwnerOpen, NeedsActionQuiet, GiveUpQuiet
     DEF RefuseComplete, CutoverFails
<1>3. ASSUME NEW due \in BOOLEAN, Prepare(w, due) PROVE Quiet
  <2> DEFINE u == [record[x] EXCEPT !.bill = "unpaid",
                                    !.status = "action_required",
                                    !.claim = Unclaimed]
  <2>1. CASE /\ record' = [record EXCEPT ![x] = u] /\ UNCHANGED <<home, beds>>
             /\ record[x].bill # "paid"
    <3>1. Similar(record[x], u)
      BY <1>1, <1>3, <2>1, ClaimType, SimilarAction, Zenon
         DEF Opened, IsOpen, Prepare
    <3> HIDE DEF u
    <3> QED
      BY <2>1, <3>1, <1>1, OneSimilar
  <2>2. CASE UNCHANGED <<home, beds, record>>
    BY <2>2, NoneSimilar
  <2>3. CASE NeedsAction(w)
    BY <2>3, <1>1, <1>3, NeedsActionQuiet DEF Prepare
  <2> QED
    BY <1>3, <2>1, <2>2, <2>3 DEF Prepare
<1>4. CASE Reschedule(w)
  <2> DEFINE d == worker[w].day
             u == [record[x] EXCEPT !.day = d, !.docDay = d,
                                    !.claim = Unclaimed]
  <2>1. /\ record' = [record EXCEPT ![x] = u]
        /\ Opened(record[x]) /\ ~record[x].acked
    BY <1>4 DEF Reschedule, MayReschedule, Opened, IsOpen
  <2>2. d \in Days
    BY <1>1, WorkingJob
  <2> HIDE DEF d
  <2>3. Similar(record[x], u)
    BY <1>1, <2>1, <2>2, ClaimType, SimilarDay, Zenon
  <2> QED
    BY <1>1, <1>4, <2>1, <2>3, OneSimilar DEF Reschedule
<1>5. CASE RefuseReschedule(w) \/ CancelFails(w) \/ DepartureReleaseFails(w)
  BY <1>1, <1>5, GiveUpQuiet
     DEF RefuseReschedule, CancelFails, DepartureReleaseFails
<1>6. CASE Decide(w)
  <2> DEFINE u1 == [record[x] EXCEPT !.status = "action_required",
                                     !.claim = Unclaimed]
             u2 == [record[x] EXCEPT !.status = "action_required"]
  <2>1. \/ record' = record
        \/ Owns(w) /\ record' = [record EXCEPT ![x] = u1]
        \/ Owns(w) /\ record' = [record EXCEPT ![x] = u2]
    BY <1>6 DEF Decide
  <2>2. Owns(w) => Similar(record[x], u1) /\ Similar(record[x], u2)
    <3> SUFFICES ASSUME Owns(w)
                 PROVE  Similar(record[x], u1) /\ Similar(record[x], u2)
      OBVIOUS
    <3>1. Opened(record[x]) /\ record[x].claim \in Claim
      BY <1>1, OwnerOpen DEF Opened, IsOpen, Record
    <3>2. Similar(record[x], u1)
      BY <1>1, <3>1, ClaimType, SimilarAction, Zenon
    <3>3. Similar(record[x], u2)
      BY <1>1, <3>1, SimilarAction, Zenon
    <3> QED
      BY <3>2, <3>3
  <2> HIDE DEF u1, u2
  <2> QED
    BY <1>1, <1>6, <2>1, <2>2, OneSimilar, NoneSimilar DEF Decide
<1>7. CASE Resolve(w)
  BY <1>1, <1>7, TakeClaimQuiet, NoneSimilar DEF Resolve, Cancellable
<1>8. CASE PaySave(w)
  <2> DEFINE u == [record[x] EXCEPT !.bill = "paid"]
  <2>1. record' = [record EXCEPT ![x] = u]
    BY <1>8 DEF PaySave
  <2>2. Similar(record[x], u)
    BY <1>1, WorkingJob, SimilarPapers
       DEF Scheduled, Inv, RecordInv, Opened, IsOpen
  <2> QED
    BY <1>1, <1>8, <2>1, <2>2, OneSimilar DEF PaySave
<1> QED
  BY <1>2, <1>3, <1>4, <1>5, <1>6, <1>7, <1>8 DEF Work

\* A sweep finds nothing to free: every pointer is a tenant's or a hold's.
LEMMA SweepQuiet ==
    ASSUME Inv, NEW r \in Rooms, Sweep(r)
    PROVE  Quiet
<1>1. ASSUME NEW b \in Beds, beds[b].by # None, home[beds[b].by] # b,
             RoomOf[b] = r
      PROVE  HoldBacked(b)
  <2>1. /\ beds[b].status \in {"reserved", "occupied"}
        /\ beds[b].by \in Tenants
        /\ beds[b] = [status |-> beds[b].status, by |-> beds[b].by]
    BY <1>1 DEF Inv, Shape, Bed, BedsInv, HoldsApart
  <2>2. beds[b].status # "occupied"
    BY <1>1, <2>1 DEF Inv, BedsInv, BedsAgree
  <2>3. \E x \in Transfers : IsOpen(x) /\ record[x].hold /\ record[x].to = b
    BY <2>1, <2>2 DEF Inv, BedsInv, BedsAgree
  <2> QED
    BY <1>1, <2>3 DEF HoldBacked, HoldsIn
<1>2. beds' = beds
  BY <1>1 DEF Sweep, Inv, Shape
<1> QED
  BY <1>2, NoneSimilar DEF Sweep

LEMMA StartQuiet ==
    ASSUME Inv, NEW w \in Workers, NEW x \in Transfers,
           \/ StartComplete(w, x) \/ StartCancel(w, x) \/ PayRead(w, x)
           \/ \E d \in Days : StartReschedule(w, x, d)
    PROVE  Quiet
<1>1. CASE PayRead(w, x)
  BY <1>1, NoneSimilar DEF PayRead
<1>2. CASE StartComplete(w, x)
  BY <1>2, TakeClaimQuiet DEF StartComplete
<1>3. CASE StartCancel(w, x)
  BY <1>3, TakeClaimQuiet DEF StartCancel, Cancellable
<1>4. ASSUME NEW d \in Days, StartReschedule(w, x, d) PROVE Quiet
  BY <1>4, TakeClaimQuiet DEF StartReschedule
<1> QED
  BY <1>1, <1>2, <1>3, <1>4

LEMMA PaperQuiet ==
    ASSUME Inv, NEW x \in Transfers, Acknowledge(x) \/ Discard(x) \/ Expire(x)
    PROVE  Quiet
<1> DEFINE r == record[x]
<1>1. r \in Record /\ (r.claim.by # None => Opened(r))
  BY DEF Inv, Shape, RecordInv, Opened, IsOpen
<1>2. r.status # "none"
  BY DEF Acknowledge, Discard, Expire, Inv, RecordInv, Scheduled, NoRecord,
     Unclaimed
<1>3. CASE Acknowledge(x)
  <2>1. Similar(r, [r EXCEPT !.acked = TRUE])
    BY <1>1, <1>2, SimilarPapers
  <2> QED
    BY <1>3, <2>1, OneSimilar DEF Acknowledge
<1>4. CASE Discard(x)
  <2>1. Similar(r, [r EXCEPT !.doc = "cancelled"])
    BY <1>1, <1>2, SimilarPapers
  <2> QED
    BY <1>4, <2>1, OneSimilar DEF Discard
<1>5. CASE Expire(x)
  <2> DEFINE c == [r.claim EXCEPT !.fresh = FALSE]
             u == [r EXCEPT !.claim = c]
  <2>1. c \in Claim /\ c.by = r.claim.by
    <3>1. r.claim \in Claim
      BY <1>1 DEF Record
    <3> QED
      BY <3>1 DEF Claim
  <2>2. record' = [record EXCEPT ![x] = u]
    BY <1>5 DEF Expire
  <2> HIDE DEF c
  <2>3. Similar(r, u)
    BY <1>1, <1>2, <2>1, SimilarClaim
  <2> QED
    BY <1>5, <2>2, <2>3, OneSimilar DEF Expire
<1> QED
  BY <1>3, <1>4, <1>5

\* The steps that move, hold or release; everything else is quiet.
Moving ==
    \/ \E x \in Transfers, t \in Tenants, b \in Beds, d \in Days :
          Schedule(x, t, b, d)
    \/ \E w \in Workers : Cutover(w) \/ Cancel(w) \/ DepartureRelease(w)
    \/ \E w \in Workers, t \in Tenants : MoveOut(w, t)

LEMMA NextQuiet ==
    ASSUME Inv, [Next]_vars
    PROVE  Quiet \/ Moving
<1>1. ASSUME NEW w \in Workers, Work(w) \/ Crash(w)
      PROVE  Quiet \/ Moving
  <2>1. CASE Work(w)
    BY <2>1, WorkQuiet DEF Moving
  <2>2. CASE Crash(w)
    BY <2>2, NoneSimilar DEF Crash
  <2> QED
    BY <1>1, <2>1, <2>2
<1>2. CASE NextDay \/ UNCHANGED vars
  BY <1>2, NoneSimilar DEF NextDay, vars
<1> QED
  BY <1>1, <1>2, SweepQuiet, StartQuiet, PaperQuiet DEF Next, Moving

-----------------------------------------------------------------------------
(* What the moving steps do                                                *)

\* The record u of x in place of the old one, the others as they were.
Replaced(x, u) ==
    /\ u \in Record
    /\ record' \in [Transfers -> Record]
    /\ record'[x] = u
    /\ \A y \in Transfers \ {x} : record'[y] = record[y]

LEMMA ReplacedBy ==
    ASSUME Inv, NEW x \in Transfers, NEW u \in Record,
           record' = [record EXCEPT ![x] = u]
    PROVE  Replaced(x, u)
BY DEF Inv, Shape, Replaced

LEMMA ScheduleEffect ==
    ASSUME Inv, NEW x \in Transfers, NEW t \in Tenants, NEW b \in Beds,
           NEW d \in Days, Schedule(x, t, b, d)
    PROVE  /\ record' \in [Transfers -> Record]
           /\ \A y \in Transfers \ {x} : record'[y] = record[y]
           /\ record'[x].status = "scheduled" /\ record'[x].hold
           /\ record'[x].tenant = t /\ record'[x].from = home[t]
           /\ record'[x].to = b /\ record'[x].claim = Unclaimed
           /\ home[t] \in Beds
           /\ ~record[x].hold /\ ~IsOpen(x)
           /\ Kept(record[x], record'[x])
<1> DEFINE u == [NoRecord EXCEPT !.status = "scheduled", !.tenant = t,
                    !.from = home[t], !.to = b, !.day = d, !.hold = TRUE,
                    !.doc = "draft", !.docDay = d]
<1>1. home[t] \in Beds
  BY DEF Schedule, Inv, Shape
<1>2. u \in Record /\ u.status = "scheduled" /\ u.hold = TRUE
      /\ u.tenant = t /\ u.from = home[t] /\ u.to = b
  BY <1>1, NoRecordType, Zenon DEF Record
<1>3. u.claim = Unclaimed
  BY Zenon DEF NoRecord
<1>4. record' = [record EXCEPT ![x] = u]
  BY DEF Schedule
<1> HIDE DEF u
<1>5. Replaced(x, u)
  BY <1>2, <1>4, ReplacedBy
<1>6. /\ ~record[x].hold /\ ~IsOpen(x) /\ record[x].bill # "paid"
      /\ ~record[x].acked
  BY DEF Schedule, Inv, RecordInv, Scheduled, NoRecord, IsOpen
<1> QED
  BY <1>1, <1>2, <1>3, <1>5, <1>6 DEF Replaced, Kept

LEMMA CutoverEffect ==
    ASSUME Inv, NEW w \in Workers, Cutover(w), NEW x, x = worker[w].x
    PROVE  /\ x \in Transfers /\ IsOpen(x) /\ record[x].hold
           /\ record[x].tenant \in Tenants
           /\ record[x].from \in Beds /\ record[x].to \in Beds
           /\ home[record[x].tenant] = record[x].from
           /\ record[x].from # record[x].to
           /\ record' \in [Transfers -> Record]
           /\ \A y \in Transfers \ {x} : record'[y] = record[y]
           /\ record'[x].status = "executed" /\ ~record'[x].hold
           /\ record'[x].tenant = record[x].tenant
           /\ record'[x].from = record[x].from
           /\ record'[x].to = record[x].to
           /\ record'[x].claim = Unclaimed
           /\ Kept(record[x], record'[x])
<1> DEFINE r == record[x]
           a == r.acked /\ r.doc = "draft"
           u == [r EXCEPT !.status = "executed", !.hold = FALSE,
                          !.claim = Unclaimed, !.doc = "current",
                          !.docDay = today, !.acked = a]
<1>1. worker[w] # Idle /\ x \in Transfers /\ r \in Record /\ Scheduled(x)
  BY WorkIsWorking, WorkingJob DEF Work
<1>2. IsOpen(x) /\ r.hold /\ home[r.tenant] = r.from /\ Held(x)
  BY Zenon DEF Cutover, MayCutover
<1>3. r.tenant \in Tenants /\ r.from \in Beds /\ r.to \in Beds
  BY <1>1 DEF Inv, RecordInv
<1>4. beds[r.from].status = "occupied" /\ beds[r.to].status = "reserved"
  <2>1. \A t \in Tenants, b \in Beds :
           home[t] = b => beds[b] = [status |-> "occupied", by |-> t]
    BY DEF Inv, BedsInv, BedsAgree
  <2>2. beds[r.from] = [status |-> "occupied", by |-> r.tenant]
    BY <1>2, <1>3, <2>1
  <2> QED
    BY <1>2, <2>2 DEF Held
<1>5. record' = [record EXCEPT ![x] = u]
  BY Zenon DEF Cutover
<1>6. a \in BOOLEAN /\ today \in Days
  <2>1. today \in Days
    BY DEF Inv, Shape
  <2> QED
    BY <2>1
<1>7. u \in Record /\ u.status = "executed" /\ u.hold = FALSE
      /\ u.tenant = r.tenant /\ u.from = r.from /\ u.to = r.to
      /\ u.claim = Unclaimed /\ u.bill = r.bill
      /\ u.docDay = today /\ u.acked = a
  <2> HIDE DEF a, r
  <2> QED
    BY <1>1, <1>6, ClaimType, ZenonT(40) DEF Record
<1>8. Kept(r, u)
  <2>1. r.acked /\ a => r.docDay = today
    BY Zenon DEF Cutover, MayCutover, Locked
  <2> HIDE DEF a, r, u
  <2> QED
    BY <1>7, <2>1 DEF Kept
<1> HIDE DEF u
<1>9. Replaced(x, u)
  BY <1>1, <1>5, <1>7, ReplacedBy
<1> QED
  BY <1>1, <1>2, <1>3, <1>4, <1>7, <1>8, <1>9 DEF Replaced

LEMMA CancelEffect ==
    ASSUME Inv, NEW w \in Workers, Cancel(w), NEW x, x = worker[w].x
    PROVE  /\ x \in Transfers /\ IsOpen(x)
           /\ record[x].tenant \in Tenants /\ record[x].to \in Beds
           /\ record[x].hold => Held(x)
           /\ record' \in [Transfers -> Record]
           /\ \A y \in Transfers \ {x} : record'[y] = record[y]
           /\ record'[x].status = "cancelled" /\ ~record'[x].hold
           /\ record'[x].tenant = record[x].tenant
           /\ record'[x].from = record[x].from
           /\ record'[x].to = record[x].to
           /\ record'[x].claim = Unclaimed
           /\ Kept(record[x], record'[x])
<1> DEFINE r == record[x]
           b == IF r.bill = "unpaid" THEN "voided" ELSE r.bill
           u == [r EXCEPT !.status = "cancelled", !.hold = FALSE,
                          !.claim = Unclaimed, !.doc = "cancelled",
                          !.bill = b]
<1>1. worker[w] # Idle /\ x \in Transfers /\ r \in Record /\ Scheduled(x)
  BY WorkIsWorking, WorkingJob DEF Work
<1>2. /\ IsOpen(x) /\ (r.hold => Held(x))
      /\ r.bill # "paid" /\ ~r.acked
  BY DEF Cancel, MayCancel
<1>3. r.tenant \in Tenants /\ r.to \in Beds
  BY <1>1 DEF Inv, RecordInv
<1>4. record' = [record EXCEPT ![x] = u]
  BY DEF Cancel
<1>5. b \in {"none", "unpaid", "paid", "voided"}
  BY <1>1 DEF Record
<1>6. u \in Record /\ u.status = "cancelled" /\ u.hold = FALSE
      /\ u.tenant = r.tenant /\ u.from = r.from /\ u.to = r.to
      /\ u.claim = Unclaimed
  <2> HIDE DEF b, r
  <2> QED
    BY <1>1, <1>5, ClaimType, ZenonT(40) DEF Record
<1> HIDE DEF u
<1>7. Replaced(x, u)
  BY <1>1, <1>4, <1>6, ReplacedBy
<1> QED
  BY <1>1, <1>2, <1>3, <1>6, <1>7 DEF Replaced, Kept

LEMMA ReleaseEffect ==
    ASSUME Inv, NEW w \in Workers, DepartureRelease(w), NEW x,
           x = worker[w].x
    PROVE  /\ x \in Transfers /\ IsOpen(x) /\ record[x].hold /\ Held(x)
           /\ record[x].tenant \in Tenants /\ record[x].to \in Beds
           /\ record' \in [Transfers -> Record]
           /\ \A y \in Transfers \ {x} : record'[y] = record[y]
           /\ record'[x].status = record[x].status /\ ~record'[x].hold
           /\ record'[x].tenant = record[x].tenant
           /\ record'[x].from = record[x].from
           /\ record'[x].to = record[x].to
           /\ record'[x].claim = Unclaimed
           /\ Kept(record[x], record'[x])
<1> DEFINE r == record[x]
           u == [r EXCEPT !.hold = FALSE, !.claim = Unclaimed]
<1>1. worker[w] # Idle /\ x \in Transfers /\ r \in Record /\ Scheduled(x)
  BY WorkIsWorking, WorkingJob DEF Work
<1>2. r.hold /\ Held(x) /\ IsOpen(x)
  BY <1>1 DEF DepartureRelease, Inv, RecordInv
<1>3. r.tenant \in Tenants /\ r.to \in Beds
  BY <1>1 DEF Inv, RecordInv
<1>4. record' = [record EXCEPT ![x] = u]
  BY DEF DepartureRelease
<1>5. u \in Record /\ u.status = r.status /\ u.hold = FALSE
      /\ u.tenant = r.tenant /\ u.from = r.from /\ u.to = r.to
      /\ u.claim = Unclaimed /\ u.bill = r.bill /\ u.docDay = r.docDay
  <2> HIDE DEF r
  <2> QED
    BY <1>1, ClaimType, Zenon DEF Record
<1> HIDE DEF u
<1>6. Replaced(x, u)
  BY <1>1, <1>4, <1>5, ReplacedBy
<1> QED
  BY <1>1, <1>2, <1>3, <1>5, <1>6 DEF Replaced, Kept

LEMMA MoveOutEffect ==
    ASSUME Inv, NEW w \in Workers, NEW t \in Tenants, MoveOut(w, t)
    PROVE  /\ home[t] \in Beds
           /\ beds[home[t]] = [status |-> "occupied", by |-> t]
           /\ record' \in [Transfers -> Record]
           /\ \A x \in Transfers : Similar(record[x], record'[x])
<1>1. home[t] \in Beds
  BY DEF MoveOut, Inv, Shape
<1>2. beds[home[t]] = [status |-> "occupied", by |-> t]
  BY <1>1 DEF Inv, BedsInv, BedsAgree
<1>3. ASSUME NEW x \in Transfers PROVE Similar(record[x], record'[x])
  <2> DEFINE r == record[x]
  <2>1. r \in Record /\ (r.claim.by # None => Opened(r))
    BY DEF Inv, Shape, RecordInv, Opened, IsOpen
  <2>2. CASE x \in OpenOf(t) /\ r.doc = "draft"
    <3>1. r.status # "none"
      BY <2>2 DEF OpenOf, IsOpen
    <3>2. record'[x] = [r EXCEPT !.doc = "cancelled"]
      BY <2>2 DEF MoveOut
    <3> QED
      BY <2>1, <3>1, <3>2, SimilarPapers
  <2>3. CASE ~(x \in OpenOf(t) /\ r.doc = "draft")
    <3>1. record'[x] = r
      BY <2>3 DEF MoveOut
    <3> QED
      BY <2>1, <3>1 DEF Similar, Opened, Kept
  <2> QED
    BY <2>2, <2>3
<1>4. record' \in [Transfers -> Record]
  <2>1. \A x \in Transfers : record'[x] \in Record
    BY <1>3 DEF Similar
  <2> QED
    BY <2>1 DEF MoveOut
<1> QED
  BY <1>1, <1>2, <1>3, <1>4

-----------------------------------------------------------------------------
(* The invariant is inductive                                              *)

LEMMA RecordInvStep ==
    ASSUME Inv, [Next]_vars
    PROVE  record' \in [Transfers -> Record] /\ RecordInv'
<1>1. ASSUME \A x \in Transfers : Similar(record[x], record'[x]),
             record' \in [Transfers -> Record]
      PROVE  RecordInv'
  BY <1>1 DEF Inv, RecordInv, Similar, Opened, IsOpen, Scheduled
<1>2. ASSUME NEW x \in Transfers,
             record' \in [Transfers -> Record],
             \A y \in Transfers \ {x} : record'[y] = record[y],
             record'[x].status # "none",
             record'[x].tenant \in Tenants, record'[x].from \in Beds,
             record'[x].to \in Beds, record'[x].hold => IsOpen(x)',
             record'[x].claim = Unclaimed
      PROVE  RecordInv'
  BY <1>2 DEF Inv, RecordInv, IsOpen, Scheduled, Unclaimed
<1>3. CASE Quiet
  BY <1>1, <1>3 DEF Quiet
<1>4. ASSUME NEW x \in Transfers, NEW t \in Tenants, NEW b \in Beds,
             NEW d \in Days, Schedule(x, t, b, d)
      PROVE  record' \in [Transfers -> Record] /\ RecordInv'
  BY <1>2, <1>4, ScheduleEffect DEF IsOpen
<1>5. ASSUME NEW w \in Workers, Cutover(w)
      PROVE  record' \in [Transfers -> Record] /\ RecordInv'
  BY <1>2, <1>5, CutoverEffect DEF IsOpen
<1>6. ASSUME NEW w \in Workers, Cancel(w)
      PROVE  record' \in [Transfers -> Record] /\ RecordInv'
  <2>1. record[worker[w].x].from \in Beds
    BY <1>6, CancelEffect DEF Inv, RecordInv, IsOpen, Scheduled
  <2> QED
    BY <1>2, <1>6, <2>1, CancelEffect DEF IsOpen
<1>7. ASSUME NEW w \in Workers, DepartureRelease(w)
      PROVE  record' \in [Transfers -> Record] /\ RecordInv'
  <2>1. record[worker[w].x].from \in Beds
    BY <1>7, ReleaseEffect DEF Inv, RecordInv, IsOpen, Scheduled
  <2> QED
    BY <1>2, <1>7, <2>1, ReleaseEffect DEF IsOpen
<1>8. ASSUME NEW w \in Workers, NEW t \in Tenants, MoveOut(w, t)
      PROVE  record' \in [Transfers -> Record] /\ RecordInv'
  BY <1>1, <1>8, MoveOutEffect
<1> QED
  BY <1>3, <1>4, <1>5, <1>6, <1>7, <1>8, NextQuiet DEF Moving

\* What every worker is doing after a step.
Continues(v) ==
    \/ worker'[v] = worker[v]
    \/ worker'[v] = Idle
    \/ /\ worker[v] # Idle /\ worker'[v] \in Job
       /\ worker'[v].x = worker[v].x
       /\ Departing(worker'[v]) => Departing(worker[v])

Starts(v) ==
    /\ worker'[v] \in Job
    /\ Scheduled(worker'[v].x)
    /\ Departing(worker'[v]) => home'[record[worker'[v].x].tenant] = None

LEMMA WorkerStep ==
    ASSUME Inv, [Next]_vars
    PROVE  /\ worker' \in [Workers -> Job \cup {Idle}]
           /\ \A v \in Workers : Continues(v) \/ Starts(v)
<1>1. worker \in [Workers -> Job \cup {Idle}]
  BY DEF Inv, Shape
<1>2. CASE UNCHANGED worker
  BY <1>1, <1>2 DEF Continues
<1>3. ASSUME NEW w \in Workers, Done(w)
      PROVE  /\ worker' \in [Workers -> Job \cup {Idle}]
             /\ \A v \in Workers : Continues(v) \/ Starts(v)
  BY <1>1, <1>3 DEF Done, Continues
<1>4. ASSUME NEW w \in Workers, worker[w] \in Job,
             NEW pc \in {"prepare", "cutover", "decide", "commit", "release"},
             pc = "release" => worker[w].op = "depart",
             worker' = [worker EXCEPT ![w].pc = pc]
      PROVE  /\ worker' \in [Workers -> Job \cup {Idle}]
             /\ \A v \in Workers : Continues(v) \/ Starts(v)
  <2> DEFINE j == [worker[w] EXCEPT !.pc = pc]
  <2>1. /\ j \in Job /\ j.x = worker[w].x
        /\ Departing(j) => Departing(worker[w])
    BY <1>4 DEF Job, Departing
  <2>2. worker' = [worker EXCEPT ![w] = j]
    BY <1>4
  <2>3. worker[w] # Idle
    BY <1>4 DEF Job, Idle
  <2> HIDE DEF j
  <2> QED
    BY <1>1, <2>1, <2>2, <2>3 DEF Continues
<1>5. ASSUME NEW w \in Workers, NEW j \in Job, Scheduled(j.x),
             Departing(j) => home'[record[j.x].tenant] = None,
             worker' = [worker EXCEPT ![w] = j]
      PROVE  /\ worker' \in [Workers -> Job \cup {Idle}]
             /\ \A v \in Workers : Continues(v) \/ Starts(v)
  BY <1>1, <1>5 DEF Continues, Starts
<1>6. ASSUME NEW w \in Workers, Work(w)
      PROVE  /\ worker' \in [Workers -> Job \cup {Idle}]
             /\ \A v \in Workers : Continues(v) \/ Starts(v)
  <2>1. worker[w] \in Job
    BY <1>6, WorkIsWorking, WorkingJob
  <2>2. CASE Done(w)
    BY <2>2, <1>3
  <2>3. CASE \E pc \in {"prepare", "cutover", "decide", "commit", "release"} :
                /\ pc = "release" => worker[w].op = "depart"
                /\ worker' = [worker EXCEPT ![w].pc = pc]
    BY <2>1, <2>3, <1>4
  <2> QED
    BY <1>6, <2>2, <2>3, Zenon DEF Work, RefuseComplete, CutoverFails, Cutover,
       Prepare, Reschedule, RefuseReschedule, Decide, Cancel, CancelFails,
       DepartureRelease, DepartureReleaseFails, Resolve, PaySave, GiveUp,
       NeedsAction, TakeClaim, Goto, Cancelling
<1>7. ASSUME NEW w \in Workers, NEW x \in Transfers,
             \/ StartComplete(w, x) \/ StartCancel(w, x) \/ PayRead(w, x)
             \/ \E d \in Days : StartReschedule(w, x, d)
      PROVE  /\ worker' \in [Workers -> Job \cup {Idle}]
             /\ \A v \in Workers : Continues(v) \/ Starts(v)
  <2>1. record[x] \in Record /\ record[x].day \in Days
    BY DEF Inv, Shape, Record
  <2>2. Scheduled(x)
    <3>1. CASE PayRead(w, x)
      BY <3>1 DEF PayRead, Inv, RecordInv, NoRecord
    <3>2. CASE ~PayRead(w, x)
      BY <1>7, <3>2 DEF StartComplete, StartCancel, StartReschedule,
         Cancellable, IsOpen, Scheduled
    <3> QED
      BY <3>1, <3>2
  <2>3. \E op \in {"complete", "cancel", "reschedule", "pay"},
           pc \in {"prepare", "decide", "commit", "save"}, d \in Days :
           worker' = [worker EXCEPT ![w] = [op |-> op, pc |-> pc, x |-> x,
                                            day |-> d]]
    BY <1>7, <2>1 DEF StartComplete, StartCancel, PayRead, StartReschedule,
       TakeClaim
  <2>4. PICK op \in {"complete", "cancel", "reschedule", "pay"},
             pc \in {"prepare", "decide", "commit", "save"}, d \in Days :
           worker' = [worker EXCEPT ![w] = [op |-> op, pc |-> pc, x |-> x,
                                            day |-> d]]
    BY <2>3
  <2> DEFINE j == [op |-> op, pc |-> pc, x |-> x, day |-> d]
  <2>5. j \in Job /\ ~Departing(j) /\ j.x = x
    BY DEF Job, Departing
  <2> HIDE DEF j
  <2> QED
    BY <1>5, <2>2, <2>4, <2>5 DEF j
<1>8. ASSUME NEW w \in Workers, NEW t \in Tenants, MoveOut(w, t)
      PROVE  /\ worker' \in [Workers -> Job \cup {Idle}]
             /\ \A v \in Workers : Continues(v) \/ Starts(v)
  <2>1. CASE UNCHANGED worker
    BY <2>1, <1>2
  <2>2. ASSUME NEW x \in OpenOf(t),
               worker' = [worker EXCEPT ![w] =
                             [op |-> "depart", pc |-> "resolve", x |-> x,
                              day |-> record[x].day]]
        PROVE  /\ worker' \in [Workers -> Job \cup {Idle}]
               /\ \A v \in Workers : Continues(v) \/ Starts(v)
    <3> DEFINE j == [op |-> "depart", pc |-> "resolve", x |-> x,
                     day |-> record[x].day]
    <3>1. x \in Transfers /\ Scheduled(x) /\ record[x].tenant = t
      BY <2>2 DEF OpenOf, IsOpen, Scheduled
    <3>2. record[x].day \in Days
      BY <3>1 DEF Inv, Shape, Record
    <3>3. j \in Job /\ j.x = x
      BY <3>1, <3>2 DEF Job
    <3>4. home'[t] = None
      BY <1>8 DEF MoveOut, Inv, Shape
    <3> HIDE DEF j
    <3> QED
      BY <1>5, <2>2, <3>1, <3>3, <3>4 DEF j
  <2> QED
    BY <1>8, <2>1, <2>2 DEF MoveOut
<1>9. CASE UNCHANGED vars
  BY <1>2, <1>9 DEF vars
<1> QED
  BY <1>2, <1>3, <1>6, <1>7, <1>8, <1>9, Zenon DEF Next, Schedule, Crash,
     Acknowledge, Discard, Expire, Sweep, NextDay

\* A tenant who left stays away, and a transfer keeps its tenant.
LEMMA HomeStep ==
    ASSUME Inv, [Next]_vars
    PROVE  /\ home' \in [Tenants -> Beds \cup {None}]
           /\ \A t \in Tenants : home[t] = None => home'[t] = None
           /\ \A x \in Transfers :
                 Scheduled(x) => record'[x].tenant = record[x].tenant
<1>1. home \in [Tenants -> Beds \cup {None}]
  BY DEF Inv, Shape
<1>2. CASE Quiet
  BY <1>1, <1>2 DEF Quiet, Similar
<1>3. ASSUME NEW x \in Transfers, NEW t \in Tenants, NEW b \in Beds,
             NEW d \in Days, Schedule(x, t, b, d)
      PROVE  /\ home' = home
             /\ \A y \in Transfers :
                   Scheduled(y) => record'[y].tenant = record[y].tenant
  BY <1>3, ScheduleEffect, Zenon DEF Schedule, Scheduled
<1>4. ASSUME NEW w \in Workers, Cutover(w)
      PROVE  /\ home' \in [Tenants -> Beds \cup {None}]
             /\ \A t \in Tenants : home[t] = None => home'[t] = None
             /\ \A y \in Transfers : record'[y].tenant = record[y].tenant
  <2> DEFINE r == record[worker[w].x]
  <2>1. /\ r.tenant \in Tenants /\ r.to \in Beds /\ r.from \in Beds
        /\ home[r.tenant] = r.from
        /\ \A y \in Transfers : record'[y].tenant = record[y].tenant
    BY <1>4, CutoverEffect
  <2>2. home' = [home EXCEPT ![r.tenant] = r.to]
    BY <1>4, Zenon DEF Cutover
  <2> QED
    BY <1>1, <2>1, <2>2, TransferAssumption
<1>5. ASSUME NEW w \in Workers, Cancel(w)
      PROVE  /\ home' = home
             /\ \A y \in Transfers : record'[y].tenant = record[y].tenant
  BY <1>5, CancelEffect, ZenonT(40) DEF Cancel
<1>6. ASSUME NEW w \in Workers, DepartureRelease(w)
      PROVE  /\ home' = home
             /\ \A y \in Transfers : record'[y].tenant = record[y].tenant
  BY <1>6, ReleaseEffect, Zenon DEF DepartureRelease
<1>7. ASSUME NEW w \in Workers, NEW t \in Tenants, MoveOut(w, t)
      PROVE  /\ home' = [home EXCEPT ![t] = None]
             /\ \A y \in Transfers : record'[y].tenant = record[y].tenant
  BY <1>7, MoveOutEffect DEF MoveOut, Similar
<1> QED
  BY <1>1, <1>2, <1>3, <1>4, <1>5, <1>6, <1>7, NextQuiet DEF Moving

LEMMA WorkerInvStep ==
    ASSUME Inv, [Next]_vars
    PROVE  WorkerInv'
<1>1. \A x \in Transfers : Scheduled(x) => record'[x].status # "none"
  <2>1. \A x \in Transfers :
           \/ Similar(record[x], record'[x])
           \/ record'[x].status # "none"
           \/ record'[x] = record[x]
    <3>1. CASE Quiet
      BY <3>1 DEF Quiet
    <3>2. CASE \E x \in Transfers, t \in Tenants, b \in Beds, d \in Days :
                  Schedule(x, t, b, d)
      BY <3>2, ScheduleEffect
    <3>3. ASSUME NEW w \in Workers, Cutover(w)
          PROVE  \A x \in Transfers : \/ record'[x].status # "none"
                                      \/ record'[x] = record[x]
      BY <3>3, CutoverEffect
    <3>4. ASSUME NEW w \in Workers, Cancel(w)
          PROVE  \A x \in Transfers : \/ record'[x].status # "none"
                                      \/ record'[x] = record[x]
      BY <3>4, CancelEffect
    <3>5. ASSUME NEW w \in Workers, DepartureRelease(w)
          PROVE  \A x \in Transfers : \/ record'[x].status # "none"
                                      \/ record'[x] = record[x]
      BY <3>5, ReleaseEffect DEF IsOpen
    <3>6. CASE \E w \in Workers, t \in Tenants : MoveOut(w, t)
      BY <3>6, MoveOutEffect
    <3> QED
      BY <3>1, <3>2, <3>3, <3>4, <3>5, <3>6, NextQuiet DEF Moving
  <2> QED
    BY <2>1 DEF Similar, Opened, Scheduled
<1>2. ASSUME NEW v \in Workers, worker'[v] # Idle
      PROVE  /\ record'[worker'[v].x].status # "none"
             /\ Departing(worker'[v])
                   => home'[record'[worker'[v].x].tenant] = None
  <2>1. CASE /\ worker[v] # Idle /\ worker'[v].x = worker[v].x
             /\ Departing(worker'[v]) => Departing(worker[v])
    <3> DEFINE x == worker[v].x
    <3>1. x \in Transfers /\ Scheduled(x)
      BY <2>1, WorkingJob
    <3>2. record[x].tenant \in Tenants
             /\ record'[x].tenant = record[x].tenant
      BY <3>1, HomeStep DEF Inv, RecordInv
    <3>3. Departing(worker[v]) => home[record[x].tenant] = None
      BY <2>1 DEF Inv, WorkerInv
    <3> QED
      BY <1>1, <2>1, <3>1, <3>2, <3>3, HomeStep DEF Scheduled
  <2>2. CASE Starts(v)
    <3> DEFINE x == worker'[v].x
    <3>1. /\ x \in Transfers /\ Scheduled(x)
          /\ Departing(worker'[v]) => home'[record[x].tenant] = None
      BY <2>2 DEF Starts, Job
    <3>2. record'[x].status # "none" /\ record'[x].tenant = record[x].tenant
      BY <1>1, <3>1, HomeStep
    <3> QED
      BY <3>1, <3>2
  <2> QED
    BY <1>2, <2>1, <2>2, WorkerStep DEF Continues
<1> QED
  BY <1>2 DEF WorkerInv, Scheduled

LEMMA BedFacts ==
    ASSUME Inv
    PROVE  /\ \A t \in Tenants, b \in Beds :
                 home[t] = b => beds[b].status = "occupied" /\ beds[b].by = t
           /\ \A x \in Transfers :
                 record[x].hold => /\ beds[record[x].to].status = "reserved"
                                   /\ beds[record[x].to].by = record[x].tenant
<1>1. ASSUME NEW t \in Tenants, NEW b \in Beds, home[t] = b
      PROVE  beds[b].status = "occupied" /\ beds[b].by = t
  <2>1. beds[b] = [status |-> "occupied", by |-> t]
    BY <1>1 DEF Inv, BedsInv, BedsAgree
  <2> QED
    BY <2>1
<1>2. ASSUME NEW x \in Transfers, record[x].hold
      PROVE  /\ beds[record[x].to].status = "reserved"
             /\ beds[record[x].to].by = record[x].tenant
  <2>1. IsOpen(x) /\ record[x].tenant \in Tenants /\ record[x].to \in Beds
    BY <1>2 DEF Inv, RecordInv, IsOpen, Scheduled
  <2>2. beds[record[x].to] = [status |-> "reserved", by |-> record[x].tenant]
    BY <1>2, <2>1 DEF Inv, BedsInv, BedsAgree
  <2> QED
    BY <2>2
<1> QED
  BY <1>1, <1>2

\* What a room says of its beds and what the stays and holds say, when one
\* bed changes.
LEMMA ScheduleBeds ==
    ASSUME Inv, NEW x \in Transfers, NEW t \in Tenants, NEW b \in Beds,
           NEW d \in Days, Schedule(x, t, b, d)
    PROVE  beds' \in [Beds -> Bed] /\ BedsInv'
<1>1. /\ beds[b].status = "available" /\ home' = home
      /\ beds' = [beds EXCEPT ![b] = [status |-> "reserved", by |-> t]]
  BY DEF Schedule, HoldApplies
<1>2. beds' \in [Beds -> Bed]
  BY <1>1 DEF Inv, Shape, Bed
<1>3. \A y \in Transfers : record[y].hold => record[y].to # b
  BY <1>1, BedFacts
<1>4. \A u \in Tenants : home[u] # b
  BY <1>1, BedFacts
<1>5. HoldsApart'
  <2>1. \A y, z \in Transfers :
           record'[y].hold /\ record'[z].hold /\ record'[y].to = record'[z].to
              => y = z
    BY <1>3, ScheduleEffect DEF Inv, BedsInv, HoldsApart
  <2>2. \A c \in Beds : beds'[c].status = "available" <=> beds'[c].by = None
    BY <1>1, TransferAssumption DEF Inv, Shape, BedsInv, HoldsApart
  <2> QED
    BY <2>1, <2>2 DEF HoldsApart
<1>6. ASSUME NEW c \in Beds, NEW u \in Tenants
      PROVE  /\ beds'[c] = [status |-> "occupied", by |-> u] <=> home'[u] = c
             /\ beds'[c] = [status |-> "reserved", by |-> u]
                   <=> \E y \in Transfers : /\ IsOpen(y)' /\ record'[y].hold
                                            /\ record'[y].tenant = u
                                            /\ record'[y].to = c
  <2>1. CASE c = b
    <3>1. beds'[c] = [status |-> "reserved", by |-> t]
      BY <1>1, <2>1 DEF Inv, Shape
    <3>2. IsOpen(x)' /\ record'[x].hold /\ record'[x].tenant = t
             /\ record'[x].to = c
      BY <2>1, ScheduleEffect DEF IsOpen
    <3>3. \A y \in Transfers : record'[y].hold /\ record'[y].to = c => y = x
      BY <1>3, <2>1, ScheduleEffect
    <3> QED
      BY <1>1, <1>4, <2>1, <3>1, <3>2, <3>3
  <2>2. CASE c # b
    <3>1. beds'[c] = beds[c]
      BY <1>1, <2>2 DEF Inv, Shape
    <3>2. \A y \in Transfers :
             (IsOpen(y)' /\ record'[y].hold /\ record'[y].tenant = u
                 /\ record'[y].to = c)
                <=> (IsOpen(y) /\ record[y].hold /\ record[y].tenant = u
                        /\ record[y].to = c)
      BY <2>2, ScheduleEffect DEF IsOpen
    <3> QED
      BY <1>1, <3>1, <3>2 DEF Inv, BedsInv, BedsAgree
  <2> QED
    BY <2>1, <2>2
<1> QED
  BY <1>2, <1>5, <1>6 DEF BedsInv, BedsAgree

\* Nobody moves and the same transfers hold the same beds.
LEMMA SameBeds ==
    ASSUME Inv, UNCHANGED <<home, beds>>,
           \A y \in Transfers :
              /\ record'[y].hold = record[y].hold
              /\ record[y].hold => /\ IsOpen(y)'
                                   /\ record'[y].tenant = record[y].tenant
                                   /\ record'[y].to = record[y].to
    PROVE  beds' \in [Beds -> Bed] /\ BedsInv'
<1>1. \A y \in Transfers : record[y].hold => IsOpen(y)
  BY DEF Inv, RecordInv
<1>2. HoldsApart'
  BY DEF Inv, BedsInv, HoldsApart
<1>3. ASSUME NEW c \in Beds, NEW u \in Tenants
      PROVE  (\E y \in Transfers : /\ IsOpen(y)' /\ record'[y].hold
                                   /\ record'[y].tenant = u
                                   /\ record'[y].to = c)
                <=> (\E y \in Transfers : /\ IsOpen(y) /\ record[y].hold
                                          /\ record[y].tenant = u
                                          /\ record[y].to = c)
  BY <1>1
<1>4. BedsAgree'
  BY <1>3 DEF Inv, BedsInv, BedsAgree
<1> QED
  BY <1>2, <1>4 DEF BedsInv, Inv, Shape

\* A hold is given up with its bed.
LEMMA FreedBeds ==
    ASSUME Inv, NEW x \in Transfers, record[x].hold, UNCHANGED home,
           beds' = [beds EXCEPT ![record[x].to] = Free],
           ~record'[x].hold,
           \A y \in Transfers \ {x} : record'[y] = record[y]
    PROVE  beds' \in [Beds -> Bed] /\ BedsInv'
<1> DEFINE b == record[x].to
<1>1. /\ Free.status = "available" /\ Free.by = None /\ Free \in Bed
  BY DEF Free, Bed
<1>2. b \in Beds /\ beds[b].status = "reserved"
  BY BedFacts DEF Inv, RecordInv, IsOpen, Scheduled
<1>3. /\ beds' \in [Beds -> Bed] /\ beds'[b] = Free
      /\ \A c \in Beds \ {b} : beds'[c] = beds[c]
  BY <1>1, <1>2 DEF Inv, Shape
<1>4. \A y \in Transfers : record'[y].hold => y # x /\ record'[y].to # b
  BY DEF Inv, BedsInv, HoldsApart
<1>5. \A u \in Tenants : home[u] # b
  BY <1>2, BedFacts
<1>6. HoldsApart'
  <2>1. \A y, z \in Transfers :
           record'[y].hold /\ record'[z].hold /\ record'[y].to = record'[z].to
              => y = z
    BY <1>4 DEF Inv, BedsInv, HoldsApart
  <2>2. \A c \in Beds : beds'[c].status = "available" <=> beds'[c].by = None
    BY <1>1, <1>3 DEF Inv, BedsInv, HoldsApart
  <2> QED
    BY <2>1, <2>2 DEF HoldsApart
<1>7. ASSUME NEW c \in Beds, NEW u \in Tenants
      PROVE  /\ beds'[c] = [status |-> "occupied", by |-> u] <=> home'[u] = c
             /\ beds'[c] = [status |-> "reserved", by |-> u]
                   <=> \E y \in Transfers : /\ IsOpen(y)' /\ record'[y].hold
                                            /\ record'[y].tenant = u
                                            /\ record'[y].to = c
  <2>1. CASE c = b
    <3>1. /\ beds'[c] # [status |-> "occupied", by |-> u]
          /\ beds'[c] # [status |-> "reserved", by |-> u]
      BY <1>1, <1>3, <2>1
    <3>2. ~\E y \in Transfers : record'[y].hold /\ record'[y].to = c
      BY <1>4, <2>1
    <3> QED
      BY <1>5, <2>1, <3>1, <3>2
  <2>2. CASE c # b
    <3>1. \A y \in Transfers :
             (IsOpen(y)' /\ record'[y].hold /\ record'[y].tenant = u
                 /\ record'[y].to = c)
                <=> (IsOpen(y) /\ record[y].hold /\ record[y].tenant = u
                        /\ record[y].to = c)
      BY <1>4, <2>2 DEF IsOpen
    <3> QED
      BY <1>3, <2>2, <3>1 DEF Inv, BedsInv, BedsAgree
  <2> QED
    BY <2>1, <2>2
<1>8. BedsAgree'
  BY ONLY <1>7, Zenon DEF BedsAgree
<1> QED
  BY <1>3, <1>6, <1>8 DEF BedsInv

\* The tenant changes the bed he had for the one he held.
LEMMA CutoverBeds ==
    ASSUME Inv, NEW w \in Workers, Cutover(w)
    PROVE  beds' \in [Beds -> Bed] /\ BedsInv'
<1> DEFINE x == worker[w].x
           t == record[x].tenant
           a == record[x].from
           b == record[x].to
<1>1. /\ x \in Transfers /\ IsOpen(x) /\ record[x].hold
      /\ t \in Tenants /\ a \in Beds /\ b \in Beds /\ home[t] = a /\ a # b
      /\ ~record'[x].hold
      /\ \A y \in Transfers \ {x} : record'[y] = record[y]
  BY CutoverEffect
<1>2. /\ home' = [home EXCEPT ![t] = b]
      /\ beds' = [beds EXCEPT ![a] = Free,
                              ![b] = [status |-> "occupied", by |-> t]]
  BY Zenon DEF Cutover
<1> HIDE DEF x, t, a, b
<1>3. /\ Free.status = "available" /\ Free.by = None /\ Free \in Bed
      /\ [status |-> "occupied", by |-> t] \in Bed
  BY <1>1 DEF Free, Bed
<1>4. /\ beds' \in [Beds -> Bed] /\ beds'[a] = Free
      /\ beds'[b] = [status |-> "occupied", by |-> t]
      /\ \A c \in Beds \ {a, b} : beds'[c] = beds[c]
  BY <1>1, <1>2, <1>3 DEF Inv, Shape
<1>5. /\ home'[t] = b
      /\ \A u \in Tenants \ {t} : home'[u] = home[u]
  BY <1>1, <1>2 DEF Inv, Shape
<1>6. \A u \in Tenants : home[u] = a => u = t
  BY <1>1, BedFacts
<1>7. /\ beds[a].status = "occupied"
      /\ beds[b].status = "reserved"
  BY <1>1, BedFacts DEF b
<1>8. \A u \in Tenants : home[u] # b
  BY <1>1, <1>7, BedFacts
<1>9. \A y \in Transfers :
         record'[y].hold => y # x /\ record'[y].to # a /\ record'[y].to # b
  <2>1. \A y \in Transfers : record[y].hold => record[y].to # a
    BY <1>7, BedFacts
  <2>2. \A y \in Transfers : record[y].hold /\ record[y].to = b => y = x
    BY <1>1 DEF Inv, BedsInv, HoldsApart, b
  <2> QED
    BY <1>1, <2>1, <2>2
<1>10. HoldsApart'
  <2>1. \A y, z \in Transfers :
           record'[y].hold /\ record'[z].hold /\ record'[y].to = record'[z].to
              => y = z
    BY <1>1, <1>9 DEF Inv, BedsInv, HoldsApart
  <2>2. \A c \in Beds : beds'[c].status = "available" <=> beds'[c].by = None
    BY <1>1, <1>3, <1>4, TransferAssumption DEF Inv, BedsInv, HoldsApart
  <2> QED
    BY <2>1, <2>2 DEF HoldsApart
<1>11. ASSUME NEW c \in Beds, NEW u \in Tenants
      PROVE  /\ beds'[c] = [status |-> "occupied", by |-> u] <=> home'[u] = c
             /\ beds'[c] = [status |-> "reserved", by |-> u]
                   <=> \E y \in Transfers : /\ IsOpen(y)' /\ record'[y].hold
                                            /\ record'[y].tenant = u
                                            /\ record'[y].to = c
  <2>1. CASE c = a
    <3>1. home'[u] # c
      BY <1>1, <1>5, <1>6, <2>1
    <3>2. /\ beds'[c] # [status |-> "occupied", by |-> u]
          /\ beds'[c] # [status |-> "reserved", by |-> u]
      BY <1>3, <1>4, <2>1
    <3>3. ~\E y \in Transfers : record'[y].hold /\ record'[y].to = c
      BY <1>9, <2>1
    <3> QED
      BY <3>1, <3>2, <3>3
  <2>2. CASE c = b
    <3>1. home'[u] = c <=> u = t
      BY <1>5, <1>8, <2>2
    <3>2. beds'[c] = [status |-> "occupied", by |-> u] <=> u = t
      BY <1>4, <2>2
    <3>3. beds'[c] # [status |-> "reserved", by |-> u]
      BY <1>4, <2>2
    <3> QED
      BY <1>9, <2>2, <3>1, <3>2, <3>3
  <2>3. CASE c \notin {a, b}
    <3>1. \A y \in Transfers :
             (IsOpen(y)' /\ record'[y].hold /\ record'[y].tenant = u
                 /\ record'[y].to = c)
                <=> (IsOpen(y) /\ record[y].hold /\ record[y].tenant = u
                        /\ record[y].to = c)
      BY <1>1, <1>9, <2>3 DEF IsOpen, b
    <3>2. home'[u] = c <=> home[u] = c
      BY <1>1, <1>5, <2>3
    <3>3. beds'[c] = beds[c]
      BY <1>4, <2>3
    <3>4. /\ beds[c] = [status |-> "occupied", by |-> u] <=> home[u] = c
          /\ beds[c] = [status |-> "reserved", by |-> u]
                <=> \E y \in Transfers : /\ IsOpen(y) /\ record[y].hold
                                         /\ record[y].tenant = u
                                         /\ record[y].to = c
      BY DEF Inv, BedsInv, BedsAgree
    <3> QED
      BY <3>1, <3>2, <3>3, <3>4
  <2> QED
    BY <2>1, <2>2, <2>3
<1> QED
  BY <1>4, <1>10, <1>11 DEF BedsInv, BedsAgree

LEMMA MoveOutBeds ==
    ASSUME Inv, NEW w \in Workers, NEW t \in Tenants, MoveOut(w, t)
    PROVE  beds' \in [Beds -> Bed] /\ BedsInv'
<1> DEFINE a == home[t]
<1>1. /\ a \in Beds /\ beds[a].status = "occupied"
      /\ \A x \in Transfers : Similar(record[x], record'[x])
  BY MoveOutEffect, BedFacts
<1>2. /\ home' = [home EXCEPT ![t] = None]
      /\ beds' = [beds EXCEPT ![a] = Free]
  BY DEF MoveOut
<1> HIDE DEF a
<1>3. /\ Free.status = "available" /\ Free.by = None /\ Free \in Bed
  BY DEF Free, Bed
<1>4. /\ beds' \in [Beds -> Bed] /\ beds'[a] = Free
      /\ \A c \in Beds \ {a} : beds'[c] = beds[c]
  BY <1>1, <1>2, <1>3 DEF Inv, Shape
<1>5. /\ home'[t] = None
      /\ \A u \in Tenants \ {t} : home'[u] = home[u]
  BY <1>2 DEF Inv, Shape
<1>6. \A u \in Tenants : home[u] = a => u = t
  BY <1>1, BedFacts DEF a
<1>7. \A y \in Transfers :
         /\ record'[y].hold = record[y].hold
         /\ record'[y].to = record[y].to
         /\ record'[y].tenant = record[y].tenant
         /\ IsOpen(y)' <=> IsOpen(y)
  BY <1>1 DEF Similar, Opened, IsOpen
<1>8. \A y \in Transfers : record[y].hold => record[y].to # a
  BY <1>1, BedFacts
<1>9. HoldsApart'
  <2>1. \A y, z \in Transfers :
           record'[y].hold /\ record'[z].hold /\ record'[y].to = record'[z].to
              => y = z
    BY <1>7 DEF Inv, BedsInv, HoldsApart
  <2>2. \A c \in Beds : beds'[c].status = "available" <=> beds'[c].by = None
    BY <1>3, <1>4 DEF Inv, BedsInv, HoldsApart
  <2> QED
    BY <2>1, <2>2 DEF HoldsApart
<1>10. ASSUME NEW c \in Beds, NEW u \in Tenants
      PROVE  /\ beds'[c] = [status |-> "occupied", by |-> u] <=> home'[u] = c
             /\ beds'[c] = [status |-> "reserved", by |-> u]
                   <=> \E y \in Transfers : /\ IsOpen(y)' /\ record'[y].hold
                                            /\ record'[y].tenant = u
                                            /\ record'[y].to = c
  <2>1. CASE c = a
    <3>1. home'[u] # c
      BY <1>5, <1>6, <2>1, TransferAssumption
    <3>2. /\ beds'[c] # [status |-> "occupied", by |-> u]
          /\ beds'[c] # [status |-> "reserved", by |-> u]
      BY <1>3, <1>4, <2>1
    <3>3. ~\E y \in Transfers : record'[y].hold /\ record'[y].to = c
      BY <1>7, <1>8, <2>1
    <3> QED
      BY <3>1, <3>2, <3>3
  <2>2. CASE c # a
    <3>1. home'[u] = c <=> home[u] = c
      BY <1>5, <2>2, TransferAssumption DEF a
    <3>2. beds'[c] = beds[c]
      BY <1>4, <2>2
    <3>3. /\ beds[c] = [status |-> "occupied", by |-> u] <=> home[u] = c
          /\ beds[c] = [status |-> "reserved", by |-> u]
                <=> \E y \in Transfers : /\ IsOpen(y) /\ record[y].hold
                                         /\ record[y].tenant = u
                                         /\ record[y].to = c
      BY DEF Inv, BedsInv, BedsAgree
    <3> QED
      BY <1>7, <3>1, <3>2, <3>3
  <2> QED
    BY <2>1, <2>2
<1>11. BedsAgree'
  BY ONLY <1>10 DEF BedsAgree
<1> QED
  BY <1>4, <1>9, <1>11 DEF BedsInv

LEMMA BedsStep ==
    ASSUME Inv, [Next]_vars
    PROVE  beds' \in [Beds -> Bed] /\ BedsInv'
<1>1. CASE Quiet
  <2>1. \A y \in Transfers :
           /\ record'[y].hold = record[y].hold
           /\ record[y].hold => /\ IsOpen(y)'
                                /\ record'[y].tenant = record[y].tenant
                                /\ record'[y].to = record[y].to
    BY <1>1 DEF Quiet, Similar, Opened, IsOpen, Inv, RecordInv
  <2> QED
    BY <1>1, <2>1, SameBeds DEF Quiet
<1>2. ASSUME NEW w \in Workers, Cancel(w)
      PROVE  beds' \in [Beds -> Bed] /\ BedsInv'
  <2> DEFINE x == worker[w].x
  <2>1. /\ x \in Transfers /\ ~record'[x].hold
        /\ \A y \in Transfers \ {x} : record'[y] = record[y]
    BY <1>2, CancelEffect
  <2>2. CASE record[x].hold
    <3>1. UNCHANGED home /\ beds' = [beds EXCEPT ![record[x].to] = Free]
      BY <1>2, <2>2 DEF Cancel
    <3> QED
      BY <2>1, <2>2, <3>1, FreedBeds
  <2>3. CASE ~record[x].hold
    <3>1. UNCHANGED <<home, beds>>
      BY <1>2, <2>3 DEF Cancel
    <3>2. record[x].hold = FALSE /\ record'[x].hold = FALSE
      BY <1>2, <2>1, <2>3, RecordInvStep DEF Inv, Shape, Record
    <3>3. \A y \in Transfers :
             /\ record'[y].hold = record[y].hold
             /\ record[y].hold => /\ IsOpen(y)'
                                  /\ record'[y].tenant = record[y].tenant
                                  /\ record'[y].to = record[y].to
      BY <2>1, <3>2 DEF IsOpen, Inv, RecordInv
    <3> QED
      BY <3>1, <3>3, SameBeds
  <2> QED
    BY <2>2, <2>3
<1>3. ASSUME NEW w \in Workers, DepartureRelease(w)
      PROVE  beds' \in [Beds -> Bed] /\ BedsInv'
  <2> DEFINE x == worker[w].x
  <2>1. /\ x \in Transfers /\ record[x].hold /\ ~record'[x].hold
        /\ \A y \in Transfers \ {x} : record'[y] = record[y]
    BY <1>3, ReleaseEffect
  <2>2. UNCHANGED home /\ beds' = [beds EXCEPT ![record[x].to] = Free]
    BY <1>3 DEF DepartureRelease
  <2> QED
    BY <2>1, <2>2, FreedBeds
<1> QED
  BY <1>1, <1>2, <1>3, ScheduleBeds, CutoverBeds, MoveOutBeds, NextQuiet
     DEF Moving

LEMMA InvStep ==
    ASSUME Inv, [Next]_vars
    PROVE  Inv'
<1>1. today' \in Days
  <2>1. today \in Days
    BY DEF Inv, Shape
  <2>2. CASE NextDay
    BY <2>1, <2>2, TransferAssumption DEF NextDay, Days
  <2>3. CASE UNCHANGED today
    BY <2>1, <2>3
  <2>4. ASSUME NEW w \in Workers, Work(w) PROVE UNCHANGED today
    BY <2>4, Zenon DEF Work, RefuseComplete, CutoverFails, Cutover, Prepare,
       Reschedule, RefuseReschedule, Decide, Cancel, CancelFails,
       DepartureRelease, DepartureReleaseFails, Resolve, PaySave, GiveUp,
       NeedsAction, TakeClaim
  <2>5. ASSUME NEW w \in Workers, NEW x \in Transfers,
               \/ StartComplete(w, x) \/ StartCancel(w, x) \/ PayRead(w, x)
               \/ \E d \in Days : StartReschedule(w, x, d)
        PROVE  UNCHANGED today
    BY <2>5 DEF StartComplete, StartCancel, PayRead, StartReschedule,
       TakeClaim
  <2> QED
    BY <2>2, <2>3, <2>4, <2>5, Zenon
       DEF Next, vars, Schedule, Crash, MoveOut, Acknowledge, Discard,
           Expire, Sweep
<1> QED
  BY <1>1, RecordInvStep, WorkerStep, WorkerInvStep, HomeStep, BedsStep
     DEF Inv, Shape

LEMMA InitInv ==
    ASSUME Init
    PROVE  Inv
<1>1. /\ NoRecord.status = "none" /\ NoRecord.hold = FALSE
      /\ NoRecord.claim.by = None
  BY DEF NoRecord, Unclaimed
<1>2. /\ Free.status = "available" /\ Free.by = None /\ Free \in Bed
  BY DEF Free, Bed
<1>3. record \in [Transfers -> Record]
  BY NoRecordType DEF Init
<1>4. \A x \in Transfers : record[x] = NoRecord
  BY DEF Init
<1>5. RecordInv /\ WorkerInv
  BY <1>1, <1>4 DEF RecordInv, WorkerInv, Scheduled, Init
<1>6. ASSUME NEW t \in Tenants
      PROVE  /\ home[t] \in Beds
             /\ beds[home[t]] = [status |-> "occupied", by |-> t]
  <2>1. home[t] \in Beds
    BY DEF Init
  <2> DEFINE b == home[t]
             c == CHOOSE u \in Tenants : home[u] = b
  <2>2. c \in Tenants /\ home[c] = b
    <3> HIDE DEF b
    <3>1. \E u \in Tenants : home[u] = b
      BY DEF b
    <3> QED
      BY <3>1
  <2>3. c = t
    BY <2>2 DEF Init
  <2>4. beds[b] = [status |-> "occupied", by |-> c]
    <3> HIDE DEF b
    <3>1. (\E u \in Tenants : home[u] = b) /\ b \in Beds
      BY <2>1 DEF b
    <3> QED
      BY <3>1, Zenon DEF Init
  <2> HIDE DEF c
  <2> QED
    BY <2>1, <2>3, <2>4
<1>7. \A b \in Beds : (~\E t \in Tenants : home[t] = b) => beds[b] = Free
  BY DEF Init
<1>8. \A b \in Beds :
         \/ \E t \in Tenants :
               home[t] = b /\ beds[b] = [status |-> "occupied", by |-> t]
         \/ beds[b] = Free /\ \A t \in Tenants : home[t] # b
  BY <1>6, <1>7
<1>9. beds \in [Beds -> Bed]
  <2>1. ASSUME NEW b \in Beds PROVE beds[b] \in Bed
    <3>1. ASSUME NEW t \in Tenants,
                 beds[b] = [status |-> "occupied", by |-> t]
          PROVE  beds[b] \in Bed
      BY <3>1 DEF Bed
    <3> QED
      BY <1>2, <1>8, <3>1
  <2>2. \E f : beds = [b \in Beds |-> f[b]]
    <3> DEFINE f == [b \in Beds |->
                 IF \E t \in Tenants : home[t] = b
                    THEN [status |-> "occupied",
                          by |-> CHOOSE t \in Tenants : home[t] = b]
                    ELSE Free]
    <3>1. beds = f
      BY Zenon DEF Init
    <3>2. f = [b \in Beds |-> f[b]]
      OBVIOUS
    <3> HIDE DEF f
    <3> QED
      BY <3>1, <3>2, Zenon
  <2> QED
    BY <2>1, <2>2
<1>10. HoldsApart
  <2>1. ASSUME NEW b \in Beds
        PROVE  beds[b].status = "available" <=> beds[b].by = None
    <3>1. CASE beds[b] = Free
      BY <1>2, <3>1
    <3>2. ASSUME NEW t \in Tenants,
                 beds[b] = [status |-> "occupied", by |-> t]
          PROVE  beds[b].status # "available" /\ beds[b].by # None
      BY <3>2, TransferAssumption
    <3> QED
      BY <1>8, <3>1, <3>2
  <2> QED
    BY <1>1, <1>4, <2>1 DEF HoldsApart
<1>11. BedsAgree
  <2>1. \A x \in Transfers : record[x].hold = FALSE
    BY <1>1, <1>4
  <2>2. ASSUME NEW b \in Beds, NEW t \in Tenants
        PROVE  beds[b] # [status |-> "reserved", by |-> t]
    <3>1. beds[b].status \in {"available", "occupied"}
      <4>1. CASE beds[b] = Free
        BY <1>2, <4>1
      <4>2. ASSUME NEW u \in Tenants,
                   beds[b] = [status |-> "occupied", by |-> u]
            PROVE  beds[b].status = "occupied"
        BY <4>2
      <4> QED
        BY <1>8, <4>1, <4>2
    <3> QED
      BY <3>1
  <2>3. ASSUME NEW b \in Beds, NEW t \in Tenants
        PROVE  beds[b] = [status |-> "occupied", by |-> t] <=> home[t] = b
    <3>1. CASE beds[b] = Free /\ \A u \in Tenants : home[u] # b
      BY <1>2, <3>1
    <3>2. ASSUME NEW u \in Tenants, home[u] = b,
                 beds[b] = [status |-> "occupied", by |-> u]
          PROVE  beds[b] = [status |-> "occupied", by |-> t] <=> home[t] = b
      BY <1>6, <3>2 DEF Init
    <3> QED
      BY <1>8, <3>1, <3>2
  <2> QED
    BY <2>1, <2>2, <2>3 DEF BedsAgree
<1>12. /\ today \in Days /\ home \in [Tenants -> Beds \cup {None}]
       /\ worker \in [Workers -> Job \cup {Idle}]
  <2>1. 0 \in Days
    BY TransferAssumption DEF Days
  <2> QED
    BY <2>1 DEF Init
<1> QED
  BY <1>3, <1>5, <1>9, <1>10, <1>11, <1>12 DEF Inv, Shape, BedsInv

LEMMA InvAlways == Spec => []Inv
<1>1. Inv /\ [Next]_vars => Inv'
  BY InvStep
<1> QED
  BY InitInv, <1>1, PTL DEF Spec

\* A bed is reserved exactly for the open transfer that holds it and occupied
\* exactly by the tenant whose Stay is there, for every number of rooms, beds,
\* transfers and requests, however they stall, fail or overtake each other.
THEOREM BedsAgreeAlways == Spec => []BedsAgree
<1>1. Inv => BedsAgree
  BY DEF Inv, BedsInv
<1> QED
  BY InvAlways, <1>1, PTL

-----------------------------------------------------------------------------
(* The life cycle                                                          *)

LEMMA PromiseOf ==
    ASSUME NEW x \in Transfers
    PROVE  /\ Promises[x].phase = Phase(x)
           /\ Promises[x].tenant = record[x].tenant
           /\ Promises[x].bed = record[x].to
           /\ Promises[x].held = record[x].hold
BY DEF Promises

LEMMA OpenPhase ==
    ASSUME Inv, NEW x \in Transfers
    PROVE  Phase(x) = "open" <=> IsOpen(x)
<1>1. record[x].status \in {"none", "scheduled", "action_required",
                            "executed", "cancelled"}
  BY DEF Inv, Shape, Record
<1> QED
  BY <1>1 DEF Phase, IsOpen

LEMMA SamePromises ==
    ASSUME \A x \in Transfers : Similar(record[x], record'[x])
    PROVE  Promises' = Promises
BY DEF Promises, Phase, IsOpen, Similar, Opened

\* One transfer ends or gives its bed up.
LEMMA OnePromise ==
    ASSUME Inv, [Next]_vars, NEW x \in Transfers,
           \A y \in Transfers \ {x} : record'[y] = record[y],
           record'[x].tenant = record[x].tenant,
           record'[x].to = record[x].to,
           ~record'[x].hold, NEW phase, Phase(x)' = phase
    PROVE  Lifecycle!WithoutHold(x, phase)
<1> DEFINE p == [phase |-> phase, tenant |-> Promises[x].tenant,
                 bed |-> Promises[x].bed, held |-> FALSE]
<1>1. record'[x] \in Record
  BY RecordInvStep
<1>2. record'[x].hold = FALSE
  BY <1>1, Zenon DEF Record
<1>3. \A y \in Transfers \ {x} : Phase(y)' = Phase(y)
  BY DEF Phase, IsOpen
<1>4. Promises' = [Promises EXCEPT ![x] = p]
  BY <1>2, <1>3, PromiseOf DEF Promises
<1> QED
  BY <1>4 DEF Lifecycle!WithoutHold

LEMMA HoldBoolean ==
    ASSUME Inv, [Next]_vars, NEW x \in Transfers
    PROVE  record'[x].hold \in BOOLEAN
<1>1. record'[x] \in Record
  BY RecordInvStep
<1> QED
  BY <1>1, Zenon DEF Record

LEMMA LifecycleStep ==
    ASSUME Inv, Inv', [Next]_vars
    PROVE  [Lifecycle!Next]_(Lifecycle!vars)
<1>1. CASE Quiet
  BY <1>1, SamePromises DEF Quiet, Lifecycle!vars
<1>2. ASSUME NEW x \in Transfers, NEW t \in Tenants, NEW b \in Beds,
             NEW d \in Days, Schedule(x, t, b, d)
      PROVE  Lifecycle!Open(x, t, b)
  <2>1. /\ record[x].status = "none" /\ home[t] # None /\ home' = home
        /\ beds[b].status = "available"
        /\ \A y \in Transfers : ~(IsOpen(y) /\ record[y].tenant = t)
    BY <1>2 DEF Schedule, HoldApplies
  <2>2. Promises[x].phase = "none"
    BY <2>1, PromiseOf DEF Phase, IsOpen
  <2>3. ~Lifecycle!Promised(b)
    BY <2>1, BedFacts, PromiseOf DEF Lifecycle!Promised
  <2>4. \A y \in Transfers :
           ~(Promises[y].phase = "open" /\ Promises[y].tenant = t)
    BY <2>1, PromiseOf, OpenPhase
  <2>5. Promises' = [Promises EXCEPT ![x] =
                        [phase |-> "open", tenant |-> t, bed |-> b,
                         held |-> TRUE]]
    <3>1. /\ record'[x].hold = TRUE /\ Phase(x)' = "open"
          /\ record'[x].tenant = t /\ record'[x].to = b
          /\ \A y \in Transfers \ {x} : record'[y] = record[y]
      BY <1>2, ScheduleEffect, HoldBoolean DEF Phase, IsOpen
    <3>2. \A y \in Transfers \ {x} : Phase(y)' = Phase(y)
      BY <3>1 DEF Phase, IsOpen
    <3> QED
      BY <3>1, <3>2 DEF Promises
  <2> QED
    BY <2>1, <2>2, <2>3, <2>4, <2>5 DEF Lifecycle!Open
<1>3. ASSUME NEW w \in Workers, NEW x \in Transfers, x = worker[w].x,
             Cutover(w)
      PROVE  Lifecycle!Execute(x)
  <2>1. /\ IsOpen(x) /\ record[x].hold /\ record[x].from \in Beds
        /\ home[record[x].tenant] = record[x].from
        /\ \A y \in Transfers \ {x} : record'[y] = record[y]
        /\ record'[x].status = "executed" /\ ~record'[x].hold
        /\ record'[x].tenant = record[x].tenant
        /\ record'[x].to = record[x].to
    BY <1>3, CutoverEffect
  <2>2. home' = [home EXCEPT ![record[x].tenant] = record[x].to]
    BY <1>3, Zenon DEF Cutover
  <2>3. Lifecycle!WithoutHold(x, "executed")
    <3>1. Phase(x)' = "executed"
      BY <2>1 DEF Phase, IsOpen
    <3> QED
      BY <2>1, <3>1, OnePromise
  <2>4. home[record[x].tenant] # None
    BY <2>1, TransferAssumption
  <2>5. /\ Promises[x].phase = "open" /\ Promises[x].held
        /\ Promises[x].tenant = record[x].tenant
        /\ Promises[x].bed = record[x].to
    BY <2>1, PromiseOf, OpenPhase
  <2> QED
    BY <2>2, <2>3, <2>4, <2>5, Zenon DEF Lifecycle!Execute
<1>4. ASSUME NEW w \in Workers, NEW x \in Transfers, x = worker[w].x,
             Cancel(w)
      PROVE  Lifecycle!Cancel(x)
  <2>1. /\ IsOpen(x)
        /\ \A y \in Transfers \ {x} : record'[y] = record[y]
        /\ record'[x].status = "cancelled" /\ ~record'[x].hold
        /\ record'[x].tenant = record[x].tenant
        /\ record'[x].to = record[x].to
    BY <1>4, CancelEffect
  <2>2. home' = home
    BY <1>4 DEF Cancel
  <2>3. Lifecycle!WithoutHold(x, "cancelled")
    <3>1. Phase(x)' = "cancelled"
      BY <2>1 DEF Phase, IsOpen
    <3> QED
      BY <2>1, <3>1, OnePromise
  <2> QED
    BY <2>1, <2>2, <2>3, PromiseOf, OpenPhase DEF Lifecycle!Cancel
<1>5. ASSUME NEW w \in Workers, NEW x \in Transfers, x = worker[w].x,
             DepartureRelease(w)
      PROVE  Lifecycle!Release(x)
  <2>1. /\ IsOpen(x) /\ record[x].hold
        /\ \A y \in Transfers \ {x} : record'[y] = record[y]
        /\ record'[x].status = record[x].status /\ ~record'[x].hold
        /\ record'[x].tenant = record[x].tenant
        /\ record'[x].to = record[x].to
    BY <1>5, ReleaseEffect
  <2>2. home' = home
    BY <1>5 DEF DepartureRelease
  <2>3. home[record[x].tenant] = None
    <3>1. worker[w] # Idle /\ Departing(worker[w])
      BY <1>5, WorkIsWorking DEF Work, DepartureRelease, Cancelling,
         Departing
    <3> QED
      BY <1>5, <3>1 DEF Inv, WorkerInv
  <2>4. Lifecycle!WithoutHold(x, "open")
    <3>1. Phase(x)' = "open"
      BY <2>1 DEF Phase, IsOpen
    <3> QED
      BY <2>1, <3>1, OnePromise
  <2> QED
    BY <2>1, <2>2, <2>3, <2>4, PromiseOf, OpenPhase DEF Lifecycle!Release
<1>6. ASSUME NEW w \in Workers, NEW t \in Tenants, MoveOut(w, t)
      PROVE  Lifecycle!Leave(t)
  BY <1>6, MoveOutEffect, SamePromises DEF MoveOut, Lifecycle!Leave
<1>7. ASSUME NEW w \in Workers, Cutover(w) \/ Cancel(w) \/ DepartureRelease(w)
      PROVE  worker[w].x \in Transfers
  BY <1>7, WorkIsWorking, WorkingJob DEF Work
<1> QED
  BY <1>1, <1>2, <1>3, <1>4, <1>5, <1>6, <1>7, NextQuiet
     DEF Moving, Lifecycle!Next

\* Whatever overlaps, stalls, expires or fails between the documents, a
\* tenant is moved once, by the step that ends his transfer, into the one bed
\* that was kept for him, and a transfer ends once.
THEOREM TransfersImplementLifecycle == Spec => ImplementsLifecycle
<1>1. Init => Lifecycle!Init
  <2>1. ASSUME Init
        PROVE  Promises = [x \in Transfers |->
                              [phase |-> "none", tenant |-> None,
                               bed |-> None, held |-> FALSE]]
    <3>1. /\ NoRecord.status = "none" /\ NoRecord.tenant = None
          /\ NoRecord.to = None /\ NoRecord.hold = FALSE
      BY DEF NoRecord
    <3>2. \A x \in Transfers : record[x] = NoRecord
      BY <2>1 DEF Init
    <3> QED
      BY <3>1, <3>2 DEF Promises, Phase, IsOpen
  <2> QED
    BY <2>1 DEF Init, Lifecycle!Init
<1>2. Inv /\ Inv' /\ [Next]_vars => [Lifecycle!Next]_(Lifecycle!vars)
  BY LifecycleStep
<1> QED
  BY <1>1, <1>2, InvAlways, PTL
     DEF Spec, ImplementsLifecycle, Lifecycle!Spec

-----------------------------------------------------------------------------
(* The counters                                                            *)

BedsOf(r) == {b \in Beds : RoomOf[b] = r}

BedsIn(r, status) == {b \in BedsOf(r) : beds[b].status = status}

LEMMA MapsInto ==
    ASSUME NEW S, NEW T, NEW f \in [S -> T], IsFiniteSet(T),
           \A a, b \in S : f[a] = f[b] => a = b
    PROVE  IsFiniteSet(S) /\ Cardinality(S) <= Cardinality(T)
<1>1. f \in Injection(S, T)
  BY DEF Injection, IsInjective
<1> QED
  BY <1>1, FS_Injection

\* Every tenant of a room and every hold on it has a bed of its own there.
LEMMA RoomFits ==
    ASSUME Inv, NEW r \in Rooms
    PROVE  /\ IsFiniteSet(InRoom(r)) /\ IsFiniteSet(HoldsIn(r))
           /\ IsFiniteSet(Expected(r))
           /\ Cardinality(InRoom(r)) \in Nat
           /\ Cardinality(HoldsIn(r)) \in Nat
           /\ Cardinality(Expected(r)) \in Nat
           /\ Capacity(r) \in Nat
           /\ Cardinality(InRoom(r)) + Cardinality(HoldsIn(r)) <= Capacity(r)
           /\ Cardinality(Expected(r)) <= Cardinality(HoldsIn(r))
<1> DEFINE O == BedsIn(r, "occupied")
           R == BedsIn(r, "reserved")
           I == InRoom(r)
           H == HoldsIn(r)
<1>1. IsFiniteSet(BedsOf(r)) /\ Capacity(r) = Cardinality(BedsOf(r))
  BY FS_Subset, TransferAssumption DEF BedsOf, Capacity
<1>2. /\ IsFiniteSet(O) /\ IsFiniteSet(R) /\ IsFiniteSet(O \cup R)
      /\ O \cap R = {}
      /\ Cardinality(O \cup R) <= Capacity(r)
  <2>1. O \in SUBSET BedsOf(r) /\ R \in SUBSET BedsOf(r) /\ O \cap R = {}
        /\ O \cup R \in SUBSET BedsOf(r)
    BY DEF BedsIn
  <2> QED
    BY <1>1, <2>1, FS_Subset
<1>3. Cardinality(O) + Cardinality(R) <= Capacity(r)
  <2> HIDE DEF O, R
  <2>1. Cardinality(O \cup R)
           = Cardinality(O) + Cardinality(R) - Cardinality(O \cap R)
    BY <1>2, FS_Union
  <2>2. Cardinality(O \cap R) = 0
    BY <1>2, FS_EmptySet
  <2>3. Cardinality(O) \in Nat /\ Cardinality(R) \in Nat
    BY <1>2, FS_CardinalityType
  <2> QED
    BY <1>2, <2>1, <2>2, <2>3
<1>4. IsFiniteSet(I) /\ Cardinality(I) <= Cardinality(O)
  <2> DEFINE f == [t \in I |-> home[t]]
  <2>1. ASSUME NEW t \in I
        PROVE  home[t] \in O
    <3>1. home[t] \in Beds /\ RoomOf[home[t]] = r
      BY <2>1 DEF InRoom, Inv, Shape
    <3>2. beds[home[t]].status = "occupied"
      BY <2>1, <3>1, BedFacts DEF InRoom
    <3> QED
      BY <3>1, <3>2 DEF BedsIn, BedsOf
  <2>2. ASSUME NEW t \in I, NEW u \in I, home[t] = home[u]
        PROVE  t = u
    <3>1. home[t] \in Beds /\ t \in Tenants /\ u \in Tenants
      BY <2>1 DEF InRoom, BedsIn, BedsOf
    <3> QED
      BY <2>2, <3>1, BedFacts
  <2>3. f \in [I -> O] /\ \A t, u \in I : f[t] = f[u] => t = u
    BY <2>1, <2>2
  <2> HIDE DEF f, I, O
  <2> QED
    BY <1>2, <2>3, MapsInto
<1>5. IsFiniteSet(H) /\ Cardinality(H) <= Cardinality(R)
  <2> DEFINE f == [x \in H |-> record[x].to]
  <2>1. ASSUME NEW x \in H
        PROVE  record[x].to \in R
    <3>1. record[x].to \in Beds /\ RoomOf[record[x].to] = r
      BY <2>1 DEF HoldsIn, Inv, RecordInv, IsOpen, Scheduled
    <3>2. beds[record[x].to].status = "reserved"
      BY <2>1, BedFacts DEF HoldsIn
    <3> QED
      BY <3>1, <3>2 DEF BedsIn, BedsOf
  <2>2. ASSUME NEW x \in H, NEW y \in H, record[x].to = record[y].to
        PROVE  x = y
    BY <2>2 DEF HoldsIn, Inv, BedsInv, HoldsApart
  <2>3. f \in [H -> R] /\ \A x, y \in H : f[x] = f[y] => x = y
    BY <2>1, <2>2
  <2> HIDE DEF f, H, R
  <2> QED
    BY <1>2, <2>3, MapsInto
<1>6. /\ IsFiniteSet(Expected(r))
      /\ Cardinality(Expected(r)) <= Cardinality(H)
  <2>1. Expected(r) \in SUBSET H
    BY DEF Expected
  <2> QED
    BY <1>5, <2>1, FS_Subset
<1> HIDE DEF O, R, I, H
<1>7. /\ Cardinality(O) \in Nat /\ Cardinality(R) \in Nat
      /\ Cardinality(I) \in Nat /\ Cardinality(H) \in Nat
      /\ Cardinality(Expected(r)) \in Nat /\ Capacity(r) \in Nat
  BY <1>1, <1>2, <1>4, <1>5, <1>6, FS_CardinalityType
<1>8. Cardinality(I) + Cardinality(H) <= Capacity(r)
  BY <1>3, <1>4, <1>5, <1>7
<1> QED
  BY <1>4, <1>5, <1>6, <1>7, <1>8 DEF I, H

LEMMA DecreasedBy ==
    ASSUME count \in [Rooms -> Nat], NEW q \in Rooms, count' = Decreased(q)
    PROVE  /\ count' \in [Rooms -> Nat]
           /\ count[q] > 0 => count'[q] = count[q] - 1
           /\ count'[q] <= count[q]
           /\ \A r \in Rooms \ {q} : count'[r] = count[r]
<1>1. count' = [count EXCEPT ![q] = IF count[q] = 0 THEN 0 ELSE count[q] - 1]
  BY DEF Decreased
<1>2. count[q] \in Nat
  OBVIOUS
<1> QED
  BY <1>1, <1>2

\* The steps that change no counter.
LEMMA CountStays ==
    ASSUME [Next]_vars, ~Moving, \A r \in Rooms : ~Sweep(r)
    PROVE  count' = count
<1>1. ASSUME NEW w \in Workers, Work(w) PROVE count' = count
  <2>1. ~Cutover(w) /\ ~Cancel(w) /\ ~DepartureRelease(w)
    BY DEF Moving
  <2> QED
    BY <1>1, <2>1, Zenon DEF Work, RefuseComplete, CutoverFails, Prepare,
       Reschedule, RefuseReschedule, Decide, CancelFails,
       DepartureReleaseFails, Resolve, PaySave, GiveUp, NeedsAction, TakeClaim
<1>2. ASSUME NEW w \in Workers, NEW x \in Transfers,
             \/ StartComplete(w, x) \/ StartCancel(w, x) \/ PayRead(w, x)
             \/ \E d \in Days : StartReschedule(w, x, d)
      PROVE  count' = count
  BY <1>2 DEF StartComplete, StartCancel, PayRead, StartReschedule, TakeClaim
<1> QED
  BY <1>1, <1>2 DEF Next, Moving, vars, Crash, Acknowledge, Discard, Expire,
     NextDay

LEMMA SameSets ==
    ASSUME UNCHANGED home, NEW r \in Rooms,
           \A x \in Transfers :
              /\ IsOpen(x)' /\ record'[x].hold <=> IsOpen(x) /\ record[x].hold
              /\ record[x].hold => /\ record'[x].from = record[x].from
                                   /\ record'[x].to = record[x].to
    PROVE  InRoom(r)' = InRoom(r) /\ Expected(r)' = Expected(r)
BY DEF InRoom, Expected, HoldsIn, Changes

LEMMA SimilarSets ==
    ASSUME Inv, UNCHANGED home, NEW r \in Rooms,
           \A x \in Transfers : Similar(record[x], record'[x])
    PROVE  InRoom(r)' = InRoom(r) /\ Expected(r)' = Expected(r)
<1>1. \A x \in Transfers :
         /\ IsOpen(x)' /\ record'[x].hold <=> IsOpen(x) /\ record[x].hold
         /\ record[x].hold => /\ record'[x].from = record[x].from
                              /\ record'[x].to = record[x].to
  BY DEF Similar, Opened, IsOpen
<1> QED
  BY <1>1, SameSets

LEMMA ReleasedSets ==
    ASSUME Inv, NEW x \in Transfers, NEW r \in Rooms,
           \A y \in Transfers \ {x} : record'[y] = record[y],
           ~record'[x].hold
    PROVE  Expected(r)' = Expected(r) \ {x}
BY DEF Expected, HoldsIn, Changes, IsOpen

\* A hold that is given up gives its slot back, if it took one.
LEMMA ReleasedCount ==
    ASSUME Inv, CountInv, NEW x \in Transfers, record[x].hold, UNCHANGED home,
           \A y \in Transfers \ {x} : record'[y] = record[y],
           ~record'[x].hold, count' = CountReleased(x)
    PROVE  CountInv'
<1> DEFINE q == RoomOf[record[x].to]
<1>1. q \in Rooms /\ IsOpen(x)
  BY TransferAssumption DEF Inv, RecordInv, IsOpen, Scheduled
<1>2. count \in [Rooms -> Nat] /\ \A r \in Rooms : Covered(r)
  BY DEF CountInv
<1>3. \A r \in Rooms : /\ Expected(r)' = Expected(r) \ {x}
                        /\ InRoom(r)' = InRoom(r)
  BY ReleasedSets DEF InRoom
<1>4. \A r \in Rooms : x \in Expected(r) <=> Changes(x) /\ r = q
  BY <1>1 DEF Expected, HoldsIn
<1>5. CASE ~Changes(x)
  <2>1. count' = count
    BY <1>5 DEF CountReleased
  <2>2. \A r \in Rooms : Expected(r)' = Expected(r)
    BY <1>3, <1>4, <1>5
  <2>3. \A r \in Rooms : Covered(r)'
    BY <1>2, <1>3, <2>1, <2>2 DEF Covered, Capacity
  <2> QED
    BY <1>2, <2>1, <2>3 DEF CountInv
<1>6. CASE Changes(x)
  <2>1. count' = Decreased(q)
    BY <1>6 DEF CountReleased
  <2> HIDE DEF q
  <2>2. /\ count' \in [Rooms -> Nat]
        /\ count[q] > 0 => count'[q] = count[q] - 1
        /\ \A r \in Rooms \ {q} : count'[r] = count[r]
    BY <1>1, <1>2, <2>1, DecreasedBy
  <2>3. ASSUME NEW r \in Rooms PROVE Covered(r)'
    <3>1. CASE r # q
      BY <1>2, <1>3, <1>4, <2>2, <3>1 DEF Covered, Capacity
    <3>2. CASE r = q
      <4>1. Cardinality(Expected(r) \ {x}) = Cardinality(Expected(r)) - 1
        BY <1>4, <1>6, <3>2, RoomFits, FS_RemoveElement
      <4>2. /\ Cardinality(InRoom(r)) \in Nat
            /\ Cardinality(Expected(r)) \in Nat
            /\ Capacity(r) \in Nat /\ count[r] \in Nat
            /\ Cardinality(Expected(r) \ {x}) \in Nat
        BY <1>2, RoomFits, FS_RemoveElement, FS_CardinalityType
      <4>3. count[r] > 0 /\ count'[r] = count[r] - 1
        BY <1>2, <2>2, <3>2, <4>1, <4>2 DEF Covered
      <4>4. /\ count'[r] <= Capacity(r)
            /\ Cardinality(InRoom(r)) + Cardinality(Expected(r) \ {x})
                  <= count'[r]
        BY <1>2, <4>1, <4>2, <4>3 DEF Covered
      <4> QED
        BY <1>3, <4>4 DEF Covered, Capacity
    <3> QED
      BY <3>1, <3>2
  <2> QED
    BY <2>2, <2>3 DEF CountInv
<1> QED
  BY <1>5, <1>6

\* The sizes RoomFits is about are numbers.
LEMMA Numbers ==
    ASSUME Inv, CountInv, NEW r \in Rooms
    PROVE  /\ Cardinality(InRoom(r)) \in Nat
           /\ Cardinality(Expected(r)) \in Nat
           /\ Capacity(r) \in Nat /\ count[r] \in Nat
           /\ count[r] <= Capacity(r)
           /\ Cardinality(InRoom(r)) + Cardinality(Expected(r)) <= count[r]
           /\ IsFiniteSet(InRoom(r)) /\ IsFiniteSet(Expected(r))
BY RoomFits DEF CountInv, Covered

LEMMA ScheduleCount ==
    ASSUME Inv, CountInv, NEW x \in Transfers, NEW t \in Tenants,
           NEW b \in Beds, NEW d \in Days, Schedule(x, t, b, d)
    PROVE  CountInv'
<1> DEFINE q == RoomOf[b]
           far == RoomOf[home[t]] # q
<1>1. /\ q \in Rooms /\ UNCHANGED home /\ far \in BOOLEAN
      /\ far => count[q] < Capacity(q)
      /\ count' = IF far THEN Increased(q) ELSE count
  BY TransferAssumption DEF Schedule, HoldApplies
<1>2. ASSUME NEW r \in Rooms
      PROVE  /\ InRoom(r)' = InRoom(r)
             /\ x \notin Expected(r)
             /\ Expected(r)' = IF far /\ r = q THEN Expected(r) \cup {x}
                                               ELSE Expected(r)
  <2>1. /\ ~IsOpen(x) /\ IsOpen(x)' /\ record'[x].hold
        /\ record'[x].from = home[t] /\ record'[x].to = b
        /\ \A y \in Transfers \ {x} : record'[y] = record[y]
    BY ScheduleEffect DEF IsOpen
  <2>2. InRoom(r)' = InRoom(r)
    BY <1>1 DEF InRoom
  <2>3. x \in Expected(r)' <=> far /\ r = q
    BY <2>1 DEF Expected, HoldsIn, Changes
  <2>4. x \notin Expected(r)
    BY <2>1 DEF Expected, HoldsIn
  <2>5. \A y \in Transfers \ {x} : y \in Expected(r)' <=> y \in Expected(r)
    BY <2>1 DEF Expected, HoldsIn, Changes, IsOpen
  <2>6. Expected(r)' \subseteq Transfers /\ Expected(r) \subseteq Transfers
    BY DEF Expected, HoldsIn
  <2> QED
    BY <2>2, <2>3, <2>4, <2>5, <2>6
<1> HIDE DEF q, far
<1>3. /\ count' \in [Rooms -> Nat]
      /\ \A r \in Rooms : count'[r] = IF far /\ r = q THEN count[r] + 1
                                                      ELSE count[r]
  BY <1>1 DEF Increased, CountInv
<1>4. ASSUME NEW r \in Rooms PROVE Covered(r)'
  <2>1. CASE ~(far /\ r = q)
    BY <1>2, <1>3, <2>1, Numbers DEF Covered, Capacity
  <2>2. CASE far /\ r = q
    <3>1. Cardinality(Expected(r) \cup {x}) = Cardinality(Expected(r)) + 1
      BY <1>2, Numbers, FS_AddElement
    <3>2. /\ count'[r] <= Capacity(r)
          /\ Cardinality(InRoom(r)) + Cardinality(Expected(r) \cup {x})
                <= count'[r]
      BY <1>1, <1>3, <2>2, <3>1, Numbers
    <3> QED
      BY <1>2, <2>2, <3>2 DEF Covered, Capacity
  <2> QED
    BY <2>1, <2>2
<1> QED
  BY <1>3, <1>4 DEF CountInv

\* Whoever leaves a room leaves its counter, unless he stays in the room.
LEMMA LeaveRoom ==
    ASSUME Inv, CountInv, NEW t \in Tenants, NEW q \in Rooms,
           t \in InRoom(q), count' = Decreased(q),
           \A r \in Rooms :
              /\ r = q => /\ InRoom(r)' = InRoom(r) \ {t}
                          /\ Expected(r)' = Expected(r)
              /\ r # q => Cardinality(InRoom(r))' + Cardinality(Expected(r))'
                          = Cardinality(InRoom(r)) + Cardinality(Expected(r))
    PROVE  CountInv'
<1>1. Cardinality(InRoom(q) \ {t}) = Cardinality(InRoom(q)) - 1
  BY Numbers, FS_RemoveElement
<1>2. Cardinality(InRoom(q) \ {t}) \in Nat
  BY Numbers, FS_RemoveElement, FS_CardinalityType
<1>3. count[q] > 0
  BY <1>1, <1>2, Numbers
<1>4. /\ count' \in [Rooms -> Nat]
      /\ count'[q] = count[q] - 1
      /\ \A r \in Rooms \ {q} : count'[r] = count[r]
  BY <1>3, DecreasedBy DEF CountInv
<1>5. ASSUME NEW r \in Rooms PROVE Covered(r)'
  <2>1. CASE r # q
    BY <1>4, <2>1, Numbers DEF Covered, Capacity
  <2>2. CASE r = q
    <3>1. /\ count'[r] <= Capacity(r)
          /\ Cardinality(InRoom(r) \ {t}) + Cardinality(Expected(r))
                <= count'[r]
      BY <1>1, <1>4, <2>2, Numbers
    <3> QED
      BY <2>2, <3>1 DEF Covered, Capacity
  <2> QED
    BY <2>1, <2>2
<1> QED
  BY <1>4, <1>5 DEF CountInv

LEMMA MoveOutCount ==
    ASSUME Inv, CountInv, NEW w \in Workers, NEW t \in Tenants, MoveOut(w, t)
    PROVE  CountInv'
<1> DEFINE q == RoomOf[home[t]]
<1>1. /\ home[t] \in Beds /\ home[t] # None
      /\ \A x \in Transfers : Similar(record[x], record'[x])
  BY MoveOutEffect, TransferAssumption
<1>2. q \in Rooms /\ t \in InRoom(q)
  BY <1>1, TransferAssumption DEF InRoom
<1>3. home' = [home EXCEPT ![t] = None] /\ count' = Decreased(q)
  BY DEF MoveOut
<1>4. \A r \in Rooms : InRoom(r)' = InRoom(r) \ {t}
  BY <1>3 DEF InRoom, Inv, Shape
<1>5. \A r \in Rooms : r # q => InRoom(r) \ {t} = InRoom(r)
  BY DEF InRoom
<1>6. \A r \in Rooms : Expected(r)' = Expected(r)
  BY <1>1 DEF Expected, HoldsIn, Changes, Similar, Opened, IsOpen
<1> HIDE DEF q
<1> QED
  BY <1>2, <1>3, <1>4, <1>5, <1>6, LeaveRoom

LEMMA CutoverCount ==
    ASSUME Inv, CountInv, NEW w \in Workers, NEW x \in Transfers,
           x = worker[w].x, Cutover(w)
    PROVE  CountInv'
<1> DEFINE t == record[x].tenant
           p == RoomOf[record[x].from]
           q == RoomOf[record[x].to]
<1>1. /\ IsOpen(x) /\ record[x].hold /\ t \in Tenants
      /\ record[x].from \in Beds /\ record[x].to \in Beds
      /\ home[t] = record[x].from
      /\ \A y \in Transfers \ {x} : record'[y] = record[y]
      /\ ~record'[x].hold
  BY CutoverEffect
<1>2. /\ p \in Rooms /\ q \in Rooms
      /\ record[x].from # None /\ record[x].to # None
  BY <1>1, TransferAssumption
<1>3. /\ home' = [home EXCEPT ![t] = record[x].to]
      /\ count' = IF p # q THEN Decreased(p) ELSE count
  BY Zenon DEF Cutover, Changes
<1>4. \A r \in Rooms : Expected(r)' = Expected(r) \ {x}
  BY <1>1, ReleasedSets
<1>5. \A r \in Rooms : x \in Expected(r) <=> r = q /\ p # q
  BY <1>1 DEF Expected, HoldsIn, Changes
<1>6. \A r \in Rooms : t \in InRoom(r) <=> r = p
  BY <1>1, <1>2 DEF InRoom
<1>7. \A r \in Rooms : InRoom(r)' = IF r = q THEN InRoom(r) \cup {t}
                                            ELSE InRoom(r) \ {t}
  BY <1>1, <1>2, <1>3 DEF InRoom, Inv, Shape
<1> HIDE DEF t, p, q
<1>8. ASSUME NEW r \in Rooms, ~(r = q /\ p # q)
      PROVE  Expected(r)' = Expected(r)
  <2>1. x \notin Expected(r)
    BY <1>5, <1>8
  <2>2. Expected(r) \ {x} = Expected(r)
    BY <2>1
  <2> QED
    BY <1>4, <2>2
<1>9. ASSUME NEW r \in Rooms, p = q \/ r \notin {p, q}
      PROVE  InRoom(r)' = InRoom(r)
  <2>1. CASE r = q
    <3>1. t \in InRoom(r)
      BY <1>6, <1>9, <2>1
    <3>2. InRoom(r) \cup {t} = InRoom(r)
      BY <3>1
    <3> QED
      BY <1>7, <2>1, <3>2
  <2>2. CASE r # q
    <3>1. t \notin InRoom(r)
      BY <1>6, <1>9, <2>2
    <3>2. InRoom(r) \ {t} = InRoom(r)
      BY <3>1
    <3> QED
      BY <1>7, <2>2, <3>2
  <2> QED
    BY <2>1, <2>2
<1>10. CASE p = q
  <2>1. \A r \in Rooms : /\ InRoom(r)' = InRoom(r)
                         /\ Expected(r)' = Expected(r)
    BY <1>8, <1>9, <1>10
  <2> QED
    BY <1>3, <1>10, <2>1 DEF CountInv, Covered, Capacity
<1>11. CASE p # q
  <2>1. ASSUME NEW r \in Rooms, r # p
        PROVE  Cardinality(InRoom(r))' + Cardinality(Expected(r))'
                  = Cardinality(InRoom(r)) + Cardinality(Expected(r))
    <3>1. CASE r # q
      BY <1>8, <1>9, <2>1, <3>1
    <3>2. CASE r = q
      <4>1. /\ InRoom(r)' = InRoom(r) \cup {t} /\ t \notin InRoom(r)
            /\ Expected(r)' = Expected(r) \ {x} /\ x \in Expected(r)
        BY <1>4, <1>5, <1>6, <1>7, <1>11, <2>1, <3>2
      <4>2. Cardinality(InRoom(r) \cup {t}) = Cardinality(InRoom(r)) + 1
        BY <4>1, Numbers, FS_AddElement
      <4>3. Cardinality(Expected(r) \ {x}) = Cardinality(Expected(r)) - 1
        BY <4>1, Numbers, FS_RemoveElement
      <4> QED
        BY <4>1, <4>2, <4>3, Numbers
    <3> QED
      BY <3>1, <3>2
  <2>2. ASSUME NEW r \in Rooms, r = p
        PROVE  InRoom(r)' = InRoom(r) \ {t} /\ Expected(r)' = Expected(r)
    BY <1>7, <1>8, <1>11, <2>2
  <2>3. count' = Decreased(p) /\ t \in InRoom(p) /\ t \in Tenants
    BY <1>1, <1>2, <1>3, <1>6, <1>11
  <2>4. \A r \in Rooms :
           /\ r = p => /\ InRoom(r)' = InRoom(r) \ {t}
                       /\ Expected(r)' = Expected(r)
           /\ r # p => Cardinality(InRoom(r))' + Cardinality(Expected(r))'
                       = Cardinality(InRoom(r)) + Cardinality(Expected(r))
    BY <2>1, <2>2
  <2> QED
    BY <1>2, <2>3, <2>4, LeaveRoom
<1> QED
  BY <1>10, <1>11

\* A recount counts at least the tenants and the expected ones, and no more
\* than there are beds.
LEMMA SweepCount ==
    ASSUME Inv, CountInv, NEW q \in Rooms, Sweep(q)
    PROVE  CountInv'
<1> DEFINE n == Cardinality(InRoom(q)) + Cardinality(HoldsIn(q))
<1>1. count' = [count EXCEPT ![q] = n] /\ UNCHANGED <<home, record>>
  BY DEF Sweep
<1>2. /\ n \in Nat /\ n <= Capacity(q)
      /\ Cardinality(InRoom(q)) + Cardinality(Expected(q)) <= n
  BY RoomFits
<1> HIDE DEF n
<1>3. /\ count' \in [Rooms -> Nat] /\ count'[q] = n
      /\ \A r \in Rooms \ {q} : count'[r] = count[r]
  BY <1>1, <1>2 DEF CountInv
<1>4. \A r \in Rooms : InRoom(r)' = InRoom(r) /\ Expected(r)' = Expected(r)
  BY <1>1 DEF InRoom, Expected, HoldsIn, Changes, IsOpen
<1>5. \A r \in Rooms : Covered(r)'
  BY <1>2, <1>3, <1>4 DEF CountInv, Covered, Capacity
<1> QED
  BY <1>3, <1>5 DEF CountInv

LEMMA CountStep ==
    ASSUME Inv, CountInv, [Next]_vars
    PROVE  CountInv'
<1>1. CASE Quiet /\ count' = count
  <2>1. \A r \in Rooms : InRoom(r)' = InRoom(r) /\ Expected(r)' = Expected(r)
    BY <1>1, SimilarSets DEF Quiet
  <2> QED
    BY <1>1, <2>1 DEF CountInv, Covered, Capacity
<1>2. ASSUME NEW w \in Workers, Cancel(w)
      PROVE  CountInv'
  <2>1. PICK x \in Transfers :
           /\ x = worker[w].x /\ ~record'[x].hold
           /\ \A y \in Transfers \ {x} : record'[y] = record[y]
    BY <1>2, CancelEffect
  <2>2. CASE record[x].hold
    BY <1>2, <2>1, <2>2, ReleasedCount, Zenon DEF Cancel
  <2>3. CASE ~record[x].hold
    <3>1. UNCHANGED <<home, count>>
      BY <1>2, <2>1, <2>3, Zenon DEF Cancel
    <3>2. \A r \in Rooms : /\ InRoom(r)' = InRoom(r)
                           /\ Expected(r)' = Expected(r) \ {x}
                           /\ x \notin Expected(r)
      BY <2>1, <2>3, <3>1, ReleasedSets DEF InRoom, Expected, HoldsIn
    <3> QED
      BY <3>1, <3>2, Zenon DEF CountInv, Covered, Capacity
  <2> QED
    BY <2>2, <2>3
<1>3. ASSUME NEW w \in Workers, DepartureRelease(w)
      PROVE  CountInv'
  <2>1. PICK x \in Transfers :
           /\ x = worker[w].x /\ record[x].hold /\ ~record'[x].hold
           /\ \A y \in Transfers \ {x} : record'[y] = record[y]
    BY <1>3, ReleaseEffect
  <2> QED
    BY <1>3, <2>1, ReleasedCount DEF DepartureRelease
<1>4. ASSUME NEW w \in Workers, Cutover(w)
      PROVE  CountInv'
  BY <1>4, CutoverEffect, CutoverCount
<1> QED
  BY <1>1, <1>2, <1>3, <1>4, ScheduleCount, MoveOutCount, SweepCount,
     NextQuiet, CountStays DEF Moving

LEMMA InitCount ==
    ASSUME Init
    PROVE  CountInv
<1>1. Inv
  BY InitInv
<1>2. \A r \in Rooms : Expected(r) = {}
  BY DEF Init, Expected, HoldsIn, IsOpen, NoRecord
<1>3. ASSUME NEW r \in Rooms
      PROVE  count[r] \in Nat /\ Covered(r)
  <2>1. count[r] = Cardinality(InRoom(r))
    BY DEF Init
  <2>2. Cardinality(Expected(r)) = 0
    BY <1>2, FS_EmptySet
  <2> QED
    BY <1>1, <2>1, <2>2, RoomFits DEF Covered
<1> QED
  BY <1>3 DEF CountInv, Init

LEMMA CountAlways == Spec => []CountInv
<1>1. Inv /\ CountInv /\ [Next]_vars => CountInv'
  BY CountStep
<1> QED
  BY InitCount, <1>1, InvAlways, PTL DEF Spec

\* The documents stay well formed, and no counter ever exceeds the beds of its
\* room or drops below zero.
THEOREM TransfersTypeCorrect == Spec => []TypeOK
<1>1. Inv /\ CountInv => TypeOK
  BY DEF Inv, Shape, CountInv, Covered, TypeOK
<1> QED
  BY <1>1, InvAlways, CountAlways, PTL

\* A slot that is counted for a tenant, or for one who is to come, is never
\* given to somebody else, whatever sweeps and transfers write in between.
THEOREM SlotsAlwaysCovered == Spec => []SlotsCovered
<1>1. CountInv => SlotsCovered
  BY DEF CountInv, Covered, Expected, SlotsCovered
<1> QED
  BY <1>1, CountAlways, PTL

-----------------------------------------------------------------------------
(* What no step may do                                                     *)

LEMMA KeptStep ==
    ASSUME Inv, [Next]_vars, NEW x \in Transfers
    PROVE  Kept(record[x], record'[x])
<1>1. ASSUME NEW y \in Transfers, Kept(record[y], record'[y]),
             \A z \in Transfers \ {y} : record'[z] = record[z]
      PROVE  Kept(record[x], record'[x])
  BY <1>1 DEF Kept
<1>2. CASE Quiet
  BY <1>2 DEF Quiet, Similar
<1>3. ASSUME NEW y \in Transfers, NEW t \in Tenants, NEW b \in Beds,
             NEW d \in Days, Schedule(y, t, b, d)
      PROVE  Kept(record[x], record'[x])
  BY <1>1, <1>3, ScheduleEffect
<1>4. ASSUME NEW w \in Workers,
             Cutover(w) \/ Cancel(w) \/ DepartureRelease(w)
      PROVE  Kept(record[x], record'[x])
  <2>1. PICK y \in Transfers : /\ Kept(record[y], record'[y])
                               /\ \A z \in Transfers \ {y} :
                                     record'[z] = record[z]
    BY <1>4, CutoverEffect, CancelEffect, ReleaseEffect
  <2> QED
    BY <1>1, <2>1
<1>5. ASSUME NEW w \in Workers, NEW t \in Tenants, MoveOut(w, t)
      PROVE  Kept(record[x], record'[x])
  BY <1>5, MoveOutEffect DEF Similar
<1> QED
  BY <1>2, <1>3, <1>4, <1>5, NextQuiet DEF Moving

\* A bill that was paid is never voided or billed again, and its transfer
\* never cancelled, also by a request that read the bill before the payment.
THEOREM PaidAlwaysKept == Spec => PaidIsKept
<1>1. Inv /\ [Next]_vars
        => [\A x \in Transfers :
               record[x].bill = "paid" =>
                  /\ record'[x].bill = "paid"
                  /\ record'[x].status = "cancelled"
                        => record[x].status = "cancelled"]_vars
  BY KeptStep DEF Kept
<1> QED
  BY <1>1, InvAlways, PTL DEF Spec, PaidIsKept

\* The day a tenant acknowledged is the day his addendum keeps, whatever
\* reschedules, retries and completes the transfer.
THEOREM AcknowledgedDayAlwaysStands == Spec => AcknowledgedDayStands
<1>1. Inv /\ [Next]_vars
        => [\A x \in Transfers :
               record[x].acked /\ record'[x].acked
                  => record'[x].docDay = record[x].docDay]_vars
  BY KeptStep DEF Kept
<1> QED
  BY <1>1, InvAlways, PTL DEF Spec, AcknowledgedDayStands

\* A worker who is at work goes on by his own step, or stops.
LEMMA OwnStep ==
    ASSUME Next, NEW w \in Workers, worker[w] # Idle, worker'[w] # worker[w],
           worker \in [Workers -> Job \cup {Idle}]
    PROVE  Work(w) \/ Crash(w)
<1>1. ASSUME NEW v \in Workers, NEW j, v # w,
             worker' = [worker EXCEPT ![v] = j]
      PROVE  FALSE
  BY <1>1
<1>2. ASSUME NEW v \in Workers, v # w, Work(v) \/ Crash(v)
      PROVE  \/ worker' = worker
             \/ \E j : worker' = [worker EXCEPT ![v] = j]
  BY <1>2, Zenon DEF Work, RefuseComplete, CutoverFails, Cutover, Prepare,
     Reschedule, RefuseReschedule, Decide, Cancel, CancelFails,
     DepartureRelease, DepartureReleaseFails, Resolve, PaySave, GiveUp,
     NeedsAction, TakeClaim, Goto, Done, Crash
<1>3. ASSUME NEW v \in Workers, NEW x \in Transfers,
             \/ StartComplete(v, x) \/ StartCancel(v, x) \/ PayRead(v, x)
             \/ \E d \in Days : StartReschedule(v, x, d)
      PROVE  worker[v] = Idle /\ \E j : worker' = [worker EXCEPT ![v] = j]
  BY <1>3 DEF StartComplete, StartCancel, PayRead, StartReschedule, TakeClaim
<1>4. ASSUME NEW v \in Workers, NEW t \in Tenants, MoveOut(v, t)
      PROVE  /\ worker[v] = Idle
             /\ worker' = worker \/ \E j : worker' = [worker EXCEPT ![v] = j]
  BY <1>4 DEF MoveOut
<1> QED
  BY <1>1, <1>2, <1>3, <1>4, Zenon
     DEF Next, Schedule, Acknowledge, Discard, Expire, Sweep, NextDay

LEMMA SameClaim ==
    ASSUME NEW r \in Record
    PROVE  [r EXCEPT !.claim = r.claim] = r
BY DEF Record

\* A request that lost its claim can wake up at any of its steps: it changes
\* no bed, no counter, no Stay and no transfer.
THEOREM OvertakenNeverWrites == Spec => OvertakenChangesNothing
<1>1. ASSUME Inv, [Next]_vars, NEW w \in Workers, worker[w] # Idle,
             worker'[w] # worker[w], worker[w].op # "pay",
             worker[w].pc # "resolve", ~Owns(w)
      PROVE  UNCHANGED <<home, beds, count, record>>
  <2>1. Work(w) \/ Crash(w)
    BY <1>1, OwnStep DEF Inv, Shape, vars
  <2>2. GiveUp(w) => UNCHANGED <<home, beds, count, record>>
    <3> DEFINE x == worker[w].x
    <3>1. Unclaim(x, w) = record[x].claim
      BY <1>1 DEF Unclaim, Owns
    <3>2. [record[x] EXCEPT !.claim = Unclaim(x, w)] = record[x]
      BY <1>1, <3>1, SameClaim, WorkingJob
    <3>3. GiveUp(w) => record' = [record EXCEPT ![x] = record[x]]
      BY <3>2 DEF GiveUp
    <3>4. [record EXCEPT ![x] = record[x]] = record
      BY <1>1 DEF Inv, Shape
    <3> QED
      BY <3>3, <3>4 DEF GiveUp
  <2> QED
    BY <1>1, <2>1, <2>2, Zenon DEF Work, RefuseComplete, CutoverFails, Cutover,
       Prepare, Reschedule, RefuseReschedule, Decide, Cancel, CancelFails,
       DepartureRelease, DepartureReleaseFails, Resolve, PaySave, MayCutover,
       MayCancel, Cancelling, Crash
<1>2. Inv /\ [Next]_vars
        => [\A w \in Workers :
               worker[w] # Idle /\ worker'[w] # worker[w]
                  /\ worker[w].op # "pay" /\ worker[w].pc # "resolve"
                  /\ record[worker[w].x].claim.by # w
               => UNCHANGED <<home, beds, count, record>>]_vars
  BY <1>1 DEF Owns
<1> QED
  BY <1>2, InvAlways, PTL DEF Spec, OvertakenChangesNothing
=============================================================================
