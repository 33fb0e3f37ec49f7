------------------------ MODULE StayContracts_proofs ------------------------
(***************************************************************************)
(* Which contract of StayChanges is current, for every number of stays,    *)
(* contracts, preparations, requests, days and restarts.                   *)
(***************************************************************************)
EXTENDS StayChanges_proofs

-----------------------------------------------------------------------------
(* The inductive invariant                                                 *)

\* Request w holds contract c as it read it, to add the final document.
Uploading(w, c) ==
    /\ worker[w] # Idle
    /\ worker[w].op \in {"sign", "notarize"} /\ worker[w].n = c

\* No contract is uploaded twice at a time: a condition on those who upload,
\* which the code does not enforce.
OneUploadEach ==
    \A c \in Contracts : \A v, w \in Workers :
       Uploading(v, c) /\ Uploading(w, c) => v = w

\* CurrentContract, but for the stays, of which StayInv speaks.
UniqueCurrent ==
    IF MovedIn
       THEN \E c \in Contracts :
               /\ contracts[c].current
               /\ contracts[c].stay = reservation.stay
               /\ \A d \in Contracts : contracts[d].current => d = c
       ELSE \A c \in Contracts : ~contracts[c].current

\* A planned stay begins after the stay before it, so that a room transfer,
\* which lies within the stay in force, meets none.
PlannedLater ==
    \A s \in Upcoming : stays[s].start > stays[stays[s].prev].end

\* What a renewal of contract o for stay s, prepared or in preparation, may
\* rely on: o was current, and it is still current only while s is planned.
\* When it no longer is, it has its final document, and nothing makes it
\* active again.
Replaceable(o, s) ==
    /\ o \in Contracts /\ contracts[o].status # "none"
    /\ contracts[o].purpose = "renewal" =>
          contracts[o].final /\ contracts[o].status # "published"
    /\ MovedIn =>
          IF contracts[o].current
             THEN stays[s].status = "upcoming"
             ELSE contracts[o].final /\ contracts[o].status # "active"

PapersInv ==
    \A c \in Contracts :
       /\ contracts[c].status = "active" => contracts[c].final
       /\ contracts[c].current =>
             /\ contracts[c].status \in Visible
             /\ contracts[c].purpose = "renewal" =>
                   contracts[c].final /\ contracts[c].status # "published"
       /\ contracts[c].purpose = "renewal" =>
             Replaceable(contracts[c].replaces, contracts[c].stay)

DraftsInv ==
    \A p \in Preparers : preparer[p] # Idle =>
       /\ Replaceable(preparer[p].old, preparer[p].stay)
       /\ preparer[p].pc = "generate" =>
             /\ preparer[p].made \in Contracts
             /\ contracts[preparer[p].made].purpose = "renewal"

UploadsInv ==
    \A w \in Workers : \A c \in Nat :
       Uploading(w, c) => c \in Contracts /\ ~contracts[c].final

PaperInv ==
    /\ UniqueCurrent
    /\ PlannedLater
    /\ PapersInv
    /\ DraftsInv
    /\ UploadsInv

LEMMA CurrentIs ==
    ASSUME StayInv, UniqueCurrent
    PROVE  CurrentContract
PROOF
<1> DEFINE current == {c \in Contracts : contracts[c].current}
<1>1. CASE MovedIn
  <2>1. PICK c \in Contracts :
           /\ contracts[c].current
           /\ contracts[c].stay = reservation.stay
           /\ \A d \in Contracts : contracts[d].current => d = c
    BY <1>1 DEF UniqueCurrent
  <2>2. current = {c}
    BY <2>1
  <2>. QED BY <1>1, <2>1, <2>2 DEF StayInv, CurrentContract
<1>2. CASE ~MovedIn
  BY <1>2 DEF UniqueCurrent, CurrentContract
<1>. QED BY <1>1, <1>2

\* The contract in force is the current one.
LEMMA LeaseIsCurrent ==
    ASSUME PapersInv, UniqueCurrent, NEW c \in Contracts, contracts[c].current
    PROVE  Lease = c
PROOF
<1> DEFINE S == {d \in Contracts : /\ contracts[d].current
                                   /\ contracts[d].status \in Visible}
<1>1. S \subseteq 1..(MaxStays + MaxMoves) /\ MaxStays + MaxMoves \in Nat
  BY StayAssumption DEF Contracts
<1>2. c \in S
  BY DEF PapersInv
<1>3. \A d \in S : d = c
  BY DEF UniqueCurrent
<1>4. Lease = Max(S \cup {0})
  BY DEF Lease, None
<1>. HIDE DEF S
<1>5. Max(S \cup {0}) \in S
  BY <1>1, <1>2, MaxOrZero
<1>. QED BY <1>3, <1>4, <1>5

-----------------------------------------------------------------------------
(* What the steps leave of it                                              *)

\* A step that writes no contract.
LEMMA PapersUnwritten ==
    ASSUME IInv, IInv', PaperInv, contracts' = contracts,
           reservation'.status = reservation.status,
           reservation'.stay = reservation.stay,
           PlannedLater', Upcoming \subseteq Upcoming',
           \A p \in Preparers :
              \/ preparer'[p] = preparer[p]
              \/ preparer'[p] = Idle
              \/ /\ Replaceable(preparer'[p].old, preparer'[p].stay)
                 /\ preparer'[p].pc # "generate",
           \A w \in Workers : \A c \in Nat : Uploading(w, c)' =>
              Uploading(w, c) \/ (c \in Contracts /\ ~contracts[c].final)
    PROVE  PaperInv'
PROOF
<1>1. MovedIn' = MovedIn
  BY DEF MovedIn
<1>2. UniqueCurrent'
  BY <1>1 DEF PaperInv, UniqueCurrent
<1>3. ASSUME NEW o, NEW s \in Stays, Replaceable(o, s)
      PROVE  Replaceable(o, s)'
  BY <1>1, <1>3 DEF Replaceable, Upcoming
<1>4. PapersInv'
  <2>1. \A c \in Contracts :
           contracts[c].purpose = "renewal" => contracts[c].stay \in Stays
    BY DEF IInv, ContractInv, Used
  <2>2. \A c \in Contracts : contracts[c].purpose = "renewal" =>
           Replaceable(contracts[c].replaces, contracts[c].stay)'
    BY <1>3, <2>1 DEF PaperInv, PapersInv
  <2>. QED BY <2>2 DEF PaperInv, PapersInv
<1>5. DraftsInv'
  <2>1. \A p \in Preparers : preparer[p] # Idle => preparer[p].stay \in Stays
    BY DEF IInv, PreparerInv, Used
  <2>2. \A p \in Preparers : preparer'[p] # Idle => preparer'[p].stay \in Stays
    BY DEF IInv, PreparerInv, Used
  <2>. QED BY <1>3, <2>1, <2>2 DEF PaperInv, DraftsInv
<1>6. UploadsInv'
  BY DEF PaperInv, UploadsInv
<1>. QED BY <1>2, <1>4, <1>5, <1>6 DEF PaperInv

\* A step that leaves the stays alone too.
Aside ==
    /\ contracts' = contracts /\ stays' = stays
    /\ reservation'.status = reservation.status
    /\ reservation'.stay = reservation.stay
    /\ \A p \in Preparers : preparer'[p] = preparer[p] \/ preparer'[p] = Idle

\* Uploads that began go on, or end.
UploadsEnd ==
    \A w \in Workers : \A c \in Nat : Uploading(w, c)' => Uploading(w, c)

LEMMA PapersAside ==
    ASSUME IInv, IInv', PaperInv, Aside, UploadsEnd
    PROVE  PaperInv'
PROOF
<1>1. Upcoming' = Upcoming /\ PlannedLater'
  BY DEF Aside, Upcoming, PaperInv, PlannedLater
<1>. QED BY <1>1, PapersUnwritten DEF Aside, UploadsEnd

LEMMA UploadsDone ==
    ASSUME TypeOK, NEW w \in Workers, Done(w)
    PROVE  UploadsEnd
PROOF
<1>1. \A v \in Workers : worker'[v] = worker[v] \/ worker'[v] = Idle
  BY DoneWorkers
<1>. QED BY <1>1 DEF UploadsEnd, Uploading

LEMMA UploadsUntouched ==
    ASSUME worker' = worker
    PROVE  UploadsEnd
PROOF
BY DEF UploadsEnd, Uploading

LEMMA OthersStart ==
    ASSUME TypeOK, NEW w \in Workers, NEW op, NEW pc, NEW n, NEW k,
           Start(w, op, pc, n, k), op \notin {"sign", "notarize"}
    PROVE  UploadsEnd
PROOF
<1>1. /\ worker \in [Workers -> Job \cup {Idle}]
      /\ worker' = [worker EXCEPT
            ![w] = [op |-> op, pc |-> pc, n |-> n, k |-> k]]
  BY DEF Start, TypeOK
<1>2. \A v \in Workers : worker'[v] = worker[v] \/ worker'[v].op = op
  BY <1>1
<1>. QED BY <1>2 DEF UploadsEnd, Uploading

LEMMA OthersGoOn ==
    ASSUME TypeOK, NEW w \in Workers, worker[w] # Idle,
           worker[w].op \notin {"sign", "notarize"},
           NEW pc \in {"renew", "rollback", "write", "moveOut", "save"},
           Goto(w, pc)
    PROVE  UploadsEnd
PROOF
<1>1. /\ worker'[w].op = worker[w].op
      /\ \A v \in Workers : v # w => worker'[v] = worker[v]
  BY GotoWorkers
<1>. QED BY <1>1 DEF UploadsEnd, Uploading

\* The steps of extension requests, offers, clearances and reviews, the day
\* and a restart.
LEMMA AsideKeeps ==
    ASSUME IInv, IInv', PaperInv,
           \/ UNCHANGED vars
           \/ CreateExtension \/ \E q \in Requests : Reject(q)
           \/ \E o \in Offers : Decline(o)
           \/ OpenTransfer \/ CloseTransfer
           \/ Deciding \/ Tick \/ Crash
           \/ \E s \in Stays : ExpireLease(s)
           \/ \E p \in Preparers : PrepareUnlock(p)
    PROVE  PaperInv'
PROOF
<1>0. /\ preparer \in [Preparers -> Preparation \cup {Idle}]
      /\ worker \in [Workers -> Job \cup {Idle}]
      /\ reservation \in Reservation
  BY DEF IInv, TypeOK
<1>1. CASE UNCHANGED vars
  BY <1>1, PapersAside, UploadsUntouched DEF vars, records, Aside
<1>2. CASE CreateExtension \/ (\E q \in Requests : Reject(q))
  <2>1. /\ contracts' = contracts /\ stays' = stays /\ preparer' = preparer
        /\ worker' = worker
        /\ reservation' = reservation \/
              (\E q \in 0..MaxRequests :
                  reservation' = [reservation EXCEPT !.pending = q])
    <3>1. CASE CreateExtension
      <4>1. Next1(Submitted) \in 0..MaxRequests
        <5>1. Submitted \subseteq 1..MaxRequests /\ MaxRequests \in Nat
          BY StayAssumption DEF Submitted, Requests
        <5>2. Next1(Submitted) \in 1..(MaxRequests + 1)
          BY <5>1, Next1Above
        <5>3. Next1(Submitted) <= MaxRequests
          BY <3>1 DEF CreateExtension
        <5>. QED BY <5>1, <5>2, <5>3
      <4>. QED BY <3>1, <4>1 DEF CreateExtension
    <3>2. ASSUME NEW q \in Requests, Reject(q)
          PROVE  /\ contracts' = contracts /\ stays' = stays
                 /\ preparer' = preparer /\ worker' = worker
                 /\ reservation' = reservation \/
                       reservation' = [reservation EXCEPT !.pending = None]
      BY <3>2 DEF Reject
    <3>3. None \in 0..MaxRequests
      BY StayAssumption DEF None
    <3>. QED BY <1>2, <3>1, <3>2, <3>3
  <2>2. reservation'.status = reservation.status /\ reservation'.stay = reservation.stay
    BY <2>1, PendingWrites DEF IInv
  <2>. QED BY <2>1, <2>2, PapersAside, UploadsUntouched DEF Aside
<1>3. ASSUME NEW o \in Offers, Decline(o) PROVE PaperInv'
  <2>1. SetOffer(o, "declined") /\ worker' = worker /\ preparer' = preparer
    BY <1>3 DEF Decline
  <2>2. Aside
    BY <2>1, SetOfferWrites DEF IInv, Aside
  <2>. QED BY <2>1, <2>2, PapersAside, UploadsUntouched
<1>4. CASE OpenTransfer \/ CloseTransfer
  BY <1>4, PapersAside, UploadsUntouched DEF OpenTransfer, CloseTransfer, Aside
<1>5. CASE Deciding
  BY <1>5, PapersAside, UploadsUntouched
     DEF Deciding, OpenReview, Restate, Decide, SetReview, Aside
<1>6. CASE Tick
  BY <1>6, PapersAside, UploadsUntouched DEF Tick, records, Aside
<1>7. CASE Crash
  <2>1. Aside
    BY <1>7 DEF Crash, records, Aside
  <2>2. UploadsEnd
    BY <1>7 DEF Crash, UploadsEnd, Uploading
  <2>. QED BY <2>1, <2>2, PapersAside
<1>8. ASSUME NEW s \in Stays, ExpireLease(s) PROVE PaperInv'
  BY <1>8, PapersAside, UploadsUntouched DEF ExpireLease, Aside
<1>9. ASSUME NEW p \in Preparers, PrepareUnlock(p) PROVE PaperInv'
  <2>1. preparer' = [preparer EXCEPT ![p] = Idle]
    BY <1>9 DEF PrepareUnlock
  <2>2. \A r \in Preparers : preparer'[r] = preparer[r] \/ preparer'[r] = Idle
    BY <1>0, <2>1
  <2>3. /\ contracts' = contracts /\ stays' = stays
        /\ reservation' = reservation /\ worker' = worker
    BY <1>9 DEF PrepareUnlock
  <2>4. Aside
    BY <2>2, <2>3 DEF Aside
  <2>. QED BY <2>3, <2>4, PapersAside, UploadsUntouched
<1>. QED BY <1>1, <1>2, <1>3, <1>4, <1>5, <1>6, <1>7, <1>8, <1>9

LEMMA HandlersAside ==
    ASSUME IInv, IInv', PaperInv, NEW w \in Workers,
           \/ \E q \in Requests : ApproveRead(w, q)
           \/ OfferRead(w) \/ OfferWrite(w) \/ WithdrawWrite(w)
           \/ \E o \in Offers : WithdrawRead(w, o) \/ AcceptClaim(w, o)
           \/ AcceptRollback(w)
           \/ ClearRead(w) \/ ClearWrite(w) \/ SettleRead(w) \/ SettleSave(w)
           \/ \E r \in Reviews : ExecuteRead(w, r)
           \/ ExecuteSave(w)
    PROVE  PaperInv'
PROOF
<1>0. TypeOK
  BY DEF IInv
<1>1. ASSUME UNCHANGED <<stays, contracts, preparer>>,
             reservation'.status = reservation.status,
             reservation'.stay = reservation.stay, UploadsEnd
      PROVE  PaperInv'
  BY <1>1, PapersAside DEF Aside
<1>2. ASSUME NEW op, NEW pc, NEW n, NEW k, Start(w, op, pc, n, k),
             op \notin {"sign", "notarize"},
             UNCHANGED <<records, preparer>>
      PROVE  PaperInv'
  <2>1. UploadsEnd
    BY <1>0, <1>2, OthersStart
  <2>. QED BY <1>1, <1>2, <2>1 DEF records
<1>3. ASSUME Done(w), UNCHANGED <<stays, contracts, reservation, preparer>>
      PROVE  PaperInv'
  BY <1>0, <1>1, <1>3, UploadsDone
<1>4. ASSUME NEW o \in Offers,
             NEW st \in {"pending", "accepted", "declined", "cancelled"},
             SetOffer(o, st), preparer' = preparer, UploadsEnd
      PROVE  PaperInv'
  BY <1>0, <1>1, <1>4, SetOfferWrites
<1>5. ASSUME NEW q \in Requests, ApproveRead(w, q) PROVE PaperInv'
  BY <1>2, <1>5 DEF ApproveRead
<1>6. CASE OfferRead(w)
  BY <1>2, <1>6 DEF OfferRead
<1>7. CASE OfferWrite(w)
  <2>1. CASE reservation.pending = None /\ ~PendingOffer
    <3>. DEFINE o == Next1(Made)
    <3>1. o \in Offers
      <4>1. Made \subseteq 1..MaxOffers /\ MaxOffers \in Nat
        BY StayAssumption DEF Made, Offers
      <4>2. o \in 1..(MaxOffers + 1)
        BY <4>1, Next1Above
      <4>3. o <= MaxOffers
        BY <1>7 DEF OfferWrite
      <4>. QED BY <4>1, <4>2, <4>3 DEF Offers
    <3>2. SetOffer(o, "pending") /\ preparer' = preparer /\ Done(w)
      BY <1>7, <2>1 DEF OfferWrite
    <3>. HIDE DEF o
    <3>. QED BY <1>0, <1>4, <3>1, <3>2, UploadsDone
  <2>2. CASE ~(reservation.pending = None /\ ~PendingOffer)
    BY <1>3, <1>7, <2>2 DEF OfferWrite, records
  <2>. QED BY <2>1, <2>2
<1>8. CASE WithdrawWrite(w)
  <2>1. worker[w].n \in Offers
    BY <1>8 DEF WithdrawWrite, At, IInv, WorkerInv, JobInv
  <2>. QED BY <1>0, <1>4, <1>8, <2>1, UploadsDone DEF WithdrawWrite
<1>9. ASSUME NEW o \in Offers, WithdrawRead(w, o) PROVE PaperInv'
  BY <1>2, <1>9 DEF WithdrawRead
<1>10. ASSUME NEW o \in Offers, AcceptClaim(w, o) PROVE PaperInv'
  <2>1. PICK k : k = IF InForce = None THEN None ELSE stays[InForce].end + 1
    OBVIOUS
  <2>2. /\ SetOffer(o, "accepted") /\ Start(w, "accept", "renew", o, k)
        /\ preparer' = preparer
    BY <1>10, <2>1 DEF AcceptClaim
  <2>3. UploadsEnd
    BY <1>0, <2>2, OthersStart
  <2>. QED BY <1>4, <2>2, <2>3
<1>11. CASE AcceptRollback(w)
  <2>1. worker[w].n \in Offers
    BY <1>11 DEF AcceptRollback, At, IInv, WorkerInv, JobInv
  <2>. QED BY <1>0, <1>3, <1>4, <1>11, <2>1, UploadsDone
           DEF AcceptRollback, records
<1>12. CASE ClearRead(w)
  BY <1>2, <1>12 DEF ClearRead
<1>13. CASE ClearWrite(w)
  BY <1>3, <1>13 DEF ClearWrite, SetClearance, records
<1>14. CASE SettleRead(w)
  BY <1>2, <1>14 DEF SettleRead
<1>15. CASE SettleSave(w)
  BY <1>3, <1>15 DEF SettleSave, SetClearance
<1>16. ASSUME NEW r \in Reviews, ExecuteRead(w, r) PROVE PaperInv'
  BY <1>2, <1>16 DEF ExecuteRead
<1>17. CASE ExecuteSave(w)
  BY <1>3, <1>17 DEF ExecuteSave, SetReview
<1>. QED BY <1>5, <1>6, <1>7, <1>8, <1>9, <1>10, <1>11, <1>12, <1>13, <1>14,
            <1>15, <1>16, <1>17

\* A stay that is planned begins after the one in force.
LEMMA RenewPapers ==
    ASSUME IInv, IInv', PaperInv, NEW q \in 0..MaxRequests,
           NEW o \in 0..MaxOffers, NEW start \in Nat,
           RenewAllowed(q, start), Renew(q, o, start),
           preparer' = preparer, UploadsEnd
    PROVE  PaperInv'
PROOF
<1>1. TypeOK /\ StayInv /\ reservation \in Reservation
  BY DEF IInv, TypeOK
<1>2. InForce \in Stays /\ InForce \in Used /\ start > stays[InForce].end
  BY <1>1, InForceIs DEF RenewAllowed, Active, Used
<1>3. /\ contracts' = contracts
      /\ reservation'.status = reservation.status
      /\ reservation'.stay = reservation.stay
  BY <1>1 DEF Renew, Reservation
<1>4. Upcoming = {} /\ Upcoming' = {Next1(Used)}
  BY <1>1, <1>3, RenewStays
<1>5. /\ Next1(Used) \notin Used
      /\ stays'[Next1(Used)].start = start /\ stays'[Next1(Used)].prev = InForce
      /\ \A s \in Stays : s # Next1(Used) => stays'[s] = stays[s]
  <2>1. PICK n : n = Next1(Used)
    OBVIOUS
  <2>2. /\ n \notin Used
        /\ stays'[n] = [status |-> "upcoming", start |-> start,
                        end |-> start + Term - 1, prev |-> InForce,
                        offer |-> o]
        /\ \A s \in Stays : s # n => stays'[s] = stays[s]
    BY <1>1, <1>2, <2>1, RenewWrites
  <2>. QED BY <2>1, <2>2
<1>6. PlannedLater'
  BY <1>2, <1>4, <1>5 DEF PlannedLater
<1>. QED BY <1>3, <1>4, <1>6, PapersUnwritten DEF UploadsEnd

LEMMA RenewalsKeep ==
    ASSUME IInv, IInv', PaperInv,
           \/ \E gap \in {0, 1} : DirectRenew(gap)
           \/ \E w \in Workers : ApproveCommit(w) \/ AcceptRenew(w)
    PROVE  PaperInv'
PROOF
<1>0. TypeOK /\ None \in 0..MaxRequests /\ None \in 0..MaxOffers
  BY StayAssumption DEF IInv, None
<1>1. ASSUME NEW gap \in {0, 1}, DirectRenew(gap) PROVE PaperInv'
  <2>1. PICK start : start = stays[InForce].end + 1 + gap
    OBVIOUS
  <2>2. /\ InForce # None /\ RenewAllowed(None, start)
        /\ Renew(None, None, start) /\ worker' = worker /\ preparer' = preparer
    BY <1>1, <2>1 DEF DirectRenew
  <2>3. start \in Nat
    <3>1. InForce \in Stays
      BY <2>2, InForceIs DEF IInv
    <3>. QED BY <2>1, <3>1 DEF IInv, TypeOK, Stay
  <2>. QED BY <1>0, <2>2, <2>3, RenewPapers, UploadsUntouched
<1>2. ASSUME NEW w \in Workers, ApproveCommit(w) PROVE PaperInv'
  <2>1. PICK q, start : q = worker[w].n /\ start = worker[w].k
    OBVIOUS
  <2>2. q \in 0..MaxRequests /\ start \in Nat
    <3>1. /\ worker[w] \in Job /\ JobInv(worker[w])
          /\ worker[w].op = "approve"
      BY <1>2 DEF ApproveCommit, At, IInv, WorkerInv, TypeOK
    <3>. QED BY <2>1, <3>1, StayAssumption DEF JobInv, Job, Requests
  <2>3. Done(w) /\ preparer' = preparer
    BY <1>2 DEF ApproveCommit
  <2>4. UploadsEnd
    BY <1>0, <2>3, UploadsDone
  <2>5. CASE RenewAllowed(q, start)
    <3>1. Renew(q, None, start)
      BY <1>2, <2>1, <2>5 DEF ApproveCommit
    <3>. QED BY <1>0, <2>2, <2>3, <2>4, <2>5, <3>1, RenewPapers
  <2>6. CASE ~RenewAllowed(q, start)
    <3>1. UNCHANGED records
      BY <1>2, <2>1, <2>6 DEF ApproveCommit
    <3>. QED BY <2>3, <2>4, <3>1, PapersAside DEF records, Aside
  <2>. QED BY <2>5, <2>6
<1>3. ASSUME NEW w \in Workers, AcceptRenew(w) PROVE PaperInv'
  <2>1. PICK o, start : o = worker[w].n /\ start = worker[w].k
    OBVIOUS
  <2>2. o \in 0..MaxOffers /\ start \in Nat
    <3>1. /\ worker[w] \in Job /\ JobInv(worker[w])
          /\ worker[w].op = "accept"
      BY <1>3 DEF AcceptRenew, At, IInv, WorkerInv, TypeOK
    <3>. QED BY <2>1, <3>1, StayAssumption DEF JobInv, Job, Offers
  <2>3. preparer' = preparer
    BY <1>3 DEF AcceptRenew
  <2>4. CASE RenewAllowed(None, start)
    <3>1. Renew(None, o, start) /\ Done(w)
      BY <1>3, <2>1, <2>4 DEF AcceptRenew
    <3>. QED BY <1>0, <2>2, <2>3, <2>4, <3>1, RenewPapers, UploadsDone
  <2>5. CASE ~RenewAllowed(None, start)
    <3>1. UNCHANGED records /\ Goto(w, "rollback")
      BY <1>3, <2>1, <2>5 DEF AcceptRenew
    <3>2. worker[w] # Idle /\ worker[w].op = "accept"
      BY <1>3 DEF AcceptRenew, At
    <3>3. UploadsEnd
      BY <1>0, <3>1, <3>2, OthersGoOn
    <3>. QED BY <2>3, <3>1, <3>3, PapersAside DEF records, Aside
  <2>. QED BY <2>4, <2>5
<1>. QED BY <1>1, <1>2, <1>3

\* A preparation begins with the current contract and a stay that is planned,
\* an upload with a contract that has no final document.
LEMMA BeginningsKeep ==
    ASSUME IInv, IInv', PaperInv,
           \/ Lock
           \/ \E w \in Workers : \E c \in Contracts :
                 \E op \in {"sign", "notarize"} : SignRead(w, c, op)
    PROVE  PaperInv'
PROOF
<1>1. /\ preparer \in [Preparers -> Preparation \cup {Idle}]
      /\ worker \in [Workers -> Job \cup {Idle}]
  BY DEF IInv, TypeOK
<1>2. ASSUME NEW p \in Preparers, NEW s \in Stays, PrepareLock(p, s)
      PROVE  PaperInv'
  <2>1. PICK old : old = CurrentOf(stays[s].prev)
    OBVIOUS
  <2>2. /\ contracts' = contracts /\ stays' = stays
        /\ reservation' = reservation /\ worker' = worker
        /\ stays[s].status = "upcoming" /\ old # None
        /\ preparer' = [preparer EXCEPT
              ![p] = [pc |-> "create", stay |-> s, old |-> old, made |-> None]]
    BY <1>2, <2>1 DEF PrepareLock
  <2>3. old \in Contracts /\ contracts[old].current
    <3>. DEFINE S == {c \in Contracts : /\ contracts[c].stay = stays[s].prev
                                        /\ contracts[c].current}
    <3>1. S \subseteq 1..(MaxStays + MaxMoves) /\ MaxStays + MaxMoves \in Nat
      BY StayAssumption DEF Contracts
    <3>2. old = Max(S \cup {0})
      BY <2>1 DEF CurrentOf, None
    <3>. HIDE DEF S
    <3>3. old \in S
      BY <2>2, <3>1, <3>2, MaxOrZero DEF None
    <3>. QED BY <3>3 DEF S
  <2>4. Replaceable(old, s)
    BY <2>2, <2>3 DEF PaperInv, PapersInv, Visible, Replaceable
  <2>5. \A r \in Preparers :
           \/ preparer'[r] = preparer[r]
           \/ /\ Replaceable(preparer'[r].old, preparer'[r].stay)
              /\ preparer'[r].pc # "generate"
    BY <1>1, <2>2, <2>4
  <2>6. Upcoming' = Upcoming /\ PlannedLater'
    BY <2>2 DEF Upcoming, PaperInv, PlannedLater
  <2>7. \A w \in Workers : \A c \in Nat : Uploading(w, c)' => Uploading(w, c)
    BY <2>2 DEF Uploading
  <2>. QED BY <2>2, <2>5, <2>6, <2>7, PapersUnwritten
<1>3. ASSUME NEW w \in Workers, NEW c \in Contracts,
             NEW op \in {"sign", "notarize"}, SignRead(w, c, op)
      PROVE  PaperInv'
  <2>1. /\ UNCHANGED records /\ preparer' = preparer
        /\ ~contracts[c].final
        /\ worker' = [worker EXCEPT
              ![w] = [op |-> op, pc |-> "write", n |-> c, k |-> None]]
    BY <1>3 DEF SignRead, Start
  <2>2. \A v \in Workers : worker'[v] = worker[v] \/ worker'[v].n = c
    BY <1>1, <2>1
  <2>3. \A v \in Workers : \A d \in Nat : Uploading(v, d)' =>
           Uploading(v, d) \/ (d \in Contracts /\ ~contracts[d].final)
    BY <2>1, <2>2 DEF Uploading
  <2>4. Upcoming' = Upcoming /\ PlannedLater'
    BY <2>1 DEF records, Upcoming, PaperInv, PlannedLater
  <2>. QED BY <2>1, <2>3, <2>4, PapersUnwritten DEF records
<1>. QED BY <1>2, <1>3 DEF Lock

\* A step that changes the status of one contract and leaves it current or
\* not: it is generated or printed, or gets its final document.
LEMMA PaperEdited ==
    ASSUME IInv, IInv', PaperInv, NEW c \in Contracts,
           UNCHANGED <<reservation, stays>>,
           \A d \in Contracts : d # c => contracts'[d] = contracts[d],
           contracts'[c].purpose = contracts[c].purpose,
           contracts'[c].stay = contracts[c].stay,
           contracts'[c].replaces = contracts[c].replaces,
           contracts'[c].current = contracts[c].current,
           \/ /\ contracts'[c].status \in {"generated", "signing"}
              /\ contracts'[c].final = contracts[c].final
           \/ /\ contracts'[c].status \in {"published", "active"}
              /\ contracts'[c].final /\ ~contracts[c].final
              /\ \A w \in Workers : ~Uploading(w, c)',
           \A p \in Preparers :
              \/ preparer'[p] = preparer[p]
              \/ /\ preparer[p] # Idle /\ preparer'[p].pc # "generate"
                 /\ preparer'[p].old = preparer[p].old
                 /\ preparer'[p].stay = preparer[p].stay,
           UploadsEnd
    PROVE  PaperInv'
PROOF
<1>1. MovedIn' = MovedIn /\ Upcoming' = Upcoming /\ stays' = stays
  BY DEF MovedIn, Upcoming
<1>2. UniqueCurrent'
  <2>1. \A d \in Contracts : /\ contracts'[d].current = contracts[d].current
                             /\ contracts'[d].stay = contracts[d].stay
    OBVIOUS
  <2>. QED BY <1>1, <2>1 DEF PaperInv, UniqueCurrent
<1>3. PlannedLater'
  BY <1>1 DEF PaperInv, PlannedLater
<1>4. ASSUME NEW o, NEW s, Replaceable(o, s) PROVE Replaceable(o, s)'
  <2>1. CASE o # c
    BY <1>1, <1>4, <2>1 DEF Replaceable
  <2>2. CASE o = c
    BY <1>1, <1>4, <2>2 DEF Replaceable
  <2>. QED BY <2>1, <2>2
<1>5. PapersInv'
  <2>1. ASSUME NEW d \in Contracts, contracts'[d].purpose = "renewal"
        PROVE  Replaceable(contracts[d].replaces, contracts[d].stay)'
    <3>1. PICK o, s : o = contracts[d].replaces /\ s = contracts[d].stay
      OBVIOUS
    <3>2. /\ contracts[d].purpose = "renewal"
          /\ contracts'[d].stay = s /\ contracts'[d].replaces = o
      BY <2>1, <3>1
    <3>3. Replaceable(o, s)
      BY <3>1, <3>2 DEF PaperInv, PapersInv
    <3>4. Replaceable(o, s)'
      BY <1>4, <3>3
    <3>. QED BY <3>2, <3>4 DEF Replaceable
  <2>2. ASSUME NEW d \in Contracts
        PROVE  /\ contracts'[d].status = "active" => contracts'[d].final
               /\ contracts'[d].current =>
                     /\ contracts'[d].status \in Visible
                     /\ contracts'[d].purpose = "renewal" =>
                           /\ contracts'[d].final
                           /\ contracts'[d].status # "published"
    BY DEF PaperInv, PapersInv, Visible
  <2>. QED BY <2>1, <2>2 DEF PapersInv
<1>6. DraftsInv'
  <2>1. \A p \in Preparers : preparer'[p] # Idle =>
           /\ preparer[p] # Idle
           /\ preparer'[p].old = preparer[p].old
           /\ preparer'[p].stay = preparer[p].stay
           /\ preparer'[p].pc = "generate" => preparer'[p] = preparer[p]
    OBVIOUS
  <2>2. ASSUME NEW p \in Preparers, preparer'[p] # Idle
        PROVE  Replaceable(preparer[p].old, preparer[p].stay)'
    <3>1. PICK o, s : o = preparer[p].old /\ s = preparer[p].stay
      OBVIOUS
    <3>2. Replaceable(o, s)
      BY <2>1, <2>2, <3>1 DEF PaperInv, DraftsInv
    <3>3. Replaceable(o, s)' /\ preparer'[p].old = o /\ preparer'[p].stay = s
      BY <1>4, <2>1, <2>2, <3>1, <3>2
    <3>. QED BY <3>3 DEF Replaceable
  <2>3. \A d \in Contracts : contracts'[d].purpose = contracts[d].purpose
    OBVIOUS
  <2>. QED BY <2>1, <2>2, <2>3 DEF PaperInv, DraftsInv
<1>7. UploadsInv'
  BY DEF PaperInv, UploadsInv, UploadsEnd
<1>. QED BY <1>2, <1>3, <1>5, <1>6, <1>7 DEF PaperInv

LEMMA EditsKeep ==
    ASSUME IInv, IInv', PaperInv, OneUploadEach,
           \/ \E p \in Preparers : PrepareGenerate(p)
           \/ \E c \in Contracts : MarkPrinted(c)
           \/ \E w \in Workers : SignWrite(w)
    PROVE  PaperInv'
PROOF
<1>1. /\ contracts \in [Contracts -> Contract]
      /\ preparer \in [Preparers -> Preparation \cup {Idle}]
      /\ worker \in [Workers -> Job \cup {Idle}]
  BY DEF IInv, TypeOK
<1>2. ASSUME NEW c \in Contracts, NEW st \in {"generated", "signing"},
             contracts' = [contracts EXCEPT ![c].status = st]
      PROVE  /\ \A d \in Contracts : d # c => contracts'[d] = contracts[d]
             /\ contracts'[c].purpose = contracts[c].purpose
             /\ contracts'[c].stay = contracts[c].stay
             /\ contracts'[c].replaces = contracts[c].replaces
             /\ contracts'[c].current = contracts[c].current
             /\ contracts'[c].status = st
             /\ contracts'[c].final = contracts[c].final
  <2>1. contracts'[c] = [contracts[c] EXCEPT !.status = st]
    BY <1>1, <1>2
  <2>2. contracts[c] \in Contract
    BY <1>1
  <2>. QED BY <1>1, <1>2, <2>1, <2>2 DEF Contract
<1>3. ASSUME NEW p \in Preparers, PrepareGenerate(p) PROVE PaperInv'
  <2>1. PICK c : c = preparer[p].made
    OBVIOUS
  <2>2. /\ UNCHANGED <<reservation, stays>> /\ worker' = worker
        /\ preparer[p] # Idle /\ preparer[p].pc = "generate"
        /\ contracts' = [contracts EXCEPT ![c].status = "generated"]
        /\ preparer' = [preparer EXCEPT ![p].pc = "unlock"]
    BY <1>3, <2>1 DEF PrepareGenerate
  <2>3. c \in Contracts
    BY <2>1, <2>2 DEF PaperInv, DraftsInv
  <2>4. /\ preparer[p] \in Preparation
        /\ preparer'[p] = [preparer[p] EXCEPT !.pc = "unlock"]
        /\ \A r \in Preparers : r # p => preparer'[r] = preparer[r]
    BY <1>1, <2>2
  <2>5. /\ preparer'[p].pc = "unlock"
        /\ preparer'[p].old = preparer[p].old
        /\ preparer'[p].stay = preparer[p].stay
    BY <2>4 DEF Preparation
  <2>6. \A r \in Preparers :
           \/ preparer'[r] = preparer[r]
           \/ /\ preparer[r] # Idle /\ preparer'[r].pc # "generate"
              /\ preparer'[r].old = preparer[r].old
              /\ preparer'[r].stay = preparer[r].stay
    BY <2>2, <2>4, <2>5
  <2>. QED BY <1>2, <2>2, <2>3, <2>6, PaperEdited, UploadsUntouched
<1>4. ASSUME NEW c \in Contracts, MarkPrinted(c) PROVE PaperInv'
  <2>1. /\ UNCHANGED <<reservation, stays>> /\ worker' = worker
        /\ preparer' = preparer
        /\ contracts' = [contracts EXCEPT ![c].status = "signing"]
    BY <1>4 DEF MarkPrinted
  <2>. QED BY <1>2, <2>1, PaperEdited, UploadsUntouched
<1>5. ASSUME NEW w \in Workers, SignWrite(w) PROVE PaperInv'
  <2>1. PICK c, st : /\ c = worker[w].n
                     /\ st = IF worker[w].op = "sign" THEN "published"
                                                      ELSE "active"
    OBVIOUS
  <2>2. /\ UNCHANGED <<reservation, stays>> /\ preparer' = preparer
        /\ Done(w) /\ worker[w] # Idle
        /\ worker[w].op \in {"sign", "notarize"}
        /\ contracts' = [contracts EXCEPT ![c].final = TRUE, ![c].status = st]
    BY <1>5, <2>1 DEF SignWrite, At
  <2>3. c \in Nat /\ Uploading(w, c)
    BY <1>1, <2>1, <2>2 DEF Uploading, Job
  <2>4. c \in Contracts /\ ~contracts[c].final
    BY <2>3 DEF PaperInv, UploadsInv
  <2>5. contracts'[c] = [[contracts[c] EXCEPT !.final = TRUE]
                            EXCEPT !.status = st]
    BY <1>1, <2>2, <2>4, Zenon
  <2>6. \A d \in Contracts : d # c => contracts'[d] = contracts[d]
    BY <1>1, <2>2, <2>4, Zenon
  <2>7. st \in {"published", "active"}
    BY <2>1
  <2>8. contracts[c] \in Contract
    BY <1>1, <2>4
  <2>9. /\ contracts'[c].purpose = contracts[c].purpose
        /\ contracts'[c].stay = contracts[c].stay
        /\ contracts'[c].replaces = contracts[c].replaces
        /\ contracts'[c].current = contracts[c].current
        /\ contracts'[c].status \in {"published", "active"}
        /\ contracts'[c].final
    BY <2>5, <2>7, <2>8 DEF Contract
  <2>10. UploadsEnd
    BY <2>2, UploadsDone DEF IInv
  <2>11. \A v \in Workers : ~Uploading(v, c)'
    <3>1. \A v \in Workers : Uploading(v, c) => v = w
      BY <2>3, <2>4 DEF OneUploadEach
    <3>2. worker'[w] = Idle
      BY <2>2, DoneWorkers DEF IInv
    <3>3. \A v \in Workers : Uploading(v, c)' => Uploading(v, c) /\ v # w
      BY <2>3, <2>10, <3>2 DEF UploadsEnd, Uploading
    <3>. QED BY <3>1, <3>3
  <2>. QED BY <2>2, <2>4, <2>6, <2>9, <2>10, <2>11, PaperEdited
<1>. QED BY <1>3, <1>4, <1>5

\* A contract that no renewal relies on is left alone by the promise.
LEMMA ReplaceableKept ==
    ASSUME NEW o, NEW s, Replaceable(o, s), contracts'[o] = contracts[o],
           UNCHANGED <<reservation, stays>>
    PROVE  Replaceable(o, s)'
PROOF
<1>1. MovedIn' = MovedIn /\ stays' = stays
  BY DEF MovedIn
<1>. QED BY <1>1 DEF Replaceable

\* A successor that is drafted relies on what its preparation relied on.
LEMMA DraftKeeps ==
    ASSUME IInv, IInv', PaperInv, NEW p \in Preparers, PrepareCreate(p)
    PROVE  PaperInv'
PROOF
<1> DEFINE found == {e \in Written : /\ contracts[e].replaces = preparer[p].old
                                     /\ contracts[e].purpose = "renewal"
                                     /\ contracts[e].status # "cancelled"}
<1>0. PICK c, pc, old, s :
         /\ c = IF found = {} THEN Next1(Written) ELSE Max(found)
         /\ pc = IF contracts[c].status \in {"none", "draft"}
                    THEN "generate" ELSE "unlock"
         /\ old = preparer[p].old /\ s = preparer[p].stay
  OBVIOUS
<1>1. /\ UNCHANGED <<reservation, stays>> /\ worker' = worker
      /\ preparer[p] # Idle /\ c \in Contracts
      /\ contracts' = IF found # {} THEN contracts
                      ELSE [contracts EXCEPT
                        ![c] = [purpose |-> "renewal", stay |-> s,
                                replaces |-> old, status |-> "draft",
                                final |-> FALSE, current |-> FALSE]]
      /\ preparer' = [preparer EXCEPT ![p].made = c, ![p].pc = pc]
  BY <1>0 DEF PrepareCreate
<1>2. /\ contracts \in [Contracts -> Contract]
      /\ preparer \in [Preparers -> Preparation \cup {Idle}]
  BY DEF IInv, TypeOK
<1>3. Written \subseteq 1..(MaxStays + MaxMoves) /\ MaxStays + MaxMoves \in Nat
  BY StayAssumption DEF Written, Contracts
<1>4. \/ /\ contracts' = contracts /\ contracts[c].purpose = "renewal"
      \/ /\ contracts[c].status = "none"
         /\ contracts'[c] = [purpose |-> "renewal", stay |-> s,
                             replaces |-> old, status |-> "draft",
                             final |-> FALSE, current |-> FALSE]
         /\ \A d \in Contracts : d # c => contracts'[d] = contracts[d]
  <2>1. CASE found # {}
    <3>1. found \subseteq 0..(MaxStays + MaxMoves)
      <4>1. found \subseteq Written
        OBVIOUS
      <4>. HIDE DEF found
      <4>. QED BY <1>3, <4>1
    <3>2. Max(found) \in found
      <4>. HIDE DEF found
      <4>. QED BY <1>3, <2>1, <3>1, MaxIn
    <3>. QED BY <1>0, <1>1, <2>1, <3>2
  <2>2. CASE found = {}
    <3>1. c = Next1(Written)
      BY <1>0, <2>2
    <3>2. c \notin Written
      BY <1>3, <3>1, Next1Above
    <3>3. contracts[c].status = "none"
      BY <1>1, <3>2 DEF Written
    <3>. QED BY <1>1, <1>2, <2>2, <3>3
  <2>. QED BY <2>1, <2>2
<1>. HIDE DEF found
<1>5. preparer'[p] = [[preparer[p] EXCEPT !.made = c] EXCEPT !.pc = pc]
  BY <1>1, <1>2, Zenon
<1>6. \A r \in Preparers : r # p => preparer'[r] = preparer[r]
  BY <1>1, <1>2, Zenon
<1>7. /\ preparer'[p].made = c /\ preparer'[p].old = old
      /\ preparer'[p].stay = s
  <2>1. preparer[p] \in Preparation
    BY <1>1, <1>2
  <2>. QED BY <1>0, <1>5, <2>1 DEF Preparation
<1>8. Replaceable(old, s)
  BY <1>0, <1>1 DEF PaperInv, DraftsInv
<1>9. ASSUME NEW o, NEW t, Replaceable(o, t) PROVE Replaceable(o, t)'
  <2>1. contracts'[o] = contracts[o]
    BY <1>4, <1>9 DEF Replaceable
  <2>. QED BY <1>1, <1>9, <2>1, ReplaceableKept
<1>10. \A d \in Contracts :
          \/ contracts'[d] = contracts[d]
          \/ /\ contracts[d].status = "none" /\ d = c
             /\ contracts'[d].purpose = "renewal" /\ contracts'[d].stay = s
             /\ contracts'[d].replaces = old /\ contracts'[d].status = "draft"
             /\ ~contracts'[d].final /\ ~contracts'[d].current
  BY <1>4
<1>11. \A d \in Contracts : contracts[d].status = "none" =>
          contracts[d].purpose = "none" /\ ~contracts[d].current
  BY DEF PaperInv, PapersInv, Visible, IInv, ContractInv
<1>12. UniqueCurrent'
  <2>1. \A d \in Contracts : /\ contracts'[d].current <=> contracts[d].current
                             /\ contracts[d].current =>
                                   contracts'[d].stay = contracts[d].stay
    BY <1>10, <1>11
  <2>. QED BY <1>1, <2>1 DEF PaperInv, UniqueCurrent, MovedIn
<1>13. PlannedLater'
  BY <1>1 DEF PaperInv, PlannedLater, Upcoming
<1>14. PapersInv'
  <2>1. ASSUME NEW d \in Contracts, contracts'[d].purpose = "renewal"
        PROVE  Replaceable(contracts[d].replaces, contracts[d].stay)'
    <3>1. PICK o, t : o = contracts'[d].replaces /\ t = contracts'[d].stay
      OBVIOUS
    <3>2. Replaceable(o, t)
      BY <1>8, <1>10, <2>1, <3>1 DEF PaperInv, PapersInv
    <3>3. Replaceable(o, t)'
      BY <1>9, <3>2
    <3>. QED BY <3>1, <3>3 DEF Replaceable
  <2>2. ASSUME NEW d \in Contracts
        PROVE  /\ contracts'[d].status = "active" => contracts'[d].final
               /\ contracts'[d].current =>
                     /\ contracts'[d].status \in Visible
                     /\ contracts'[d].purpose = "renewal" =>
                           /\ contracts'[d].final
                           /\ contracts'[d].status # "published"
    BY <1>10 DEF PaperInv, PapersInv
  <2>. QED BY <2>1, <2>2 DEF PapersInv
<1>15. DraftsInv'
  <2>1. ASSUME NEW r \in Preparers, preparer'[r] # Idle
        PROVE  Replaceable(preparer[r].old, preparer[r].stay)'
    <3>1. PICK o, t : o = preparer'[r].old /\ t = preparer'[r].stay
      OBVIOUS
    <3>2. Replaceable(o, t)
      BY <1>6, <1>7, <1>8, <2>1, <3>1 DEF PaperInv, DraftsInv
    <3>3. Replaceable(o, t)'
      BY <1>9, <3>2
    <3>. QED BY <3>1, <3>3 DEF Replaceable
  <2>2. \A d \in Contracts : contracts[d].purpose = "renewal" =>
           contracts'[d].purpose = "renewal"
    BY <1>10
  <2>3. contracts'[c].purpose = "renewal"
    BY <1>1, <1>4
  <2>4. ASSUME NEW r \in Preparers, preparer'[r] # Idle,
               preparer'[r].pc = "generate"
        PROVE  /\ preparer'[r].made \in Contracts
               /\ contracts'[preparer'[r].made].purpose = "renewal"
    <3>1. CASE r = p
      BY <1>1, <1>7, <2>3, <3>1
    <3>2. CASE r # p
      BY <1>6, <2>2, <2>4, <3>2 DEF PaperInv, DraftsInv
    <3>. QED BY <3>1, <3>2
  <2>. QED BY <2>1, <2>4 DEF DraftsInv
<1>16. UploadsInv'
  <2>1. \A w \in Workers : \A d \in Nat : Uploading(w, d)' => Uploading(w, d)
    BY <1>1 DEF Uploading
  <2>. QED BY <1>10, <2>1 DEF PaperInv, UploadsInv
<1>. QED BY <1>12, <1>13, <1>14, <1>15, <1>16 DEF PaperInv

\* A document that is replaced or dropped keeps what it is for.
Ended(c) ==
    /\ contracts'[c].purpose = contracts[c].purpose
    /\ contracts'[c].stay = contracts[c].stay
    /\ contracts'[c].replaces = contracts[c].replaces
    /\ contracts'[c].final = contracts[c].final
    /\ ~contracts'[c].current
    /\ contracts'[c].status \in {"replaced", "closed", "cancelled"}

LEMMA EndedIs ==
    ASSUME NEW c \in Contracts, contracts[c] \in Contract,
           NEW st \in {"replaced", "closed", "cancelled"},
           contracts'[c] = [[contracts[c] EXCEPT !.status = st]
                               EXCEPT !.current = FALSE]
    PROVE  Ended(c)
PROOF
BY DEF Contract, Ended

\* The purposes, stays and predecessors that are written remain.
LEMMA OriginsRemain ==
    ASSUME DraftsInv, UploadsInv, preparer' = preparer, UploadsEnd,
           \A d \in Contracts : contracts[d].final <=> contracts'[d].final,
           \A d \in Contracts : contracts[d].purpose = "renewal" =>
              contracts'[d].purpose = "renewal",
           \A p \in Preparers : preparer[p] # Idle =>
              Replaceable(preparer[p].old, preparer[p].stay)'
    PROVE  DraftsInv' /\ UploadsInv'
PROOF
<1>1. DraftsInv'
  BY DEF DraftsInv
<1>2. UploadsInv'
  BY DEF UploadsInv, UploadsEnd
<1>. QED BY <1>1, <1>2

\* After the move-out no contract is current.
LEMMA MoveOutPapers ==
    ASSUME IInv, IInv', PaperInv, CanMoveOut, MoveOut, preparer' = preparer,
           UploadsEnd
    PROVE  PaperInv'
PROOF
<1>1. ~MovedIn' /\ Upcoming' = {}
  BY MoveOutWrites DEF MovedIn
<1>2. contracts \in [Contracts -> Contract]
  BY DEF IInv, TypeOK
<1>3. \A d \in Contracts : \/ Ended(d)
                           \/ d # Lease /\ contracts'[d] = contracts[d]
  <2>1. ASSUME NEW d \in Contracts
        PROVE  contracts'[d] =
                  IF d = Lease
                     THEN [[contracts[d] EXCEPT !.status = "closed"]
                              EXCEPT !.current = FALSE]
                  ELSE IF Dangling(d)
                     THEN [[contracts[d] EXCEPT !.status = "cancelled"]
                              EXCEPT !.current = FALSE]
                     ELSE contracts[d]
    BY Zenon DEF MoveOut, ContractsAfter
  <2>2. \A d \in Contracts : contracts[d] \in Contract
    BY <1>2
  <2>. QED BY <2>1, <2>2, EndedIs
<1>4. \A d \in Contracts : contracts[d].current => d = Lease
  BY LeaseIsCurrent DEF PaperInv
<1>5. \A d \in Contracts : ~contracts'[d].current
  BY <1>3, <1>4 DEF Ended
<1>6. UniqueCurrent'
  BY <1>1, <1>5 DEF UniqueCurrent
<1>7. PlannedLater'
  BY <1>1 DEF PlannedLater
<1>8. ASSUME NEW o, NEW s, Replaceable(o, s) PROVE Replaceable(o, s)'
  BY <1>1, <1>3, <1>8 DEF Replaceable, Ended
<1>9. PapersInv'
  <2>1. ASSUME NEW d \in Contracts, contracts'[d].purpose = "renewal"
        PROVE  Replaceable(contracts[d].replaces, contracts[d].stay)'
    <3>1. PICK o, t : o = contracts'[d].replaces /\ t = contracts'[d].stay
      OBVIOUS
    <3>2. Replaceable(o, t)
      BY <1>3, <2>1, <3>1 DEF PaperInv, PapersInv, Ended
    <3>3. Replaceable(o, t)'
      BY <1>8, <3>2
    <3>. QED BY <3>1, <3>3 DEF Replaceable
  <2>2. ASSUME NEW d \in Contracts
        PROVE  contracts'[d].status = "active" => contracts'[d].final
    BY <1>3 DEF PaperInv, PapersInv, Ended
  <2>. QED BY <1>5, <2>1, <2>2 DEF PapersInv
<1>10. \A d \in Contracts : /\ contracts[d].final <=> contracts'[d].final
                            /\ contracts[d].purpose = contracts'[d].purpose
  BY <1>3 DEF Ended
<1>11. ASSUME NEW p \in Preparers, preparer[p] # Idle
       PROVE  Replaceable(preparer[p].old, preparer[p].stay)'
  <2>1. PICK o, t : o = preparer[p].old /\ t = preparer[p].stay
    OBVIOUS
  <2>2. Replaceable(o, t)'
    BY <1>8, <1>11, <2>1 DEF PaperInv, DraftsInv
  <2>. QED BY <2>1, <2>2 DEF Replaceable
<1>12. DraftsInv' /\ UploadsInv'
  BY <1>10, <1>11, OriginsRemain DEF PaperInv
<1>. QED BY <1>6, <1>7, <1>9, <1>12 DEF PaperInv

LEMMA DeparturesKeep ==
    ASSUME IInv, IInv', PaperInv,
           Leave \/ \E w \in Workers : HandlerMovesOut(w)
    PROVE  PaperInv'
PROOF
<1>1. CASE Leave
  BY <1>1, MoveOutPapers, UploadsUntouched DEF Leave
<1>2. ASSUME NEW w \in Workers, HandlerMovesOut(w) PROVE PaperInv'
  <2>1. /\ preparer' = preparer /\ TypeOK
        /\ worker[w] # Idle /\ worker[w].op \notin {"sign", "notarize"}
    BY <1>2 DEF HandlerMovesOut, At, IInv
  <2>2. CASE CanMoveOut
    <3>1. MoveOut /\ Goto(w, "save")
      BY <1>2, <2>2 DEF HandlerMovesOut
    <3>. QED BY <2>1, <2>2, <3>1, MoveOutPapers, OthersGoOn
  <2>3. CASE ~CanMoveOut
    <3>1. UNCHANGED records /\ Done(w)
      BY <1>2, <2>3 DEF HandlerMovesOut
    <3>. QED BY <2>1, <3>1, PapersAside, UploadsDone DEF records, Aside
  <2>. QED BY <2>2, <2>3
<1>. QED BY <1>1, <1>2

\* Nothing is planned while a tenant is moved to another room.
LEMMA CutOverUnplanned ==
    ASSUME IInv, PaperInv, CutOver
    PROVE  Upcoming = {}
PROOF
<1> SUFFICES ASSUME NEW s \in Upcoming PROVE FALSE
  OBVIOUS
<1>1. /\ stays \in [Stays -> Stay] /\ day \in Nat
      /\ reservation.stay \in Stays
  BY DEF IInv, TypeOK, Reservation
<1>2. /\ s \in Stays /\ s \in Used /\ stays[s].status = "upcoming"
      /\ stays[s].prev = reservation.stay
  BY DEF Upcoming, Used, IInv, StayInv
<1>3. /\ InForce = reservation.stay /\ day <= stays[InForce].end
      /\ ~(stays[s].prev # None /\ stays[s].start > day)
  BY <1>2 DEF CutOver, NoTransferConflicts
<1>4. stays[s].prev # None
  BY <1>1, <1>2 DEF Stays, None
<1>5. stays[s].start > stays[reservation.stay].end
  BY <1>2 DEF PaperInv, PlannedLater
<1>6. stays[s].start \in Nat /\ stays[reservation.stay].end \in Nat
  BY <1>1, <1>2 DEF Stay
<1>. QED BY <1>1, <1>3, <1>4, <1>5, <1>6

\* The addendum takes the place of the contract in force, which no renewal
\* relies on.
LEMMA CutOverPapers ==
    ASSUME IInv, IInv', PaperInv, CutOver
    PROVE  PaperInv'
PROOF
<1>0. PICK c, lease0, stay0 : /\ c = Next1(Written) /\ lease0 = Lease
                              /\ stay0 = InForce
  OBVIOUS
<1>1. /\ MovedIn /\ UNCHANGED <<reservation, stays>> /\ worker' = worker
      /\ preparer' = preparer
      /\ c \in Contracts /\ lease0 # None /\ stay0 = reservation.stay
      /\ contracts' = [d \in Contracts |->
            IF d = c THEN [purpose |-> "transfer", stay |-> stay0,
                           replaces |-> lease0, status |-> "generated",
                           final |-> FALSE, current |-> TRUE]
            ELSE IF d = lease0
                 THEN [[contracts[d] EXCEPT !.status = "replaced"]
                          EXCEPT !.current = FALSE]
            ELSE IF /\ contracts[d].purpose = "renewal"
                    /\ contracts[d].replaces = lease0
                    /\ contracts[d].status = "published"
               THEN [[contracts[d] EXCEPT !.status = "cancelled"]
                        EXCEPT !.current = FALSE]
               ELSE contracts[d]]
  BY <1>0, Zenon DEF CutOver, Superseded
<1>2. contracts \in [Contracts -> Contract]
  BY DEF IInv, TypeOK
<1>3. lease0 \in Contracts /\ contracts[lease0].current
  BY <1>0, <1>1, LeaseIs
<1>4. contracts[c].status = "none"
  <2>1. Written \subseteq 1..(MaxStays + MaxMoves) /\ MaxStays + MaxMoves \in Nat
    BY StayAssumption DEF Written, Contracts
  <2>2. c \notin Written
    BY <1>0, <2>1, Next1Above
  <2>. QED BY <1>1, <2>2 DEF Written
<1>5. contracts[c].purpose = "none" /\ ~contracts[c].final /\ c # lease0
  BY <1>1, <1>3, <1>4 DEF PaperInv, PapersInv, Visible, IInv, ContractInv
<1>6. /\ contracts'[c].purpose = "transfer" /\ contracts'[c].stay = stay0
      /\ contracts'[c].status = "generated" /\ ~contracts'[c].final
      /\ contracts'[c].current
  BY <1>1
<1>7. \A d \in Contracts : d # c =>
         IF d = lease0
            THEN contracts'[d] =
                    [[contracts[d] EXCEPT !.status = "replaced"]
                        EXCEPT !.current = FALSE]
            ELSE \/ contracts'[d] = contracts[d]
                 \/ /\ contracts[d].purpose = "renewal"
                    /\ contracts[d].status = "published"
                    /\ contracts'[d] =
                         [[contracts[d] EXCEPT !.status = "cancelled"]
                             EXCEPT !.current = FALSE]
  BY <1>1
<1>8. \A d \in Contracts : d # c =>
         \/ contracts'[d] = contracts[d] /\ d # lease0
         \/ Ended(d) /\ d = lease0
         \/ /\ Ended(d) /\ contracts[d].purpose = "renewal"
            /\ contracts[d].status = "published"
  <2>1. \A d \in Contracts : contracts[d] \in Contract
    BY <1>2
  <2>. QED BY <1>7, <2>1, EndedIs
<1>9. MovedIn' /\ stays' = stays
  BY <1>1 DEF MovedIn
<1>10. UniqueCurrent'
  <2>1. \A d \in Contracts : contracts[d].current => d = lease0
    BY <1>0, LeaseIsCurrent DEF PaperInv
  <2>2. \A d \in Contracts : contracts'[d].current => d = c
    BY <1>8, <2>1 DEF Ended
  <2>. QED BY <1>1, <1>6, <1>9, <2>2 DEF UniqueCurrent
<1>11. PlannedLater'
  BY <1>9 DEF PaperInv, PlannedLater, Upcoming
<1>12. ASSUME NEW o, NEW s \in Stays, Replaceable(o, s)
       PROVE  Replaceable(o, s)'
  <2>1. stays[s].status # "upcoming"
    BY CutOverUnplanned DEF Upcoming
  <2>2. ~contracts[o].current
    BY <1>1, <1>12, <2>1 DEF Replaceable
  <2>3. contracts'[o] = contracts[o]
    BY <1>3, <1>4, <1>8, <1>12, <2>2 DEF Replaceable
  <2>. QED BY <1>1, <1>12, <2>3, ReplaceableKept
<1>13. PapersInv'
  <2>1. ASSUME NEW d \in Contracts, contracts'[d].purpose = "renewal"
        PROVE  Replaceable(contracts[d].replaces, contracts[d].stay)'
    <3>1. PICK o, t : o = contracts'[d].replaces /\ t = contracts'[d].stay
      OBVIOUS
    <3>2. /\ contracts[d].purpose = "renewal"
          /\ o = contracts[d].replaces /\ t = contracts[d].stay
      BY <1>6, <1>8, <2>1, <3>1 DEF Ended
    <3>3. Replaceable(o, t) /\ t \in Stays
      BY <3>2 DEF PaperInv, PapersInv, IInv, ContractInv, Used
    <3>4. Replaceable(o, t)'
      BY <1>12, <3>3
    <3>. QED BY <3>1, <3>4 DEF Replaceable
  <2>2. ASSUME NEW d \in Contracts
        PROVE  /\ contracts'[d].status = "active" => contracts'[d].final
               /\ contracts'[d].current =>
                     /\ contracts'[d].status \in Visible
                     /\ contracts'[d].purpose = "renewal" =>
                           /\ contracts'[d].final
                           /\ contracts'[d].status # "published"
    BY <1>6, <1>8 DEF PaperInv, PapersInv, Ended, Visible
  <2>. QED BY <2>1, <2>2 DEF PapersInv
<1>14. \A d \in Contracts :
          /\ contracts[d].final <=> contracts'[d].final
          /\ contracts[d].purpose = "renewal" =>
                contracts'[d].purpose = "renewal"
  BY <1>5, <1>6, <1>8 DEF Ended
<1>15. ASSUME NEW p \in Preparers, preparer[p] # Idle
       PROVE  Replaceable(preparer[p].old, preparer[p].stay)'
  <2>1. PICK o, t : o = preparer[p].old /\ t = preparer[p].stay
    OBVIOUS
  <2>2. Replaceable(o, t) /\ t \in Stays
    BY <1>15, <2>1 DEF PaperInv, DraftsInv, IInv, PreparerInv, Used
  <2>3. Replaceable(o, t)'
    BY <1>12, <2>2
  <2>. QED BY <1>1, <2>1, <2>3 DEF Replaceable
<1>16. DraftsInv' /\ UploadsInv'
  BY <1>1, <1>14, <1>15, OriginsRemain, UploadsUntouched DEF PaperInv
<1>. QED BY <1>10, <1>11, <1>13, <1>16 DEF PaperInv

\* A renewal that takes effect: what it relies on is the current contract,
\* and nothing relies on it yet.
LEMMA ActivatePapers ==
    ASSUME IInv, IInv', PaperInv, NEW c \in Contracts, Activate(c)
    PROVE  PaperInv'
PROOF
<1>0. PICK old, next : old = contracts[c].replaces /\ next = contracts[c].stay
  OBVIOUS
<1>1. /\ MovedIn /\ preparer' = preparer /\ worker' = worker
      /\ contracts[c].purpose = "renewal"
      /\ contracts[c].status = "published" /\ contracts[c].final
      /\ contracts[old].status = "active"
      /\ contracts' = [contracts EXCEPT ![c].status = "active",
                ![c].current = TRUE,
                ![old] = [[contracts[old] EXCEPT !.status = "replaced"]
                             EXCEPT !.current = FALSE]]
  BY <1>0, Zenon DEF Activate, Candidates, Superseded
<1>2. contracts \in [Contracts -> Contract]
  BY DEF IInv, TypeOK
<1>3. /\ Replaceable(old, next)
      /\ old \in Contracts /\ contracts[old].current /\ old # c
      /\ stays[next].status = "upcoming" /\ contracts[old].final
  <2>1. Replaceable(old, next)
    BY <1>0, <1>1 DEF PaperInv, PapersInv
  <2>. QED BY <1>1, <2>1 DEF Replaceable, PaperInv, PapersInv
<1>4. /\ Upcoming' = {} /\ reservation'.stay = next
      /\ reservation'.status = reservation.status
  BY <1>0, <1>3, ActivateStays
<1>5. MovedIn'
  BY <1>1, <1>4 DEF MovedIn
<1>6. contracts'[c] = [[contracts[c] EXCEPT !.status = "active"]
                          EXCEPT !.current = TRUE]
  BY <1>1, <1>2, <1>3, Zenon
<1>7. Ended(old)
  <2>1. contracts'[old] = [[contracts[old] EXCEPT !.status = "replaced"]
                              EXCEPT !.current = FALSE]
    BY <1>1, <1>2, <1>3, Zenon
  <2>2. contracts[old] \in Contract
    BY <1>2, <1>3
  <2>. QED BY <1>3, <2>1, <2>2, EndedIs
<1>8. \A d \in Contracts : d # c /\ d # old => contracts'[d] = contracts[d]
  BY <1>1, <1>2, <1>3, Zenon
<1>9. /\ contracts'[c].purpose = "renewal" /\ contracts'[c].stay = next
      /\ contracts'[c].replaces = old /\ contracts'[c].final
      /\ contracts'[c].status = "active" /\ contracts'[c].current
  <2>1. contracts[c] \in Contract
    BY <1>2
  <2>2. /\ contracts'[c].purpose = contracts[c].purpose
        /\ contracts'[c].stay = contracts[c].stay
        /\ contracts'[c].replaces = contracts[c].replaces
        /\ contracts'[c].final = contracts[c].final
        /\ contracts'[c].status = "active" /\ contracts'[c].current = TRUE
    BY <1>6, <2>1 DEF Contract
  <2>. QED BY <1>0, <1>1, <2>2
<1>10. \A d \in Contracts : contracts[d].current => d = old
  BY <1>1, <1>3 DEF PaperInv, UniqueCurrent
<1>11. UniqueCurrent'
  <2>1. \A d \in Contracts : contracts'[d].current => d = c
    BY <1>7, <1>8, <1>10 DEF Ended
  <2>. QED BY <1>4, <1>5, <1>9, <2>1 DEF UniqueCurrent
<1>12. PlannedLater'
  BY <1>4 DEF PlannedLater
<1>13. ASSUME NEW o, NEW s, Replaceable(o, s) PROVE Replaceable(o, s)'
  <2>1. o \in Contracts /\ o # c
    BY <1>1, <1>13 DEF Replaceable
  <2>2. CASE o = old
    BY <1>3, <1>7, <1>13, <2>2 DEF Replaceable, Ended
  <2>3. CASE o # old
    BY <1>1, <1>8, <1>10, <1>13, <2>1, <2>3 DEF Replaceable
  <2>. QED BY <2>2, <2>3
<1>14. PapersInv'
  <2>1. ASSUME NEW d \in Contracts, contracts'[d].purpose = "renewal"
        PROVE  Replaceable(contracts[d].replaces, contracts[d].stay)'
    <3>1. PICK o, t : o = contracts'[d].replaces /\ t = contracts'[d].stay
      OBVIOUS
    <3>2. Replaceable(o, t)
      BY <1>3, <1>7, <1>8, <1>9, <2>1, <3>1 DEF PaperInv, PapersInv, Ended
    <3>3. Replaceable(o, t)'
      BY <1>13, <3>2
    <3>. QED BY <3>1, <3>3 DEF Replaceable
  <2>2. ASSUME NEW d \in Contracts
        PROVE  /\ contracts'[d].status = "active" => contracts'[d].final
               /\ contracts'[d].current =>
                     /\ contracts'[d].status \in Visible
                     /\ contracts'[d].purpose = "renewal" =>
                           /\ contracts'[d].final
                           /\ contracts'[d].status # "published"
    BY <1>7, <1>8, <1>9 DEF PaperInv, PapersInv, Ended, Visible
  <2>. QED BY <2>1, <2>2 DEF PapersInv
<1>15. \A d \in Contracts :
          /\ contracts[d].final <=> contracts'[d].final
          /\ contracts[d].purpose = "renewal" =>
                contracts'[d].purpose = "renewal"
  BY <1>1, <1>7, <1>8, <1>9 DEF Ended
<1>16. ASSUME NEW p \in Preparers, preparer[p] # Idle
       PROVE  Replaceable(preparer[p].old, preparer[p].stay)'
  <2>1. PICK o, t : o = preparer[p].old /\ t = preparer[p].stay
    OBVIOUS
  <2>2. Replaceable(o, t)'
    BY <1>13, <1>16, <2>1 DEF PaperInv, DraftsInv
  <2>. QED BY <1>1, <2>1, <2>2 DEF Replaceable
<1>17. DraftsInv' /\ UploadsInv'
  BY <1>1, <1>15, <1>16, OriginsRemain, UploadsUntouched DEF PaperInv
<1>. QED BY <1>11, <1>12, <1>14, <1>17 DEF PaperInv

-----------------------------------------------------------------------------
(* The theorems                                                            *)

LEMMA NextPapers ==
    ASSUME IInv, IInv', PaperInv, OneUploadEach, [Next]_vars
    PROVE  PaperInv'
PROOF
<1>1. CASE \/ UNCHANGED vars
           \/ CreateExtension \/ (\E q \in Requests : Reject(q))
           \/ \E o \in Offers : Decline(o)
           \/ OpenTransfer \/ CloseTransfer
           \/ Deciding \/ Tick \/ Crash
           \/ \E s \in Stays : ExpireLease(s)
  BY <1>1, AsideKeeps
<1>2. CASE \E gap \in {0, 1} : DirectRenew(gap)
  BY <1>2, RenewalsKeep
<1>3. ASSUME NEW w \in Workers,
             Extending(w) \/ Offering(w) \/ Signing(w) \/ Ending(w)
      PROVE  PaperInv'
  <2>1. CASE Extending(w)
    BY <2>1, HandlersAside, RenewalsKeep DEF Extending
  <2>2. CASE Offering(w)
    BY <2>2, HandlersAside, RenewalsKeep DEF Offering
  <2>3. CASE Signing(w)
    BY <2>3, BeginningsKeep, EditsKeep DEF Signing
  <2>4. CASE Ending(w)
    BY <2>4, HandlersAside, DeparturesKeep DEF Ending
  <2>. QED BY <1>3, <2>1, <2>2, <2>3, <2>4
<1>4. CASE Lock
  BY <1>4, BeginningsKeep
<1>5. ASSUME NEW p \in Preparers, PreparerNext(p) PROVE PaperInv'
  BY <1>5, DraftKeeps, EditsKeep, AsideKeeps DEF PreparerNext
<1>6. CASE NightlyActivation
  BY <1>6, ActivatePapers DEF NightlyActivation
<1>7. CASE \E c \in Contracts : MarkPrinted(c)
  BY <1>7, EditsKeep
<1>8. CASE Leave
  BY <1>8, DeparturesKeep
<1>9. CASE CutOver
  BY <1>9, CutOverPapers
<1>. QED BY <1>1, <1>2, <1>3, <1>4, <1>5, <1>6, <1>7, <1>8, <1>9 DEF Next

LEMMA InitPapers == Init => PaperInv
PROOF
<1> SUFFICES ASSUME Init PROVE PaperInv
  OBVIOUS
<1>1. PICK status \in {"active", "published"} :
         contracts = [c \in Contracts |-> IF c = 1
            THEN [NoContract EXCEPT !.purpose = "first", !.stay = 1,
                                    !.status = status, !.final = TRUE,
                                    !.current = TRUE]
            ELSE NoContract]
  BY DEF Init
<1>2. 1 \in Contracts
  BY StayAssumption DEF Contracts
<1>3. /\ contracts[1].purpose = "first" /\ contracts[1].stay = 1
      /\ contracts[1].status \in {"active", "published"}
      /\ contracts[1].final /\ contracts[1].current
  <2>1. contracts[1] =
           [NoContract EXCEPT !.purpose = "first", !.stay = 1,
                              !.status = status, !.final = TRUE,
                              !.current = TRUE]
    BY <1>1, <1>2
  <2>. QED BY <2>1 DEF NoContract
<1>4. \A c \in Contracts : c # 1 =>
         /\ contracts[c].purpose = "none" /\ contracts[c].status = "none"
         /\ ~contracts[c].final /\ ~contracts[c].current
  <2>1. \A c \in Contracts : c # 1 => contracts[c] = NoContract
    BY <1>1
  <2>. QED BY <2>1 DEF NoContract
<1>5. reservation.status = "moveIn" /\ reservation.stay = 1
  BY DEF Init
<1>6. UniqueCurrent
  BY <1>2, <1>3, <1>4, <1>5 DEF UniqueCurrent, MovedIn
<1>7. Upcoming = {}
  <2>1. stays = [s \in Stays |-> IF s = 1
          THEN [NoStay EXCEPT !.status = "active", !.end = Term - 1]
          ELSE NoStay]
    BY DEF Init
  <2>2. \A s \in Stays : stays[s].status \in {"active", "none"}
    BY <2>1 DEF NoStay
  <2>. QED BY <2>2 DEF Upcoming
<1>8. PlannedLater
  BY <1>7 DEF PlannedLater
<1>9. PapersInv
  BY <1>3, <1>4 DEF PapersInv, Visible
<1>10. DraftsInv
  BY DEF Init, DraftsInv
<1>11. UploadsInv
  BY DEF Init, UploadsInv, Uploading
<1>. QED BY <1>6, <1>8, <1>9, <1>10, <1>11 DEF PaperInv

\* While the tenant lives there exactly one contract is current and it is the
\* one of the stay in force, whatever renewals, transfers, stalled
\* preparations, uploads and restarts do to it, as long as no contract is
\* uploaded twice at a time; after the move-out none is.
THEOREM OneContractIsCurrent ==
    Spec /\ []OneUploadEach => []CurrentContract
PROOF
<1>1. PaperInv /\ OneUploadEach /\ IInv /\ IInv' /\ [Next]_vars => PaperInv'
  BY NextPapers
<1>2. IInv /\ PaperInv => CurrentContract
  BY CurrentIs DEF IInv, PaperInv
<1>. QED BY <1>1, <1>2, InitPapers, Invariance, PTL DEF Spec

\* Of a server that runs one request at a time nothing else is asked, which
\* is the instance the run checks.
THEOREM OneRequestAtATime ==
    (\A v, w \in Workers : v = w) => (Spec => []CurrentContract)
PROOF
<1> SUFFICES ASSUME \A v, w \in Workers : v = w PROVE Spec => []CurrentContract
  OBVIOUS
<1>1. OneUploadEach
  BY DEF OneUploadEach
<1>2. []OneUploadEach
  BY <1>1, PTL
<1>. QED BY <1>2, OneContractIsCurrent, PTL
=============================================================================
