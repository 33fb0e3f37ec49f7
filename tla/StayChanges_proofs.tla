------------------------- MODULE StayChanges_proofs -------------------------
(***************************************************************************)
(* What StayChanges guarantees for every number of stays, contracts,       *)
(* requests, offers, days, restarts and handlers that overlap.             *)
(***************************************************************************)
EXTENDS StayChanges, CountingLemmas, FiniteSetTheorems, TLAPS

-----------------------------------------------------------------------------
(* The inductive invariant                                                 *)

Upcoming == {s \in Stays : stays[s].status = "upcoming"}

\* While the tenant lives there, the reservation points at the one stay that
\* is in force, and what is planned follows it; afterwards there is neither.
StayInv ==
    /\ Active = IF MovedIn THEN {reservation.stay} ELSE {}
    /\ ~MovedIn => Upcoming = {}
    /\ \A s \in Upcoming : stays[s].prev = reservation.stay
    /\ \A s, t \in Upcoming : s = t

\* A number that is not taken carries nothing, and a renewal contract is for
\* a stay that was created.
ContractInv ==
    \A c \in Contracts :
       /\ contracts[c].status = "none" =>
             contracts[c].purpose = "none" /\ ~contracts[c].final
       /\ contracts[c].purpose = "renewal" => contracts[c].stay \in Used

\* So is what a preparation works for.
PreparerInv ==
    \A p \in Preparers : preparer[p] # Idle => preparer[p].stay \in Used

\* What a handler carries names a document; an acceptance in flight holds its
\* offer, which no stay has taken yet; who settles has an open clearance.
JobInv(j) ==
    /\ j.op = "approve" => j.n \in Requests
    /\ j.op = "accept" =>
          /\ j.n \in Offers
          /\ reservation.offers[j.n] \in {"accepted", "cancelled"}
          /\ \A s \in Used : stays[s].offer # j.n
    /\ j.op = "withdraw" => j.n \in Offers
    /\ j.op = "settle" => clearance # "none"

Accepting(w, o) ==
    worker[w] # Idle /\ worker[w].op = "accept" /\ worker[w].n = o

WorkerInv ==
    /\ \A w \in Workers : worker[w] # Idle => JobInv(worker[w])
    /\ \A o \in Offers : \A v, w \in Workers :
          Accepting(v, o) /\ Accepting(w, o) => v = w

IInv ==
    /\ TypeOK
    /\ StayInv
    /\ ContractInv
    /\ PreparerInv
    /\ WorkerInv
    /\ PlansExclude
    /\ OfferAnsweredOnce

-----------------------------------------------------------------------------
(* What survives a step                                                    *)

\* A stay that was created stays created.
StaysRemain == \A s \in Stays : stays[s].status # "none" => stays'[s].status # "none"

\* No stay comes about by an offer.
NoOfferTaken ==
    \A s \in Stays :
       stays'[s].status # "none" =>
          \/ stays'[s].offer = None
          \/ stays[s].status # "none" /\ stays'[s].offer = stays[s].offer

\* An offer that was accepted is not open again.
AnswersRemain ==
    \A o \in Offers : reservation.offers[o] \in {"accepted", "cancelled"} =>
                         reservation'.offers[o] \in {"accepted", "cancelled"}

\* The same stay is in force, and the same stays are there.
LEMMA StaysKept ==
    ASSUME StayInv, stays' = stays,
           reservation'.status = reservation.status,
           reservation'.stay = reservation.stay
    PROVE  StayInv' /\ StaysRemain /\ NoOfferTaken
PROOF
<1>1. /\ Active' = Active /\ Upcoming' = Upcoming /\ MovedIn' = MovedIn
  BY DEF Active, Upcoming, MovedIn
<1>. QED BY <1>1 DEF StayInv, StaysRemain, NoOfferTaken

LEMMA UsedRemain ==
    ASSUME StaysRemain
    PROVE  \A s \in Used : s \in Used'
PROOF
BY DEF StaysRemain, Used

LEMMA ContractsKept ==
    ASSUME ContractInv, StaysRemain, contracts' = contracts
    PROVE  ContractInv'
PROOF
BY UsedRemain DEF ContractInv

LEMMA PreparersKept ==
    ASSUME PreparerInv, StaysRemain,
           \A p \in Preparers : \/ preparer'[p] = preparer[p]
                                \/ preparer'[p] = Idle
                                \/ preparer'[p].stay \in Used
    PROVE  PreparerInv'
PROOF
BY UsedRemain DEF PreparerInv

\* A handler goes on soundly, and accepts no other offer than it did.
GoesOn(w) ==
    /\ JobInv(worker[w])'
    /\ worker'[w].op = "accept" =>
          /\ worker[w] # Idle /\ worker[w].op = "accept"
          /\ worker[w].n = worker'[w].n

LEMMA JobKept ==
    ASSUME NEW j, JobInv(j), NoOfferTaken, AnswersRemain,
           clearance # "none" => clearance' # "none"
    PROVE  JobInv(j)'
PROOF
BY DEF JobInv, NoOfferTaken, AnswersRemain, Used, Offers, None

LEMMA WorkersKept ==
    ASSUME WorkerInv, NoOfferTaken, AnswersRemain,
           clearance # "none" => clearance' # "none",
           \A w \in Workers : worker'[w] = worker[w] \/ worker'[w] = Idle \/ GoesOn(w)
    PROVE  WorkerInv'
PROOF
<1>1. ASSUME NEW w \in Workers, worker'[w] # Idle PROVE JobInv(worker[w])'
  <2>1. CASE worker'[w] = worker[w]
    <3>1. \A j : JobInv(j) => JobInv(j)'
      BY JobKept
    <3>2. JobInv(worker[w])
      BY <1>1, <2>1 DEF WorkerInv
    <3>. QED BY <2>1, <3>1, <3>2
  <2>. QED BY <1>1, <2>1 DEF GoesOn
<1>2. \A o \in Offers : \A w \in Workers : Accepting(w, o)' => Accepting(w, o)
  BY DEF Accepting, GoesOn
<1>. QED BY <1>1, <1>2 DEF WorkerInv

LEMMA OffersKept ==
    ASSUME TypeOK, OfferAnsweredOnce, NoOfferTaken, AnswersRemain
    PROVE  OfferAnsweredOnce'
PROOF
<1>1. \A s \in Stays : stays[s].offer \in 0..MaxOffers
  BY DEF TypeOK, Stay
<1>2. \A s \in Stays : stays[s].offer # None => stays[s].offer \in Offers
  BY <1>1, StayAssumption DEF Offers, None
<1>. QED BY <1>2 DEF OfferAnsweredOnce, NoOfferTaken, AnswersRemain, Used

LEMMA PlansKept ==
    ASSUME TypeOK, TypeOK', PlansExclude,
           \A q \in Requests : requests'[q].status = "pending" <=>
                               requests[q].status = "pending",
           reservation'.pending = reservation.pending,
           transfer' = "open" =>
              /\ transfer = "open"
              /\ clearance' = clearance
              /\ \A s \in Stays : stays'[s].status = "upcoming" =>
                    /\ stays[s].status = "upcoming"
                    /\ stays'[s].start = stays[s].start,
           day <= day'
    PROVE  PlansExclude'
PROOF
<1>1. {q \in Requests : requests[q].status = "pending"}' =
         {q \in Requests : requests[q].status = "pending"}
  OBVIOUS
<1>2. day \in Nat /\ day' \in Nat /\ \A s \in Stays : stays[s].start \in Nat
  BY DEF TypeOK, Stay
<1>. QED BY <1>1, <1>2 DEF PlansExclude, Used

-----------------------------------------------------------------------------
(* Steps that only read, or find that there is nothing to do               *)

\* The documents are left alone.
LEMMA QuietStep ==
    ASSUME IInv, UNCHANGED records,
           day' \in 0..MaxDay, day <= day', crashes' \in 0..MaxCrashes,
           worker' \in [Workers -> Job \cup {Idle}],
           preparer' \in [Preparers -> Preparation \cup {Idle}],
           \A p \in Preparers : preparer'[p] = preparer[p] \/ preparer'[p] = Idle,
           \A w \in Workers : worker'[w] = worker[w] \/ worker'[w] = Idle \/ GoesOn(w)
    PROVE  IInv'
PROOF
<1>1. /\ reservation' = reservation /\ stays' = stays /\ contracts' = contracts
      /\ requests' = requests /\ clearance' = clearance /\ reviews' = reviews
      /\ transfer' = transfer /\ lease' = lease
  BY DEF records
<1>2. TypeOK'
  BY <1>1 DEF IInv, TypeOK
<1>3. StayInv' /\ StaysRemain /\ NoOfferTaken
  BY <1>1, StaysKept DEF IInv
<1>4. AnswersRemain
  BY <1>1 DEF AnswersRemain
<1>5. ContractInv'
  BY <1>1, <1>3, ContractsKept DEF IInv
<1>6. PreparerInv'
  BY <1>3, PreparersKept DEF IInv
<1>7. WorkerInv'
  BY <1>1, <1>3, <1>4, WorkersKept DEF IInv
<1>8. PlansExclude'
  BY <1>1, <1>2, PlansKept DEF IInv
<1>9. OfferAnsweredOnce'
  BY <1>3, <1>4, OffersKept DEF IInv
<1>. QED BY <1>2, <1>3, <1>5, <1>6, <1>7, <1>8, <1>9 DEF IInv

\* A handler ends.
LEMMA DoneWorkers ==
    ASSUME TypeOK, NEW w \in Workers, Done(w)
    PROVE  /\ worker' \in [Workers -> Job \cup {Idle}]
           /\ worker'[w] = Idle
           /\ \A v \in Workers : v # w => worker'[v] = worker[v]
PROOF
BY DEF TypeOK, Done

LEMMA DoneKeeps ==
    ASSUME IInv, NEW w \in Workers, Done(w),
           UNCHANGED <<day, records, preparer, crashes>>
    PROVE  IInv'
PROOF
<1>1. /\ worker' \in [Workers -> Job \cup {Idle}]
      /\ \A v \in Workers : worker'[v] = worker[v] \/ worker'[v] = Idle
  BY DoneWorkers DEF IInv
<1>2. /\ day' = day /\ UNCHANGED records
      /\ preparer' = preparer /\ crashes' = crashes
  OBVIOUS
<1>3. /\ day \in 0..MaxDay /\ crashes \in 0..MaxCrashes
      /\ preparer \in [Preparers -> Preparation \cup {Idle}]
      /\ day <= day'
  BY <1>2, StayAssumption DEF IInv, TypeOK
<1>. QED BY <1>1, <1>2, <1>3, QuietStep

\* What a handler that begins carries.
LEMMA StartWorkers ==
    ASSUME TypeOK, NEW w \in Workers,
           NEW op \in {"approve", "accept", "withdraw", "offer", "clear",
                       "settle", "execute", "sign", "notarize"},
           NEW pc \in {"renew", "rollback", "write", "moveOut", "save"},
           NEW n \in Nat, NEW k \in Nat, Start(w, op, pc, n, k)
    PROVE  /\ worker[w] = Idle
           /\ worker' \in [Workers -> Job \cup {Idle}]
           /\ worker'[w] = [op |-> op, pc |-> pc, n |-> n, k |-> k]
           /\ worker'[w] # Idle
           /\ \A v \in Workers : v # w => worker'[v] = worker[v]
PROOF
<1>1. [op |-> op, pc |-> pc, n |-> n, k |-> k] \in Job
  BY DEF Job
<1>2. [op |-> op, pc |-> pc, n |-> n, k |-> k] # Idle
  BY DEF Idle
<1>. QED BY <1>1, <1>2 DEF Start, TypeOK

LEMMA StartKeeps ==
    ASSUME IInv, NEW w \in Workers,
           NEW op \in {"approve", "withdraw", "offer", "clear", "settle",
                       "execute", "sign", "notarize"},
           NEW pc \in {"renew", "rollback", "write", "moveOut", "save"},
           NEW n \in Nat, NEW k \in Nat, Start(w, op, pc, n, k),
           op = "approve" => n \in Requests,
           op = "withdraw" => n \in Offers,
           op = "settle" => clearance # "none",
           UNCHANGED <<day, records, preparer, crashes>>
    PROVE  IInv'
PROOF
<1>1. /\ worker' \in [Workers -> Job \cup {Idle}]
      /\ worker'[w] = [op |-> op, pc |-> pc, n |-> n, k |-> k]
      /\ \A v \in Workers : v # w => worker'[v] = worker[v]
  BY StartWorkers DEF IInv
<1>2. /\ day' = day /\ UNCHANGED records
      /\ preparer' = preparer /\ crashes' = crashes
  OBVIOUS
<1>3. /\ day \in 0..MaxDay /\ crashes \in 0..MaxCrashes
      /\ preparer \in [Preparers -> Preparation \cup {Idle}]
      /\ day <= day'
  BY <1>2, StayAssumption DEF IInv, TypeOK
<1>4. GoesOn(w)
  BY <1>1, <1>2 DEF GoesOn, JobInv, records
<1>. QED BY <1>1, <1>2, <1>3, <1>4, QuietStep

LEMMA ReadsKeep ==
    ASSUME IInv, NEW w \in Workers,
           \/ \E q \in Requests : ApproveRead(w, q)
           \/ OfferRead(w)
           \/ \E o \in Offers : WithdrawRead(w, o)
           \/ \E c \in Contracts : \E op \in {"sign", "notarize"} :
                 SignRead(w, c, op)
           \/ ClearRead(w)
           \/ SettleRead(w)
           \/ \E r \in Reviews : ExecuteRead(w, r)
    PROVE  IInv'
PROOF
<1>1. ASSUME NEW q \in Requests, ApproveRead(w, q) PROVE IInv'
  <2>1. requests[q].end + 1 \in Nat /\ q \in Nat
    BY DEF IInv, TypeOK, Request, Requests
  <2>. QED BY <1>1, <2>1, StartKeeps DEF ApproveRead
<1>2. CASE OfferRead(w)
  BY <1>2, StartKeeps DEF OfferRead, None
<1>3. ASSUME NEW o \in Offers, WithdrawRead(w, o) PROVE IInv'
  BY <1>3, StartKeeps DEF WithdrawRead, None, Offers
<1>4. ASSUME NEW c \in Contracts, NEW op \in {"sign", "notarize"},
             SignRead(w, c, op)
      PROVE  IInv'
  BY <1>4, StartKeeps DEF SignRead, None, Contracts
<1>5. CASE ClearRead(w)
  <2>1. Moves \in Nat
    <3>0. IsFiniteSet(Contracts)
      BY FS_Interval, StayAssumption DEF Contracts
    <3>1. IsFiniteSet({c \in Contracts : contracts[c].purpose = "transfer"})
      BY <3>0, FS_Subset
    <3>. QED BY <3>1, FS_CardinalityType DEF Moves
  <2>. QED BY <1>5, <2>1, StartKeeps DEF ClearRead, None
<1>6. CASE SettleRead(w)
  BY <1>6, StartKeeps DEF SettleRead, None
<1>7. ASSUME NEW r \in Reviews, ExecuteRead(w, r) PROVE IInv'
  <2>. DEFINE k == IF reviews[r].status = "open" THEN 1 ELSE 0
  <2>1. k \in Nat /\ r \in Nat
    BY DEF Reviews
  <2>2. /\ Start(w, "execute", "moveOut", r, k)
        /\ UNCHANGED <<day, records, preparer, crashes>>
    BY <1>7 DEF ExecuteRead
  <2>. HIDE DEF k
  <2>. QED BY <2>1, <2>2, StartKeeps
<1>. QED BY <1>1, <1>2, <1>3, <1>4, <1>5, <1>6, <1>7

LEMMA TickKeeps ==
    ASSUME IInv, Tick
    PROVE  IInv'
PROOF
<1>1. /\ day' = day + 1 /\ day < MaxDay /\ UNCHANGED records
      /\ worker' = worker /\ preparer' = preparer /\ crashes' = crashes
  BY DEF Tick
<1>2. /\ day' \in 0..MaxDay /\ day <= day'
      /\ crashes \in 0..MaxCrashes
      /\ worker \in [Workers -> Job \cup {Idle}]
      /\ preparer \in [Preparers -> Preparation \cup {Idle}]
  BY <1>1, StayAssumption DEF IInv, TypeOK
<1>. QED BY <1>1, <1>2, QuietStep

LEMMA CrashKeeps ==
    ASSUME IInv, Crash
    PROVE  IInv'
PROOF
<1>1. /\ day' = day /\ crashes' = crashes + 1 /\ crashes < MaxCrashes
      /\ UNCHANGED records
      /\ worker' = [w \in Workers |-> Idle]
      /\ preparer' = [p \in Preparers |-> Idle]
  BY DEF Crash
<1>2. /\ day' \in 0..MaxDay /\ day <= day'
      /\ crashes' \in 0..MaxCrashes
      /\ worker' \in [Workers -> Job \cup {Idle}]
      /\ preparer' \in [Preparers -> Preparation \cup {Idle}]
  BY <1>1, StayAssumption DEF IInv, TypeOK
<1>. QED BY <1>1, <1>2, QuietStep

-----------------------------------------------------------------------------
(* Renewal offers                                                          *)

\* The next number is above all that are taken.
LEMMA Next1Above ==
    ASSUME NEW S, NEW N \in Nat, S \subseteq 1..N
    PROVE  /\ Next1(S) \in 1..(N + 1)
           /\ Next1(S) \notin S
           /\ \A y \in S : y < Next1(S)
PROOF
<1> DEFINE m == Max(S \cup {0})
<1>1. m \in S \cup {0} /\ \A y \in S : y <= m
  BY MaxOrZero
<1>. HIDE DEF m
<1>2. m \in 0..N
  BY <1>1
<1>3. Next1(S) = m + 1
  BY DEF Next1, m
<1>4. \A y \in S : y < Next1(S)
  BY <1>1, <1>2, <1>3
<1>. QED BY <1>2, <1>3, <1>4

\* What SetOffer writes.
LEMMA SetOfferWrites ==
    ASSUME TypeOK, NEW o \in Offers,
           NEW st \in {"pending", "accepted", "declined", "cancelled"},
           SetOffer(o, st)
    PROVE  /\ reservation' \in Reservation
           /\ reservation'.status = reservation.status
           /\ reservation'.stay = reservation.stay
           /\ reservation'.pending = reservation.pending
           /\ reservation'.offers[o] = st
           /\ \A p \in Offers : p # o =>
                 reservation'.offers[p] = reservation.offers[p]
           /\ stays' = stays /\ contracts' = contracts
           /\ requests' = requests /\ clearance' = clearance
           /\ reviews' = reviews /\ transfer' = transfer /\ lease' = lease
PROOF
<1>1. reservation \in Reservation
  BY DEF TypeOK
<1>2. reservation' = [reservation EXCEPT !.offers =
                         [reservation.offers EXCEPT ![o] = st]]
  BY <1>1, Zenon DEF SetOffer, Reservation
<1> DEFINE f == [reservation.offers EXCEPT ![o] = st]
<1>3. /\ f \in [Offers -> {"none", "pending", "accepted", "declined",
                           "cancelled"}]
      /\ f[o] = st
      /\ \A p \in Offers : p # o => f[p] = reservation.offers[p]
  BY <1>1 DEF Reservation
<1>. HIDE DEF f
<1>4. reservation' = [reservation EXCEPT !.offers = f]
  BY <1>2 DEF f
<1>5. /\ reservation' \in Reservation
      /\ reservation'.status = reservation.status
      /\ reservation'.stay = reservation.stay
      /\ reservation'.pending = reservation.pending
      /\ reservation'.offers = f
  BY <1>1, <1>3, <1>4 DEF Reservation
<1>. QED BY <1>3, <1>5 DEF SetOffer

\* A step that changes an offer and handlers; what an acceptance holds is
\* shown by each.
LEMMA OfferStep ==
    ASSUME IInv, NEW o \in Offers,
           NEW st \in {"pending", "accepted", "declined", "cancelled"},
           SetOffer(o, st), UNCHANGED <<day, preparer, crashes>>,
           worker' \in [Workers -> Job \cup {Idle}],
           WorkerInv', OfferAnsweredOnce'
    PROVE  IInv'
PROOF
<1>1. /\ reservation' \in Reservation
      /\ reservation'.status = reservation.status
      /\ reservation'.stay = reservation.stay
      /\ reservation'.pending = reservation.pending
      /\ stays' = stays /\ contracts' = contracts
      /\ requests' = requests /\ clearance' = clearance
      /\ reviews' = reviews /\ transfer' = transfer /\ lease' = lease
  BY SetOfferWrites DEF IInv
<1>2. day' = day /\ preparer' = preparer /\ crashes' = crashes
  OBVIOUS
<1>3. TypeOK'
  BY <1>1, <1>2 DEF IInv, TypeOK
<1>4. StayInv' /\ StaysRemain /\ NoOfferTaken
  BY <1>1, StaysKept DEF IInv
<1>5. ContractInv'
  BY <1>1, <1>4, ContractsKept DEF IInv
<1>6. PreparerInv'
  BY <1>2, <1>4, PreparersKept DEF IInv
<1>7. PlansExclude'
  <2>1. day <= day'
    BY <1>2 DEF IInv, TypeOK
  <2>. QED BY <1>1, <1>3, <2>1, PlansKept DEF IInv
<1>. QED BY <1>3, <1>4, <1>5, <1>6, <1>7 DEF IInv

\* An answered offer keeps an answer, and handlers at most end.
LEMMA OfferAnswerStep ==
    ASSUME IInv, NEW o \in Offers,
           NEW st \in {"pending", "accepted", "declined", "cancelled"},
           SetOffer(o, st), UNCHANGED <<day, preparer, crashes>>,
           worker' \in [Workers -> Job \cup {Idle}],
           \A w \in Workers : worker'[w] = worker[w] \/ worker'[w] = Idle,
           st \in {"accepted", "cancelled"}
              \/ reservation.offers[o] \notin {"accepted", "cancelled"}
    PROVE  IInv'
PROOF
<1>1. /\ reservation'.offers[o] = st
      /\ \A p \in Offers : p # o =>
            reservation'.offers[p] = reservation.offers[p]
      /\ reservation'.status = reservation.status
      /\ reservation'.stay = reservation.stay
      /\ stays' = stays /\ clearance' = clearance
  BY SetOfferWrites DEF IInv
<1>2. AnswersRemain
  BY <1>1 DEF AnswersRemain
<1>3. NoOfferTaken
  BY <1>1, StaysKept DEF IInv
<1>4. WorkerInv'
  BY <1>1, <1>2, <1>3, WorkersKept DEF IInv
<1>5. OfferAnsweredOnce'
  BY <1>2, <1>3, OffersKept DEF IInv
<1>. QED BY <1>4, <1>5, OfferStep

LEMMA OfferWriteKeeps ==
    ASSUME IInv, NEW w \in Workers, OfferWrite(w)
    PROVE  IInv'
PROOF
<1>1. Done(w) /\ UNCHANGED <<day, preparer, crashes>>
  BY DEF OfferWrite
<1>2. CASE reservation.pending = None /\ ~PendingOffer
  <2>. DEFINE o == Next1(Made)
  <2>1. Made \subseteq 1..MaxOffers
    BY DEF Made, Offers
  <2>2. o \in Offers /\ o \notin Made
    <3>1. MaxOffers \in Nat
      BY StayAssumption
    <3>2. o \in 1..(MaxOffers + 1) /\ o \notin Made
      BY <2>1, <3>1, Next1Above
    <3>3. o <= MaxOffers
      BY DEF OfferWrite
    <3>. QED BY <3>1, <3>2, <3>3 DEF Offers
  <2>3. SetOffer(o, "pending")
    BY <1>2 DEF OfferWrite
  <2>. HIDE DEF o
  <2>4. reservation.offers[o] = "none"
    BY <2>2 DEF Made
  <2>. QED BY <1>1, <2>2, <2>3, <2>4, DoneWorkers, OfferAnswerStep DEF IInv
<1>3. CASE ~(reservation.pending = None /\ ~PendingOffer)
  BY <1>1, <1>3, DoneKeeps DEF OfferWrite
<1>. QED BY <1>2, <1>3

LEMMA WithdrawWriteKeeps ==
    ASSUME IInv, NEW w \in Workers, WithdrawWrite(w)
    PROVE  IInv'
PROOF
<1>1. /\ Done(w) /\ UNCHANGED <<day, preparer, crashes>>
      /\ SetOffer(worker[w].n, "cancelled")
  BY DEF WithdrawWrite
<1>2. worker[w].n \in Offers
  BY DEF WithdrawWrite, At, IInv, WorkerInv, JobInv
<1>. QED BY <1>1, <1>2, DoneWorkers, OfferAnswerStep DEF IInv

LEMMA DeclineKeeps ==
    ASSUME IInv, NEW o \in Offers, Decline(o)
    PROVE  IInv'
PROOF
<1>1. /\ UNCHANGED <<day, preparer, crashes>> /\ worker' = worker
      /\ SetOffer(o, "declined") /\ reservation.offers[o] = "pending"
  BY DEF Decline
<1>2. worker \in [Workers -> Job \cup {Idle}]
  BY DEF IInv, TypeOK
<1>. QED BY <1>1, <1>2, OfferAnswerStep

\* An open offer is held by nobody and has become no stay.
LEMMA OpenOffer ==
    ASSUME IInv, NEW o \in Offers,
           reservation.offers[o] \notin {"accepted", "cancelled"}
    PROVE  /\ \A w \in Workers : ~Accepting(w, o)
           /\ \A s \in Used : stays[s].offer # o
PROOF
BY DEF IInv, WorkerInv, JobInv, Accepting, OfferAnsweredOnce, Offers, None

LEMMA AcceptClaimKeeps ==
    ASSUME IInv, NEW w \in Workers, NEW o \in Offers, AcceptClaim(w, o)
    PROVE  IInv'
PROOF
<1> DEFINE k == IF InForce = None THEN None ELSE stays[InForce].end + 1
<1>1. /\ reservation.offers[o] = "pending"
      /\ SetOffer(o, "accepted")
      /\ Start(w, "accept", "renew", o, k)
      /\ UNCHANGED <<day, preparer, crashes>>
  BY DEF AcceptClaim, Acceptable
<1>2. k \in Nat /\ o \in Nat
  <2>1. Active \cup {None} \subseteq 0..MaxStays
    BY StayAssumption DEF Active, Stays, None
  <2>2. InForce \in Active \cup {None}
    BY <2>1, MaxIn, StayAssumption DEF InForce, None
  <2>3. InForce # None => stays[InForce].end \in Nat
    BY <2>2 DEF Active, IInv, TypeOK, Stay
  <2>. QED BY <2>3 DEF None, Offers
<1>. HIDE DEF k
<1>3. /\ worker' \in [Workers -> Job \cup {Idle}]
      /\ worker'[w] = [op |-> "accept", pc |-> "renew", n |-> o, k |-> k]
      /\ \A v \in Workers : v # w => worker'[v] = worker[v]
  <2>1. TypeOK /\ Start(w, "accept", "renew", o, k)
    BY <1>1 DEF IInv
  <2>. QED BY <1>2, <2>1, StartWorkers
<1>4. /\ reservation'.offers[o] = "accepted"
      /\ \A p \in Offers : p # o =>
            reservation'.offers[p] = reservation.offers[p]
      /\ reservation'.status = reservation.status
      /\ reservation'.stay = reservation.stay
      /\ stays' = stays /\ clearance' = clearance
  BY <1>1, SetOfferWrites DEF IInv
<1>5. AnswersRemain
  BY <1>4 DEF AnswersRemain
<1>6. NoOfferTaken
  BY <1>4, StaysKept DEF IInv
<1>7. OfferAnsweredOnce'
  BY <1>5, <1>6, OffersKept DEF IInv
<1>8. /\ \A v \in Workers : ~Accepting(v, o)
      /\ \A s \in Used : stays[s].offer # o
  BY <1>1, OpenOffer
<1>9. WorkerInv'
  <2>1. ASSUME NEW v \in Workers, worker'[v] # Idle PROVE JobInv(worker[v])'
    <3>1. CASE v = w
      BY <1>3, <1>4, <1>8, <3>1 DEF JobInv, Used
    <3>2. CASE v # w
      <4>1. \A j : JobInv(j) => JobInv(j)'
        BY <1>4, <1>5, <1>6, JobKept
      <4>2. JobInv(worker[v]) /\ worker'[v] = worker[v]
        BY <1>3, <2>1, <3>2 DEF IInv, WorkerInv
      <4>. QED BY <4>1, <4>2
    <3>. QED BY <3>1, <3>2
  <2>2. \A p \in Offers : \A v \in Workers :
           Accepting(v, p)' => IF v = w THEN p = o ELSE Accepting(v, p)
    BY <1>3 DEF Accepting
  <2>. QED BY <1>8, <2>1, <2>2 DEF IInv, WorkerInv
<1>. QED BY <1>1, <1>3, <1>7, <1>9, OfferStep

LEMMA AcceptRollbackKeeps ==
    ASSUME IInv, NEW w \in Workers, AcceptRollback(w)
    PROVE  IInv'
PROOF
<1> DEFINE o == worker[w].n
<1>1. Done(w) /\ UNCHANGED <<day, preparer, crashes>>
  BY DEF AcceptRollback
<1>2. CASE reservation.offers[o] = "accepted"
  <2>1. o \in Offers /\ Accepting(w, o) /\ \A s \in Used : stays[s].offer # o
    BY DEF AcceptRollback, At, IInv, WorkerInv, JobInv, Accepting
  <2>2. SetOffer(o, "pending")
    BY <1>2 DEF AcceptRollback
  <2>. HIDE DEF o
  <2>3. /\ worker' \in [Workers -> Job \cup {Idle}]
        /\ worker'[w] = Idle
        /\ \A v \in Workers : v # w => worker'[v] = worker[v]
    BY <1>1, DoneWorkers DEF IInv
  <2>4. /\ \A p \in Offers : p # o =>
              reservation'.offers[p] = reservation.offers[p]
        /\ stays' = stays /\ clearance' = clearance
    BY <2>1, <2>2, SetOfferWrites DEF IInv
  <2>5. OfferAnsweredOnce'
    <3>1. ASSUME NEW s \in Used, stays[s].offer # None
          PROVE  stays[s].offer \in Offers /\ stays[s].offer # o
      <4>1. stays[s].offer \in 0..MaxOffers
        BY DEF IInv, TypeOK, Stay, Used
      <4>. QED BY <2>1, <3>1, <4>1, StayAssumption DEF Offers, None
    <3>2. Used' = Used
      BY <2>4 DEF Used
    <3>. QED BY <2>4, <3>1, <3>2 DEF IInv, OfferAnsweredOnce
  <2>6. WorkerInv'
    <3>1. ASSUME NEW v \in Workers, worker'[v] # Idle
          PROVE  JobInv(worker[v])'
      <4>1. /\ v # w /\ worker'[v] = worker[v] /\ JobInv(worker[v])
            /\ ~Accepting(v, o)
        BY <2>1, <2>3, <3>1 DEF IInv, WorkerInv
      <4>2. worker[v] # Idle
        BY <3>1, <4>1
      <4>. QED BY <2>4, <4>1, <4>2 DEF JobInv, Accepting, Used
    <3>2. \A p \in Offers : \A v \in Workers :
             Accepting(v, p)' => Accepting(v, p)
      BY <2>3 DEF Accepting
    <3>. QED BY <3>1, <3>2 DEF IInv, WorkerInv
  <2>. QED BY <1>1, <2>1, <2>2, <2>3, <2>5, <2>6, OfferStep
<1>3. CASE reservation.offers[o] # "accepted"
  BY <1>1, <1>3, DoneKeeps DEF AcceptRollback
<1>. QED BY <1>2, <1>3

-----------------------------------------------------------------------------
(* Extension requests                                                      *)

\* The newest active stay is the one the reservation points at.
LEMMA InForceIs ==
    ASSUME TypeOK, StayInv
    PROVE  /\ InForce \in Active \cup {None}
           /\ MovedIn => InForce = reservation.stay /\ InForce \in Stays
           /\ ~MovedIn => InForce = None
           /\ InForce # None => MovedIn /\ InForce \in Stays
PROOF
<1>1. Active \subseteq 1..MaxStays /\ MaxStays \in Nat
  BY StayAssumption DEF Active, Stays
<1>2. /\ InForce \in Active \cup {None}
      /\ Active # {} => InForce \in Active
  BY <1>1, MaxOrZero DEF InForce, None
<1>3. reservation.stay \in Stays
  BY DEF TypeOK, Reservation
<1>. QED BY <1>1, <1>2, <1>3 DEF StayInv, Stays, None

\* The authoritative contract is a contract, if there is one.
LEMMA LeaseIs ==
    Lease \in Contracts \cup {None} /\ (Lease # None => contracts[Lease].current)
PROOF
<1> DEFINE S == {c \in Contracts : /\ contracts[c].current
                                   /\ contracts[c].status \in Visible}
<1>1. S \subseteq 1..(MaxStays + MaxMoves) /\ MaxStays + MaxMoves \in Nat
  BY StayAssumption DEF Contracts
<1>2. Lease \in S \cup {0}
  <2>. HIDE DEF S
  <2>1. Max(S \cup {0}) \in S \cup {0}
    BY <1>1, MaxOrZero
  <2>2. Lease = Max(S \cup {0})
    BY DEF Lease, S, None
  <2>. QED BY <2>1, <2>2
<1>. QED BY <1>2 DEF None

\* A step that changes a request and the reservation's pointer to it.
LEMMA RequestStep ==
    ASSUME IInv, UNCHANGED <<day, stays, contracts, clearance, reviews,
                             transfer, lease, worker, preparer, crashes>>,
           requests' \in [Requests -> Request],
           reservation' \in Reservation,
           reservation'.status = reservation.status,
           reservation'.stay = reservation.stay,
           reservation'.offers = reservation.offers,
           PlansExclude'
    PROVE  IInv'
PROOF
<1>1. /\ day' = day /\ stays' = stays /\ contracts' = contracts
      /\ clearance' = clearance /\ reviews' = reviews
      /\ transfer' = transfer /\ lease' = lease /\ worker' = worker
      /\ preparer' = preparer /\ crashes' = crashes
  OBVIOUS
<1>2. TypeOK'
  BY <1>1 DEF IInv, TypeOK
<1>3. StayInv' /\ StaysRemain /\ NoOfferTaken
  BY <1>1, StaysKept DEF IInv
<1>4. AnswersRemain
  BY DEF AnswersRemain
<1>5. ContractInv'
  BY <1>1, <1>3, ContractsKept DEF IInv
<1>6. PreparerInv'
  BY <1>1, <1>3, PreparersKept DEF IInv
<1>7. WorkerInv'
  BY <1>1, <1>3, <1>4, WorkersKept DEF IInv
<1>8. OfferAnsweredOnce'
  BY <1>3, <1>4, OffersKept DEF IInv
<1>. QED BY <1>2, <1>3, <1>5, <1>6, <1>7, <1>8 DEF IInv

\* The reservation's pointer alone.
LEMMA PendingWrites ==
    ASSUME TypeOK, NEW q \in 0..MaxRequests,
           reservation' = [reservation EXCEPT !.pending = q]
    PROVE  /\ reservation' \in Reservation
           /\ reservation'.status = reservation.status
           /\ reservation'.stay = reservation.stay
           /\ reservation'.offers = reservation.offers
           /\ reservation'.pending = q
PROOF
<1>1. reservation \in Reservation
  BY DEF TypeOK
<1>. QED BY <1>1 DEF Reservation

LEMMA CreateExtensionKeeps ==
    ASSUME IInv, CreateExtension
    PROVE  IInv'
PROOF
<1> DEFINE q == Next1(Submitted)
           r == [status |-> "pending", stay |-> InForce, contract |-> Lease,
                 end |-> stays[InForce].end, successor |-> None]
<1>1. /\ UNCHANGED <<day, stays, contracts, clearance, reviews,
                     transfer, lease, worker, preparer, crashes>>
      /\ q <= MaxRequests /\ Context /\ NoConflicts
      /\ reservation.pending = None
      /\ requests' = [requests EXCEPT ![q] = r]
      /\ reservation' = [reservation EXCEPT !.pending = q]
      /\ \A p \in Requests : requests[p].status # "pending"
  BY DEF CreateExtension
<1>2. q \in Requests
  <2>1. Submitted \subseteq 1..MaxRequests /\ MaxRequests \in Nat
    BY StayAssumption DEF Submitted, Requests
  <2>2. q \in 1..(MaxRequests + 1)
    BY <2>1, Next1Above
  <2>. QED BY <1>1, <2>1, <2>2 DEF Requests
<1>3. /\ InForce \in Stays /\ Lease \in Contracts \cup {None}
      /\ stays[InForce].end \in Nat
  <2>1. InForce \in Stays
    BY <1>1, InForceIs DEF Context, IInv
  <2>. QED BY <2>1, LeaseIs DEF IInv, TypeOK, Stay
<1>4. r \in Request
  BY <1>3, StayAssumption DEF Request, Stays, None
<1>. HIDE DEF q
<1>5. requests \in [Requests -> Request] /\ q \in 0..MaxRequests /\ q # None
  BY <1>2 DEF IInv, TypeOK, Requests, None
<1>6. /\ requests' \in [Requests -> Request]
      /\ requests'[q].status = "pending"
      /\ \A p \in Requests : p # q => requests'[p] = requests[p]
  BY <1>1, <1>2, <1>4, <1>5
<1>7. /\ reservation' \in Reservation
      /\ reservation'.status = reservation.status
      /\ reservation'.stay = reservation.stay
      /\ reservation'.offers = reservation.offers
      /\ reservation'.pending = q
  BY <1>1, <1>5, PendingWrites DEF IInv
<1>8. PlansExclude'
  BY <1>1, <1>2, <1>5, <1>6, <1>7 DEF PlansExclude, NoConflicts
<1>. QED BY <1>1, <1>6, <1>7, <1>8, RequestStep

LEMMA RejectKeeps ==
    ASSUME IInv, NEW q \in Requests, Reject(q)
    PROVE  IInv'
PROOF
<1>1. /\ UNCHANGED <<day, stays, contracts, clearance, reviews,
                     transfer, lease, worker, preparer, crashes>>
      /\ requests[q].status = "pending"
      /\ requests' = [requests EXCEPT ![q] = Rejected(q)]
      /\ reservation' = IF reservation.pending = q
                           THEN [reservation EXCEPT !.pending = None]
                           ELSE reservation
  BY DEF Reject
<1>2. requests \in [Requests -> Request] /\ reservation \in Reservation
  BY DEF IInv, TypeOK
<1>3. Rejected(q) \in Request /\ Rejected(q).status = "rejected"
  BY <1>2 DEF Rejected, Request
<1>4. /\ requests' \in [Requests -> Request]
      /\ requests'[q].status = "rejected"
      /\ \A p \in Requests : p # q => requests'[p] = requests[p]
  BY <1>1, <1>2, <1>3
<1>5. /\ reservation.pending = q /\ q # None
      /\ \A p \in Requests : requests[p].status = "pending" => p = q
  BY <1>1 DEF IInv, PlansExclude, Requests, None
<1>6. /\ reservation' \in Reservation
      /\ reservation'.status = reservation.status
      /\ reservation'.stay = reservation.stay
      /\ reservation'.offers = reservation.offers
      /\ reservation'.pending = None
  BY <1>1, <1>5, PendingWrites, StayAssumption DEF IInv, None
<1>7. PlansExclude'
  BY <1>1, <1>4, <1>5, <1>6 DEF IInv, PlansExclude
<1>. QED BY <1>1, <1>4, <1>6, <1>7, RequestStep

-----------------------------------------------------------------------------
(* Renewals                                                                *)

\* What a renewal creates.
LEMMA RenewWrites ==
    ASSUME TypeOK, NEW q \in 0..MaxRequests, NEW o \in 0..MaxOffers,
           NEW start \in Nat, Renew(q, o, start), InForce \in Stays
    PROVE  /\ Next1(Used) \in Stays /\ Next1(Used) \notin Used
           /\ \A s \in Used : s < Next1(Used)
           /\ stays' \in [Stays -> Stay]
           /\ stays'[Next1(Used)] =
                 [status |-> "upcoming", start |-> start,
                  end |-> start + Term - 1, prev |-> InForce, offer |-> o]
           /\ \A s \in Stays : s # Next1(Used) => stays'[s] = stays[s]
PROOF
<1> DEFINE n == Next1(Used)
           d == [status |-> "upcoming", start |-> start,
                 end |-> start + Term - 1, prev |-> InForce, offer |-> o]
<1>1. MaxStays \in Nat /\ Used \subseteq 1..MaxStays
  BY StayAssumption DEF Used, Stays
<1>2. n \in 1..(MaxStays + 1) /\ n \notin Used /\ \A s \in Used : s < n
  BY <1>1, Next1Above
<1>3. n <= MaxStays /\ stays' = [stays EXCEPT ![n] = d]
  BY DEF Renew
<1>. HIDE DEF n
<1>4. n \in Stays
  BY <1>1, <1>2, <1>3 DEF Stays
<1>5. start + Term - 1 \in Nat
  BY StayAssumption
<1>6. d \in Stay
  BY <1>5 DEF Stay, Stays
<1>7. stays \in [Stays -> Stay]
  BY DEF TypeOK
<1>8. /\ stays' \in [Stays -> Stay]
      /\ stays'[n] = d
      /\ \A s \in Stays : s # n => stays'[s] = stays[s]
  BY <1>3, <1>4, <1>6, <1>7
<1>. QED BY <1>2, <1>4, <1>8 DEF n

\* The plan that is made is the only one.
LEMMA RenewStays ==
    ASSUME TypeOK, StayInv, NEW q \in 0..MaxRequests, NEW o \in 0..MaxOffers,
           NEW start \in Nat, RenewAllowed(q, start), Renew(q, o, start),
           reservation'.status = reservation.status,
           reservation'.stay = reservation.stay
    PROVE  /\ StayInv' /\ StaysRemain
           /\ Upcoming = {} /\ Upcoming' = {Next1(Used)}
           /\ Active' = Active
PROOF
<1> DEFINE n == Next1(Used)
<1>1. InForce \in Stays /\ MovedIn /\ InForce = reservation.stay
  BY InForceIs DEF RenewAllowed
<1>2. Upcoming = {}
  BY <1>1 DEF RenewAllowed, StayInv, Upcoming, Used
<1>3. /\ n \in Stays /\ n \notin Used
      /\ stays'[n].status = "upcoming" /\ stays'[n].prev = InForce
      /\ \A s \in Stays : s # n => stays'[s] = stays[s]
  <2>1. /\ n \in Stays /\ n \notin Used
        /\ stays'[n] = [status |-> "upcoming", start |-> start,
                        end |-> start + Term - 1, prev |-> InForce,
                        offer |-> o]
        /\ \A s \in Stays : s # n => stays'[s] = stays[s]
    BY <1>1, RenewWrites
  <2>. HIDE DEF n
  <2>. QED BY <2>1
<1>. HIDE DEF n
<1>4. stays[n].status = "none"
  BY <1>3 DEF Used
<1>5. Upcoming' = {n}
  BY <1>2, <1>3 DEF Upcoming
<1>6. Active' = Active
  BY <1>3, <1>4 DEF Active
<1>7. StaysRemain
  BY <1>3, <1>4 DEF StaysRemain
<1>8. MovedIn' = MovedIn
  BY DEF MovedIn
<1>9. StayInv'
  BY <1>1, <1>3, <1>5, <1>6, <1>8 DEF StayInv
<1>. QED BY <1>2, <1>5, <1>6, <1>7, <1>9 DEF n

\* A renewal for a request or for none, by whoever asks; what it does to
\* offers and handlers is shown by each.
LEMMA RenewStep ==
    ASSUME IInv, NEW q \in 0..MaxRequests, NEW o \in 0..MaxOffers,
           NEW start \in Nat, RenewAllowed(q, start), Renew(q, o, start),
           worker' \in [Workers -> Job \cup {Idle}],
           UNCHANGED <<day, preparer, crashes>>,
           WorkerInv', OfferAnsweredOnce'
    PROVE  IInv'
PROOF
<1>1. TypeOK /\ StayInv
  BY DEF IInv
<1>2. InForce \in Stays /\ MovedIn
  BY <1>1, InForceIs DEF RenewAllowed
<1>3. stays' \in [Stays -> Stay]
  BY <1>1, <1>2, RenewWrites
<1>4. Next1(Used) \in Stays
  BY <1>1, <1>2, RenewWrites
<1>5. /\ contracts' = contracts /\ clearance' = clearance
      /\ reviews' = reviews /\ transfer' = transfer /\ lease' = lease
      /\ day' = day /\ preparer' = preparer /\ crashes' = crashes
      /\ transfer = "none"
  BY DEF Renew, RenewAllowed
<1>6. /\ requests' \in [Requests -> Request] /\ reservation' \in Reservation
      /\ reservation'.status = reservation.status
      /\ reservation'.stay = reservation.stay
      /\ {p \in Requests : requests'[p].status = "pending"} =
            {reservation'.pending} \ {None}
  <2>1. CASE q = None
    BY <2>1 DEF Renew, IInv, TypeOK, PlansExclude
  <2>2. CASE q # None
    <3>. DEFINE n == Next1(Used)
    <3>1. /\ requests' = [requests EXCEPT ![q].status = "approved",
                                          ![q].successor = n]
          /\ reservation' = [reservation EXCEPT !.pending = None]
          /\ n \in 0..MaxStays
      BY <1>4, <2>2 DEF Renew, Stays
    <3>. HIDE DEF n
    <3>2. q \in Requests /\ requests[q] \in Request
          /\ requests \in [Requests -> Request]
      BY <2>2, StayAssumption DEF Requests, None, IInv, TypeOK
    <3>3. requests'[q] = [[requests[q] EXCEPT !.status = "approved"]
                            EXCEPT !.successor = n]
      BY <3>1, <3>2, Zenon
    <3>4. requests'[q] \in Request /\ requests'[q].status = "approved"
      BY <3>1, <3>2, <3>3 DEF Request
    <3>5. \A p \in Requests : p # q => requests'[p] = requests[p]
      BY <3>1, <3>2, Zenon
    <3>6. requests' \in [Requests -> Request]
      BY <3>1, <3>2, <3>4, <3>5
    <3>7. /\ reservation' \in Reservation
          /\ reservation'.status = reservation.status
          /\ reservation'.stay = reservation.stay
          /\ reservation'.pending = None
      BY <1>1, <3>1, PendingWrites, StayAssumption DEF None
    <3>8. \A p \in Requests : requests[p].status = "pending" => p = q
      BY <2>2 DEF IInv, PlansExclude, RenewAllowed
    <3>. QED BY <3>4, <3>5, <3>6, <3>7, <3>8
  <2>. QED BY <2>1, <2>2
<1>7. TypeOK'
  BY <1>3, <1>5, <1>6 DEF IInv, TypeOK
<1>8. StayInv' /\ StaysRemain
  BY <1>1, <1>6, RenewStays
<1>9. ContractInv'
  BY <1>5, <1>8, ContractsKept DEF IInv
<1>10. PreparerInv'
  BY <1>5, <1>8, PreparersKept DEF IInv
<1>11. PlansExclude'
  BY <1>5, <1>6 DEF PlansExclude
<1>. QED BY <1>7, <1>8, <1>9, <1>10, <1>11 DEF IInv

LEMMA ApproveCommitKeeps ==
    ASSUME IInv, NEW w \in Workers, ApproveCommit(w)
    PROVE  IInv'
PROOF
<1> DEFINE q == worker[w].n
           start == worker[w].k
<1>1. Done(w) /\ UNCHANGED <<day, preparer, crashes>>
  BY DEF ApproveCommit
<1>2. worker[w] \in Job /\ JobInv(worker[w]) /\ worker[w].op = "approve"
  BY DEF ApproveCommit, At, IInv, WorkerInv, TypeOK
<1>3. q \in Requests /\ q \in 0..MaxRequests /\ start \in Nat
  BY <1>2 DEF JobInv, Job, Requests
<1>4. CASE RenewAllowed(q, start)
  <2>1. Renew(q, None, start)
    BY <1>4 DEF ApproveCommit
  <2>. HIDE DEF q, start
  <2>2. TypeOK /\ StayInv /\ WorkerInv /\ OfferAnsweredOnce
    BY DEF IInv
  <2>3. InForce \in Stays
    BY <1>4, <2>2, InForceIs DEF RenewAllowed
  <2>4. None \in 0..MaxOffers
    BY StayAssumption DEF None
  <2>5. NoOfferTaken
    <3>. DEFINE n == Next1(Used)
    <3>1. /\ stays'[n] = [status |-> "upcoming", start |-> start,
                          end |-> start + Term - 1, prev |-> InForce,
                          offer |-> None]
          /\ \A s \in Stays : s # n => stays'[s] = stays[s]
      BY <1>3, <2>1, <2>2, <2>3, <2>4, RenewWrites
    <3>. HIDE DEF n
    <3>. QED BY <3>1 DEF NoOfferTaken
  <2>6. AnswersRemain /\ clearance' = clearance
    <3>1. reservation'.offers = reservation.offers
      BY <2>1, <2>2 DEF Renew, TypeOK, Reservation
    <3>. QED BY <2>1, <3>1 DEF AnswersRemain, Renew
  <2>7. /\ worker' \in [Workers -> Job \cup {Idle}]
        /\ \A v \in Workers : worker'[v] = worker[v] \/ worker'[v] = Idle
    BY <1>1, <2>2, DoneWorkers
  <2>8. WorkerInv'
    BY <2>2, <2>5, <2>6, <2>7, WorkersKept
  <2>9. OfferAnsweredOnce'
    BY <2>2, <2>5, <2>6, OffersKept
  <2>. QED BY <1>1, <1>3, <1>4, <2>1, <2>4, <2>7, <2>8, <2>9, RenewStep
<1>5. CASE ~RenewAllowed(q, start)
  BY <1>1, <1>5, DoneKeeps DEF ApproveCommit
<1>. QED BY <1>4, <1>5

LEMMA DirectRenewKeeps ==
    ASSUME IInv, NEW gap \in {0, 1}, DirectRenew(gap)
    PROVE  IInv'
PROOF
<1> DEFINE start == stays[InForce].end + 1 + gap
<1>1. /\ InForce # None /\ RenewAllowed(None, start)
      /\ Renew(None, None, start)
      /\ day' = day /\ worker' = worker /\ preparer' = preparer
      /\ crashes' = crashes
  BY DEF DirectRenew
<1>2. TypeOK /\ StayInv /\ WorkerInv /\ OfferAnsweredOnce
  BY DEF IInv
<1>3. InForce \in Stays
  BY <1>1, <1>2, InForceIs
<1>4. start \in Nat
  BY <1>2, <1>3 DEF TypeOK, Stay
<1>5. None \in 0..MaxOffers /\ None \in 0..MaxRequests
  BY StayAssumption DEF None
<1>. HIDE DEF start
<1>6. NoOfferTaken
  <2>. DEFINE n == Next1(Used)
  <2>1. /\ stays'[n] = [status |-> "upcoming", start |-> start,
                        end |-> start + Term - 1, prev |-> InForce,
                        offer |-> None]
        /\ \A s \in Stays : s # n => stays'[s] = stays[s]
    BY <1>1, <1>2, <1>3, <1>4, <1>5, RenewWrites
  <2>. HIDE DEF n
  <2>. QED BY <2>1 DEF NoOfferTaken
<1>7. AnswersRemain /\ clearance' = clearance
  BY <1>1 DEF Renew, AnswersRemain
<1>8. worker' \in [Workers -> Job \cup {Idle}]
  BY <1>1, <1>2 DEF TypeOK
<1>9. WorkerInv'
  BY <1>1, <1>2, <1>6, <1>7, WorkersKept
<1>10. OfferAnsweredOnce'
  BY <1>2, <1>6, <1>7, OffersKept
<1>. QED BY <1>1, <1>4, <1>5, <1>8, <1>9, <1>10, RenewStep

LEMMA AcceptRenewKeeps ==
    ASSUME IInv, NEW w \in Workers, AcceptRenew(w)
    PROVE  IInv'
PROOF
<1> DEFINE o == worker[w].n
           start == worker[w].k
<1>1. day' = day /\ preparer' = preparer /\ crashes' = crashes
  BY DEF AcceptRenew
<1>2. /\ worker[w] # Idle /\ worker[w] \in Job /\ JobInv(worker[w])
      /\ worker[w].op = "accept"
  BY DEF AcceptRenew, At, IInv, WorkerInv, TypeOK
<1>3. /\ o \in Offers /\ o \in 0..MaxOffers /\ o # None /\ start \in Nat
      /\ reservation.offers[o] \in {"accepted", "cancelled"}
      /\ \A s \in Used : stays[s].offer # o
      /\ Accepting(w, o)
  BY <1>2 DEF JobInv, Job, Offers, None, Accepting
<1>4. TypeOK /\ StayInv /\ WorkerInv /\ OfferAnsweredOnce
  BY DEF IInv
<1>5. CASE RenewAllowed(None, start)
  <2>1. Renew(None, o, start) /\ Done(w)
    BY <1>5 DEF AcceptRenew
  <2>. HIDE DEF o, start
  <2>2. InForce \in Stays
    BY <1>4, <1>5, InForceIs DEF RenewAllowed
  <2>3. None \in 0..MaxRequests
    BY StayAssumption DEF None
  <2>. DEFINE n == Next1(Used)
  <2>4. /\ n \in Stays /\ n \notin Used
        /\ stays'[n].offer = o /\ stays'[n].status = "upcoming"
        /\ \A s \in Stays : s # n => stays'[s] = stays[s]
    <3>1. /\ n \in Stays /\ n \notin Used
          /\ stays'[n] = [status |-> "upcoming", start |-> start,
                          end |-> start + Term - 1, prev |-> InForce,
                          offer |-> o]
          /\ \A s \in Stays : s # n => stays'[s] = stays[s]
      BY <1>3, <1>4, <2>1, <2>2, <2>3, RenewWrites
    <3>. HIDE DEF n
    <3>. QED BY <3>1
  <2>. HIDE DEF n
  <2>5. reservation' = reservation /\ clearance' = clearance
    BY <2>1 DEF Renew
  <2>6. /\ worker' \in [Workers -> Job \cup {Idle}]
        /\ worker'[w] = Idle
        /\ \A v \in Workers : v # w => worker'[v] = worker[v]
    BY <1>4, <2>1, DoneWorkers
  <2>7. OfferAnsweredOnce'
    <3>1. \A s \in Stays : stays'[s].status # "none" /\ s # n => s \in Used
      BY <2>4 DEF Used
    <3>. QED BY <1>3, <1>4, <2>4, <2>5, <3>1 DEF OfferAnsweredOnce, Used
  <2>8. WorkerInv'
    <3>1. ASSUME NEW v \in Workers, worker'[v] # Idle
          PROVE  JobInv(worker[v])'
      <4>1. /\ v # w /\ worker'[v] = worker[v] /\ worker[v] # Idle
            /\ JobInv(worker[v]) /\ ~Accepting(v, o)
        BY <1>3, <1>4, <2>6, <3>1 DEF WorkerInv
      <4>. QED BY <2>4, <2>5, <4>1 DEF JobInv, Accepting, Used
    <3>2. \A p \in Offers : \A v \in Workers :
             Accepting(v, p)' => Accepting(v, p)
      BY <2>6 DEF Accepting
    <3>. QED BY <1>4, <3>1, <3>2 DEF WorkerInv
  <2>. QED BY <1>1, <1>3, <1>5, <2>1, <2>3, <2>6, <2>7, <2>8, RenewStep
<1>6. CASE ~RenewAllowed(None, start)
  <2>1. UNCHANGED records /\ worker' = [worker EXCEPT ![w].pc = "rollback"]
    BY <1>6 DEF AcceptRenew, Goto
  <2>2. worker'[w] = [worker[w] EXCEPT !.pc = "rollback"]
    BY <1>4, <2>1 DEF TypeOK
  <2>3. /\ worker'[w] \in Job
        /\ worker'[w].op = "accept" /\ worker'[w].n = worker[w].n
    BY <1>2, <2>2 DEF Job
  <2>4. /\ worker' \in [Workers -> Job \cup {Idle}]
        /\ \A v \in Workers : v # w => worker'[v] = worker[v]
    BY <1>4, <2>1, <2>3 DEF TypeOK
  <2>5. GoesOn(w)
    BY <1>2, <2>1, <2>3 DEF GoesOn, JobInv, records, Used
  <2>6. /\ day \in 0..MaxDay /\ crashes \in 0..MaxCrashes
        /\ preparer \in [Preparers -> Preparation \cup {Idle}]
        /\ day <= day'
    BY <1>1, <1>4 DEF TypeOK
  <2>. QED BY <1>1, <2>1, <2>4, <2>5, <2>6, QuietStep
<1>. QED BY <1>5, <1>6

-----------------------------------------------------------------------------
(* Contracts and their preparation                                         *)

\* A step that changes contracts and preparations, and may close a transfer.
LEMMA ContractStep ==
    ASSUME IInv, UNCHANGED <<day, reservation, stays, requests, clearance,
                             reviews, crashes>>,
           contracts' \in [Contracts -> Contract], ContractInv',
           transfer' \in {transfer, "none"},
           lease' \in [Stays -> Preparers \cup {Nobody}],
           worker' \in [Workers -> Job \cup {Idle}],
           \A w \in Workers : worker'[w] = worker[w] \/ worker'[w] = Idle,
           preparer' \in [Preparers -> Preparation \cup {Idle}],
           \A p \in Preparers : \/ preparer'[p] = preparer[p]
                                \/ preparer'[p] = Idle
                                \/ preparer'[p].stay \in Used
    PROVE  IInv'
PROOF
<1>1. /\ day' = day /\ reservation' = reservation /\ stays' = stays
      /\ requests' = requests /\ clearance' = clearance /\ reviews' = reviews
      /\ crashes' = crashes
  OBVIOUS
<1>2. TypeOK'
  BY <1>1 DEF IInv, TypeOK
<1>3. StayInv' /\ StaysRemain /\ NoOfferTaken
  BY <1>1, StaysKept DEF IInv
<1>4. AnswersRemain
  BY <1>1 DEF AnswersRemain
<1>5. PreparerInv'
  BY <1>3, PreparersKept DEF IInv
<1>6. WorkerInv'
  BY <1>1, <1>3, <1>4, WorkersKept DEF IInv
<1>7. PlansExclude'
  <2>1. day <= day'
    BY <1>1 DEF IInv, TypeOK
  <2>. QED BY <1>1, <1>2, <2>1, PlansKept DEF IInv
<1>8. OfferAnsweredOnce'
  BY <1>3, <1>4, OffersKept DEF IInv
<1>. QED BY <1>2, <1>3, <1>5, <1>6, <1>7, <1>8 DEF IInv

\* A contract that is written keeps its purpose and its stay.
LEMMA ContractsEdited ==
    ASSUME ContractInv, StaysRemain,
           \A c \in Contracts :
              \/ contracts'[c] = contracts[c]
              \/ /\ contracts'[c].purpose = contracts[c].purpose
                 /\ contracts'[c].stay = contracts[c].stay
                 /\ contracts'[c].status # "none"
              \/ /\ contracts'[c].purpose = "renewal" =>
                       contracts'[c].stay \in Used
                 /\ contracts'[c].status # "none"
    PROVE  ContractInv'
PROOF
BY UsedRemain DEF ContractInv

\* One contract changes its status.
LEMMA StatusEdited ==
    ASSUME TypeOK, NEW c \in Contracts,
           NEW st \in {"draft", "generated", "signing", "published", "active",
                       "replaced", "closed", "cancelled"},
           contracts' = [contracts EXCEPT ![c].status = st]
    PROVE  /\ contracts' \in [Contracts -> Contract]
           /\ contracts'[c].purpose = contracts[c].purpose
           /\ contracts'[c].stay = contracts[c].stay
           /\ contracts'[c].status = st
           /\ contracts'[c].final = contracts[c].final
           /\ \A d \in Contracts : d # c => contracts'[d] = contracts[d]
PROOF
<1>1. contracts \in [Contracts -> Contract] /\ contracts[c] \in Contract
  BY DEF TypeOK
<1>2. contracts'[c] = [contracts[c] EXCEPT !.status = st]
  BY <1>1
<1>3. /\ contracts'[c] \in Contract
      /\ contracts'[c].purpose = contracts[c].purpose
      /\ contracts'[c].stay = contracts[c].stay
      /\ contracts'[c].status = st
      /\ contracts'[c].final = contracts[c].final
  BY <1>1, <1>2 DEF Contract
<1>4. \A d \in Contracts : d # c => contracts'[d] = contracts[d]
  BY <1>1
<1>5. contracts' \in [Contracts -> Contract]
  BY <1>1, <1>3
<1>. QED BY <1>3, <1>4, <1>5

LEMMA LeaseKeeps ==
    ASSUME IInv,
           \/ Lock
           \/ \E p \in Preparers : PrepareUnlock(p)
           \/ \E s \in Stays : ExpireLease(s)
    PROVE  IInv'
PROOF
<1>1. /\ contracts \in [Contracts -> Contract] /\ ContractInv
      /\ lease \in [Stays -> Preparers \cup {Nobody}]
      /\ worker \in [Workers -> Job \cup {Idle}]
      /\ preparer \in [Preparers -> Preparation \cup {Idle}]
      /\ stays \in [Stays -> Stay]
  BY DEF IInv, TypeOK
<1>2. ASSUME UNCHANGED <<stays, contracts>> PROVE ContractInv'
  BY <1>1, <1>2 DEF ContractInv, Used
<1>3. ASSUME NEW p \in Preparers, NEW s \in Stays, PrepareLock(p, s)
      PROVE  IInv'
  <2>. DEFINE old == CurrentOf(stays[s].prev)
              j == [pc |-> "create", stay |-> s, old |-> old, made |-> None]
  <2>1. /\ UNCHANGED <<day, reservation, stays, requests, clearance, reviews,
                       crashes>>
        /\ contracts' = contracts /\ transfer' = transfer /\ worker' = worker
        /\ stays[s].status = "upcoming" /\ old # None
        /\ lease' = [lease EXCEPT ![s] = p]
        /\ preparer' = [preparer EXCEPT ![p] = j]
    BY <1>3 DEF PrepareLock
  <2>2. old \in Contracts
    <3>. DEFINE S == {c \in Contracts : /\ contracts[c].stay = stays[s].prev
                                        /\ contracts[c].current}
    <3>1. S \subseteq 1..(MaxStays + MaxMoves) /\ MaxStays + MaxMoves \in Nat
      BY StayAssumption DEF Contracts
    <3>2. old = Max(S \cup {0})
      BY DEF CurrentOf, None
    <3>. HIDE DEF S, old
    <3>3. old \in S
      BY <2>1, <3>1, <3>2, MaxOrZero DEF None
    <3>. QED BY <3>3 DEF S
  <2>. HIDE DEF old
  <2>3. j \in Preparation
    BY <2>2 DEF Preparation, Stays
  <2>4. /\ lease' \in [Stays -> Preparers \cup {Nobody}]
        /\ preparer' \in [Preparers -> Preparation \cup {Idle}]
        /\ preparer'[p] = j
        /\ \A r \in Preparers : r # p => preparer'[r] = preparer[r]
    BY <1>1, <2>1, <2>3
  <2>5. s \in Used
    BY <2>1 DEF Used
  <2>6. ContractInv'
    BY <1>2, <2>1
  <2>7. \A r \in Preparers : \/ preparer'[r] = preparer[r]
                             \/ preparer'[r] = Idle
                             \/ preparer'[r].stay \in Used
    BY <2>4, <2>5
  <2>. QED BY <1>1, <2>1, <2>4, <2>6, <2>7, ContractStep
<1>4. ASSUME NEW p \in Preparers, PrepareUnlock(p) PROVE IInv'
  <2>1. /\ UNCHANGED <<day, reservation, stays, requests, clearance, reviews,
                       crashes>>
        /\ contracts' = contracts /\ transfer' = transfer /\ worker' = worker
        /\ lease' = IF lease[preparer[p].stay] = p
                       THEN [lease EXCEPT ![preparer[p].stay] = Nobody]
                       ELSE lease
        /\ preparer' = [preparer EXCEPT ![p] = Idle]
    BY <1>4 DEF PrepareUnlock
  <2>2. lease' \in [Stays -> Preparers \cup {Nobody}]
    BY <1>1, <2>1
  <2>3. /\ preparer' \in [Preparers -> Preparation \cup {Idle}]
        /\ \A r \in Preparers : preparer'[r] = preparer[r] \/ preparer'[r] = Idle
    BY <1>1, <2>1
  <2>4. ContractInv'
    BY <1>2, <2>1
  <2>. QED BY <1>1, <2>1, <2>2, <2>3, <2>4, ContractStep
<1>5. ASSUME NEW s \in Stays, ExpireLease(s) PROVE IInv'
  <2>1. /\ UNCHANGED <<day, reservation, stays, requests, clearance, reviews,
                       crashes>>
        /\ contracts' = contracts /\ transfer' = transfer /\ worker' = worker
        /\ preparer' = preparer
        /\ lease' \in [Stays -> Preparers \cup {Nobody}]
    BY <1>1, <1>5 DEF ExpireLease
  <2>2. ContractInv'
    BY <1>2, <2>1
  <2>. QED BY <1>1, <2>1, <2>2, ContractStep
<1>. QED BY <1>3, <1>4, <1>5 DEF Lock

\* A preparation that goes on.
LEMMA PreparationGoesOn ==
    ASSUME NEW j \in Preparation, NEW c \in Contracts,
           NEW pc \in {"create", "generate", "unlock"}
    PROVE  LET i == [[j EXCEPT !.made = c] EXCEPT !.pc = pc]
           IN  i \in Preparation /\ i.stay = j.stay
PROOF
BY DEF Preparation

LEMMA PrepareCreateKeeps ==
    ASSUME IInv, NEW p \in Preparers, PrepareCreate(p)
    PROVE  IInv'
PROOF
<1> DEFINE j == preparer[p]
           found == {c \in Written : /\ contracts[c].replaces = j.old
                                     /\ contracts[c].purpose = "renewal"
                                     /\ contracts[c].status # "cancelled"}
           c == IF found = {} THEN Next1(Written) ELSE Max(found)
           pc == IF contracts[c].status \in {"none", "draft"}
                    THEN "generate" ELSE "unlock"
           r == [purpose |-> "renewal", stay |-> j.stay,
                 replaces |-> j.old, status |-> "draft", final |-> FALSE,
                 current |-> FALSE]
<1>1. /\ UNCHANGED <<day, reservation, stays, requests, clearance, reviews,
                     crashes>>
      /\ transfer' = transfer /\ worker' = worker /\ lease' = lease
      /\ j # Idle /\ c \in Contracts
      /\ contracts' = IF found # {} THEN contracts
                      ELSE [contracts EXCEPT ![c] = r]
      /\ preparer' = [preparer EXCEPT ![p].made = c, ![p].pc = pc]
  BY DEF PrepareCreate
<1>2. /\ contracts \in [Contracts -> Contract] /\ ContractInv
      /\ lease \in [Stays -> Preparers \cup {Nobody}]
      /\ worker \in [Workers -> Job \cup {Idle}]
      /\ preparer \in [Preparers -> Preparation \cup {Idle}]
      /\ stays' = stays
  BY <1>1 DEF IInv, TypeOK
<1>3. j \in Preparation /\ j.stay \in Used /\ j.stay \in Stays
  BY <1>1, <1>2 DEF IInv, PreparerInv, Used
<1>4. pc \in {"create", "generate", "unlock"}
  OBVIOUS
<1>. HIDE DEF found, c, pc
<1>5. r \in Contract
  BY <1>3 DEF Contract, Preparation, Stays
<1>6. StaysRemain
  BY <1>2 DEF StaysRemain
<1>7. contracts' \in [Contracts -> Contract]
  BY <1>1, <1>2, <1>5
<1>8. ContractInv'
  <2>1. CASE found # {}
    BY <1>1, <1>2, <1>6, <2>1, ContractsEdited
  <2>2. CASE found = {}
    <3>1. /\ contracts'[c] = r
          /\ \A d \in Contracts : d # c => contracts'[d] = contracts[d]
      BY <1>1, <1>2, <2>2
    <3>. QED BY <1>2, <1>3, <1>6, <3>1, ContractsEdited
  <2>. QED BY <2>1, <2>2
<1>9. preparer'[p] = [[j EXCEPT !.made = c] EXCEPT !.pc = pc]
  BY <1>1, <1>2, Zenon
<1>10. preparer'[p] \in Preparation /\ preparer'[p].stay = j.stay
  <2>1. c \in Contracts /\ j \in Preparation
    BY <1>1, <1>3
  <2>. HIDE DEF j
  <2>2. LET i == [[j EXCEPT !.made = c] EXCEPT !.pc = pc]
        IN  i \in Preparation /\ i.stay = j.stay
    BY <1>4, <2>1, PreparationGoesOn
  <2>. QED BY <1>9, <2>2
<1>11. \A q \in Preparers : q # p => preparer'[q] = preparer[q]
  BY <1>1, <1>2, Zenon
<1>12. preparer' \in [Preparers -> Preparation \cup {Idle}]
  BY <1>1, <1>2, <1>10, <1>11
<1>13. \A q \in Preparers : \/ preparer'[q] = preparer[q]
                            \/ preparer'[q] = Idle
                            \/ preparer'[q].stay \in Used
  BY <1>3, <1>10, <1>11
<1>. QED BY <1>1, <1>2, <1>7, <1>8, <1>12, <1>13, ContractStep

LEMMA PrepareGenerateKeeps ==
    ASSUME IInv, NEW p \in Preparers, PrepareGenerate(p)
    PROVE  IInv'
PROOF
<1> DEFINE c == preparer[p].made
<1>1. /\ UNCHANGED <<day, reservation, stays, requests, clearance, reviews,
                     crashes>>
      /\ transfer' = transfer /\ worker' = worker /\ lease' = lease
      /\ preparer[p] # Idle
      /\ contracts' = [contracts EXCEPT ![c].status = "generated"]
      /\ preparer' = [preparer EXCEPT ![p].pc = "unlock"]
  BY DEF PrepareGenerate
<1>2. /\ contracts \in [Contracts -> Contract] /\ ContractInv
      /\ lease \in [Stays -> Preparers \cup {Nobody}]
      /\ worker \in [Workers -> Job \cup {Idle}]
      /\ preparer \in [Preparers -> Preparation \cup {Idle}]
      /\ TypeOK /\ stays' = stays
  BY <1>1 DEF IInv, TypeOK
<1>3. /\ preparer[p] \in Preparation /\ preparer[p].stay \in Used
      /\ c \in Contracts \cup {None}
  BY <1>1, <1>2 DEF IInv, PreparerInv, Preparation
<1>4. StaysRemain
  BY <1>2 DEF StaysRemain
<1>. HIDE DEF c
<1>5. contracts' \in [Contracts -> Contract] /\ ContractInv'
  <2>1. CASE c \in Contracts
    BY <1>1, <1>2, <1>4, <2>1, StatusEdited, ContractsEdited
  <2>2. CASE c \notin Contracts
    <3>1. contracts' = contracts
      BY <1>1, <1>2, <2>2
    <3>. QED BY <1>2, <1>4, <3>1, ContractsEdited
  <2>. QED BY <2>1, <2>2
<1>6. preparer'[p] = [preparer[p] EXCEPT !.pc = "unlock"]
  BY <1>1, <1>2, Zenon
<1>7. preparer'[p] \in Preparation /\ preparer'[p].stay = preparer[p].stay
  BY <1>3, <1>6 DEF Preparation
<1>8. \A q \in Preparers : q # p => preparer'[q] = preparer[q]
  BY <1>1, <1>2, Zenon
<1>9. preparer' \in [Preparers -> Preparation \cup {Idle}]
  BY <1>1, <1>2, <1>7, <1>8
<1>10. \A q \in Preparers : \/ preparer'[q] = preparer[q]
                            \/ preparer'[q] = Idle
                            \/ preparer'[q].stay \in Used
  BY <1>3, <1>7, <1>8
<1>. QED BY <1>1, <1>2, <1>5, <1>9, <1>10, ContractStep

LEMMA MarkPrintedKeeps ==
    ASSUME IInv, NEW c \in Contracts, MarkPrinted(c)
    PROVE  IInv'
PROOF
<1>1. /\ UNCHANGED <<day, reservation, stays, requests, clearance, reviews,
                     crashes>>
      /\ transfer' = transfer /\ worker' = worker /\ lease' = lease
      /\ preparer' = preparer
      /\ contracts' = [contracts EXCEPT ![c].status = "signing"]
  BY DEF MarkPrinted
<1>2. /\ TypeOK /\ ContractInv
      /\ lease \in [Stays -> Preparers \cup {Nobody}]
      /\ worker \in [Workers -> Job \cup {Idle}]
      /\ preparer \in [Preparers -> Preparation \cup {Idle}]
      /\ StaysRemain
  BY <1>1 DEF IInv, TypeOK, StaysRemain
<1>3. contracts' \in [Contracts -> Contract] /\ ContractInv'
  BY <1>1, <1>2, StatusEdited, ContractsEdited
<1>. QED BY <1>1, <1>2, <1>3, ContractStep

\* What a final document leaves.
LEMMA SignWrites ==
    ASSUME IInv, NEW w \in Workers, SignWrite(w)
    PROVE  /\ contracts' \in [Contracts -> Contract]
           /\ \A c \in Contracts :
                 \/ contracts'[c] = contracts[c]
                 \/ /\ contracts'[c].purpose = contracts[c].purpose
                    /\ contracts'[c].stay = contracts[c].stay
                    /\ contracts'[c].status # "none"
                    /\ contracts'[c].final
PROOF
<1> DEFINE n == worker[w].n
           st == IF worker[w].op = "sign" THEN "published" ELSE "active"
<1>1. /\ contracts \in [Contracts -> Contract]
      /\ contracts' = [contracts EXCEPT ![n].final = TRUE, ![n].status = st]
  BY DEF SignWrite, IInv, TypeOK
<1>2. st \in {"published", "active"}
  OBVIOUS
<1>. HIDE DEF n, st
<1>3. CASE n \in Contracts
  <2>1. contracts'[n] = [[contracts[n] EXCEPT !.final = TRUE]
                            EXCEPT !.status = st]
    BY <1>1, <1>3, Zenon
  <2>2. /\ contracts'[n] \in Contract
        /\ contracts'[n].purpose = contracts[n].purpose
        /\ contracts'[n].stay = contracts[n].stay
        /\ contracts'[n].status = st
        /\ contracts'[n].final
    BY <1>1, <1>2, <1>3, <2>1 DEF Contract
  <2>3. \A c \in Contracts : c # n => contracts'[c] = contracts[c]
    BY <1>1, <1>3, Zenon
  <2>4. contracts' \in [Contracts -> Contract]
    BY <1>1, <2>2, <2>3
  <2>. QED BY <1>2, <2>2, <2>3, <2>4
<1>4. CASE n \notin Contracts
  BY <1>1, <1>4
<1>. QED BY <1>3, <1>4

LEMMA SignWriteKeeps ==
    ASSUME IInv, NEW w \in Workers, SignWrite(w)
    PROVE  IInv'
PROOF
<1>1. /\ UNCHANGED <<day, reservation, stays, requests, clearance, reviews,
                     crashes>>
      /\ transfer' = transfer /\ lease' = lease /\ preparer' = preparer
      /\ Done(w)
  BY DEF SignWrite
<1>2. /\ TypeOK /\ ContractInv
      /\ lease \in [Stays -> Preparers \cup {Nobody}]
      /\ preparer \in [Preparers -> Preparation \cup {Idle}]
      /\ StaysRemain
  BY <1>1 DEF IInv, TypeOK, StaysRemain
<1>3. contracts' \in [Contracts -> Contract] /\ ContractInv'
  BY <1>2, SignWrites, ContractsEdited
<1>4. /\ worker' \in [Workers -> Job \cup {Idle}]
      /\ \A v \in Workers : worker'[v] = worker[v] \/ worker'[v] = Idle
  BY <1>1, <1>2, DoneWorkers
<1>. QED BY <1>1, <1>2, <1>3, <1>4, ContractStep

\* A room transfer that is opened or closed.
LEMMA TransferKeeps ==
    ASSUME IInv, OpenTransfer \/ CloseTransfer
    PROVE  IInv'
PROOF
<1>1. /\ UNCHANGED <<day, reservation, stays, requests, clearance, reviews,
                     crashes>>
      /\ contracts' = contracts /\ lease' = lease /\ worker' = worker
      /\ preparer' = preparer
  BY DEF OpenTransfer, CloseTransfer
<1>2. /\ day' = day /\ reservation' = reservation /\ stays' = stays
      /\ requests' = requests /\ clearance' = clearance /\ reviews' = reviews
      /\ crashes' = crashes
  BY <1>1
<1>3. transfer' \in {"none", "open"}
  BY DEF OpenTransfer, CloseTransfer
<1>4. TypeOK'
  BY <1>1, <1>2, <1>3 DEF IInv, TypeOK
<1>5. StayInv' /\ StaysRemain /\ NoOfferTaken
  BY <1>2, StaysKept DEF IInv
<1>6. AnswersRemain
  BY <1>2 DEF AnswersRemain
<1>7. ContractInv'
  BY <1>1, <1>5, ContractsKept DEF IInv
<1>8. PreparerInv'
  BY <1>1, <1>5, PreparersKept DEF IInv
<1>9. WorkerInv'
  BY <1>1, <1>2, <1>5, <1>6, WorkersKept DEF IInv
<1>10. OfferAnsweredOnce'
  BY <1>5, <1>6, OffersKept DEF IInv
<1>11. PlansExclude'
  <2>1. CASE OpenTransfer
    <3>1. reservation.pending = None /\ clearance = "none"
      BY <2>1 DEF OpenTransfer, NoTransferConflicts
    <3>2. ASSUME NEW s \in Used, stays[s].status = "upcoming"
          PROVE  stays[s].start <= day
      <4>1. s \in Stays /\ stays[s].prev = reservation.stay
        BY <3>2 DEF IInv, StayInv, Upcoming, Used
      <4>2. stays[s].prev # None
        BY <4>1, StayAssumption DEF IInv, TypeOK, Reservation, Stays, None
      <4>3. ~(stays[s].start > day)
        BY <2>1, <3>2, <4>2 DEF OpenTransfer, NoTransferConflicts
      <4>. QED BY <4>1, <4>3 DEF IInv, TypeOK, Stay
    <3>. QED BY <1>2, <3>1, <3>2 DEF IInv, PlansExclude, Used
  <2>2. CASE CloseTransfer
    BY <1>2, <2>2 DEF CloseTransfer, IInv, PlansExclude
  <2>. QED BY <2>1, <2>2
<1>. QED BY <1>4, <1>5, <1>7, <1>8, <1>9, <1>10, <1>11 DEF IInv

\* A contract that is replaced, cancelled or closed is no longer current.
LEMMA ContractEnds ==
    ASSUME NEW c \in Contract,
           NEW st \in {"replaced", "closed", "cancelled"}
    PROVE  LET e == [[c EXCEPT !.status = st] EXCEPT !.current = FALSE]
           IN  /\ e \in Contract
               /\ e.purpose = c.purpose /\ e.stay = c.stay
               /\ e.status = st /\ e.final = c.final
PROOF
BY DEF Contract

\* The addendum of a transfer, and what it does to the others.
LEMMA CutOverWrites ==
    ASSUME IInv, CutOver
    PROVE  /\ contracts' \in [Contracts -> Contract]
           /\ \A d \in Contracts :
                 \/ contracts'[d] = contracts[d]
                 \/ /\ contracts'[d].purpose = contracts[d].purpose
                    /\ contracts'[d].stay = contracts[d].stay
                    /\ contracts'[d].status # "none"
                    /\ contracts'[d].final = contracts[d].final
                 \/ /\ contracts[d].status = "none"
                    /\ contracts'[d].purpose = "transfer"
                    /\ contracts'[d].status # "none"
PROOF
<1> DEFINE c == Next1(Written)
           n == [purpose |-> "transfer", stay |-> InForce, replaces |-> Lease,
                 status |-> "generated", final |-> FALSE, current |-> TRUE]
           gone(d) == [[contracts[d] EXCEPT !.status = "replaced"]
                          EXCEPT !.current = FALSE]
           void(d) == [[contracts[d] EXCEPT !.status = "cancelled"]
                          EXCEPT !.current = FALSE]
<1>1. /\ InForce # None /\ Lease # None /\ c \in Contracts
      /\ contracts' = [d \in Contracts |->
            IF d = c THEN n
            ELSE IF d = Lease THEN gone(d)
            ELSE IF /\ contracts[d].purpose = "renewal"
                    /\ contracts[d].replaces = Lease
                    /\ contracts[d].status = "published"
               THEN void(d) ELSE contracts[d]]
  BY Zenon DEF CutOver, Superseded
<1>2. /\ contracts \in [Contracts -> Contract]
      /\ InForce \in Stays /\ Lease \in Contracts
  BY <1>1, LeaseIs, InForceIs DEF IInv, TypeOK
<1>3. contracts[c].status = "none"
  <2>1. Written \subseteq 1..(MaxStays + MaxMoves) /\ MaxStays + MaxMoves \in Nat
    BY StayAssumption DEF Written, Contracts
  <2>2. c \notin Written
    BY <2>1, Next1Above
  <2>. QED BY <1>1, <2>2 DEF Written
<1>. HIDE DEF c
<1>4. n \in Contract
  BY <1>2, StayAssumption DEF Contract, Stays
<1>5. \A d \in Contracts :
         /\ gone(d) \in Contract /\ void(d) \in Contract
         /\ gone(d).purpose = contracts[d].purpose
         /\ gone(d).stay = contracts[d].stay
         /\ gone(d).status # "none" /\ gone(d).final = contracts[d].final
         /\ void(d).purpose = contracts[d].purpose
         /\ void(d).stay = contracts[d].stay
         /\ void(d).status # "none" /\ void(d).final = contracts[d].final
  BY <1>2, ContractEnds
<1>6. n.purpose = "transfer" /\ n.status # "none"
  OBVIOUS
<1>. HIDE DEF n, gone, void
<1>7. \A d \in Contracts : contracts'[d] \in {n, gone(d), void(d), contracts[d]}
  BY <1>1
<1>8. contracts' \in [Contracts -> Contract]
  BY <1>1, <1>2, <1>4, <1>5, <1>7
<1>9. \A d \in Contracts : contracts'[d] = n => d = c \/ n \in {gone(d), void(d), contracts[d]}
  BY <1>1
<1>. QED BY <1>3, <1>5, <1>6, <1>7, <1>8, <1>9

LEMMA CutOverKeeps ==
    ASSUME IInv, CutOver
    PROVE  IInv'
PROOF
<1>1. /\ UNCHANGED <<day, reservation, stays, requests, clearance, reviews,
                     crashes>>
      /\ transfer' = "none" /\ lease' = lease /\ worker' = worker
      /\ preparer' = preparer
  BY DEF CutOver
<1>2. /\ ContractInv
      /\ lease \in [Stays -> Preparers \cup {Nobody}]
      /\ worker \in [Workers -> Job \cup {Idle}]
      /\ preparer \in [Preparers -> Preparation \cup {Idle}]
      /\ StaysRemain
  BY <1>1 DEF IInv, TypeOK, StaysRemain
<1>3. contracts' \in [Contracts -> Contract] /\ ContractInv'
  BY <1>2, CutOverWrites, ContractsEdited
<1>. QED BY <1>1, <1>2, <1>3, ContractStep

-----------------------------------------------------------------------------
(* A renewal that takes effect, and the end of the tenancy                 *)

\* A step that changes stays and what hangs on them.
LEMMA StayStep ==
    ASSUME IInv, UNCHANGED <<day, clearance, reviews, transfer, lease,
                             preparer, crashes>>,
           stays' \in [Stays -> Stay],
           StaysRemain, NoOfferTaken, StayInv', PlansExclude',
           contracts' \in [Contracts -> Contract], ContractInv',
           requests' \in [Requests -> Request],
           reservation' \in Reservation,
           reservation'.offers = reservation.offers,
           worker' \in [Workers -> Job \cup {Idle}],
           \A w \in Workers : worker'[w] = worker[w] \/ worker'[w] = Idle \/ GoesOn(w)
    PROVE  IInv'
PROOF
<1>1. /\ day' = day /\ clearance' = clearance /\ reviews' = reviews
      /\ transfer' = transfer /\ lease' = lease /\ preparer' = preparer
      /\ crashes' = crashes
  OBVIOUS
<1>2. TypeOK'
  BY <1>1 DEF IInv, TypeOK
<1>3. AnswersRemain
  BY DEF AnswersRemain
<1>4. PreparerInv'
  BY <1>1, PreparersKept DEF IInv
<1>5. WorkerInv'
  BY <1>1, <1>3, WorkersKept DEF IInv
<1>6. OfferAnsweredOnce'
  BY <1>3, OffersKept DEF IInv
<1>. QED BY <1>2, <1>4, <1>5, <1>6 DEF IInv

\* What an activation writes on contracts.
LEMMA ActivateContracts ==
    ASSUME IInv, NEW c \in Contracts, Activate(c)
    PROVE  /\ contracts' \in [Contracts -> Contract]
           /\ \A d \in Contracts :
                 \/ contracts'[d] = contracts[d]
                 \/ /\ contracts'[d].purpose = contracts[d].purpose
                    /\ contracts'[d].stay = contracts[d].stay
                    /\ contracts'[d].status # "none"
                    /\ contracts'[d].final = contracts[d].final
PROOF
<1> DEFINE old == contracts[c].replaces
           gone == [[contracts[old] EXCEPT !.status = "replaced"]
                       EXCEPT !.current = FALSE]
           on == [[contracts[c] EXCEPT !.status = "active"]
                     EXCEPT !.current = TRUE]
<1>1. /\ contracts' = [contracts EXCEPT ![c].status = "active",
                                        ![c].current = TRUE,
                                        ![old] = gone]
      /\ contracts[c].status = "published" /\ contracts[old].status = "active"
  BY Zenon DEF Activate, Candidates, Superseded
<1>2. contracts \in [Contracts -> Contract]
  BY DEF IInv, TypeOK
<1>3. old # c
  BY <1>1
<1>4. /\ on \in Contract
      /\ on.purpose = contracts[c].purpose /\ on.stay = contracts[c].stay
      /\ on.status # "none" /\ on.final = contracts[c].final
  BY <1>2 DEF Contract
<1>5. old \in Contracts =>
         /\ gone \in Contract
         /\ gone.purpose = contracts[old].purpose
         /\ gone.stay = contracts[old].stay
         /\ gone.status # "none" /\ gone.final = contracts[old].final
  BY <1>2, ContractEnds
<1>. HIDE DEF old, gone
<1>6. contracts'[c] = on
  BY <1>1, <1>2, <1>3, Zenon
<1>7. \A d \in Contracts : d # c =>
         contracts'[d] = IF d = old THEN gone ELSE contracts[d]
  BY <1>1, <1>2, Zenon
<1>. HIDE DEF on
<1>8. DOMAIN contracts' = Contracts /\ contracts' = [d \in Contracts |-> contracts'[d]]
  BY <1>1, <1>2
<1>9. \A d \in Contracts : contracts'[d] \in Contract
  BY <1>2, <1>4, <1>5, <1>6, <1>7
<1>. QED BY <1>4, <1>5, <1>6, <1>7, <1>8, <1>9

\* The stay that takes over is the planned one, the stay before it was the
\* one in force.
LEMMA ActivateStays ==
    ASSUME IInv, NEW c \in Contracts, Activate(c),
           stays[contracts[c].stay].status = "upcoming"
    PROVE  /\ stays' \in [Stays -> Stay]
           /\ contracts[c].stay \in Stays
           /\ Upcoming = {contracts[c].stay} /\ Upcoming' = {}
           /\ Active # {} /\ Active' = {contracts[c].stay}
           /\ reservation' \in Reservation
           /\ reservation'.status = reservation.status
           /\ reservation'.stay = contracts[c].stay
           /\ reservation'.offers = reservation.offers
           /\ reservation'.pending = reservation.pending
           /\ \A s \in Stays : /\ stays'[s].status = "none" <=>
                                  stays[s].status = "none"
                               /\ stays'[s].start = stays[s].start
                               /\ stays'[s].offer = stays[s].offer
PROOF
<1> DEFINE next == contracts[c].stay
           prev == stays[next].prev
           before == [stays[prev] EXCEPT !.status = "renewed"]
           after == [stays[next] EXCEPT !.status = "active"]
<1>1. /\ contracts[c].purpose = "renewal" /\ MovedIn
      /\ stays[next].status = "upcoming"
      /\ stays[prev].status = "active" /\ reservation.stay = prev
      /\ stays' = [stays EXCEPT ![prev].status = "renewed",
                                ![next].status = "active"]
      /\ reservation' = [reservation EXCEPT !.stay = next]
  BY DEF Activate, Candidates
<1>2. stays \in [Stays -> Stay] /\ reservation \in Reservation /\ StayInv
  BY DEF IInv, TypeOK
<1>3. next \in Stays
  BY <1>1 DEF IInv, ContractInv, Used
<1>4. prev \in Stays
  BY <1>1, <1>2 DEF Reservation
<1>5. Active = {prev}
  BY <1>1, <1>2 DEF StayInv
<1>6. Upcoming = {next}
  <2>1. next \in Upcoming
    BY <1>1, <1>3 DEF Upcoming
  <2>. QED BY <1>2, <2>1 DEF StayInv
<1>7. /\ reservation' \in Reservation
      /\ reservation'.status = reservation.status
      /\ reservation'.stay = next
      /\ reservation'.offers = reservation.offers
      /\ reservation'.pending = reservation.pending
  BY <1>1, <1>2, <1>3 DEF Reservation
<1>8. prev # next
  BY <1>1
<1>9. /\ before \in Stay /\ after \in Stay
      /\ before.status = "renewed" /\ after.status = "active"
      /\ before.start = stays[prev].start /\ before.offer = stays[prev].offer
      /\ after.start = stays[next].start /\ after.offer = stays[next].offer
  BY <1>2, <1>3, <1>4 DEF Stay
<1>. HIDE DEF next, prev
<1>10. /\ stays'[prev] = before /\ stays'[next] = after
       /\ \A s \in Stays : s # prev /\ s # next => stays'[s] = stays[s]
       /\ DOMAIN stays' = Stays /\ stays' = [s \in Stays |-> stays'[s]]
  BY <1>1, <1>2, <1>3, <1>4, <1>8
<1>. HIDE DEF before, after
<1>11. \A s \in Stays : stays'[s] \in Stay
  BY <1>2, <1>9, <1>10
<1>12. stays' \in [Stays -> Stay]
  BY <1>10, <1>11
<1>13. Active' = {next} /\ Upcoming' = {}
  BY <1>3, <1>4, <1>5, <1>6, <1>8, <1>9, <1>10 DEF Active, Upcoming
<1>14. \A s \in Stays : /\ stays'[s].status = "none" <=>
                           stays[s].status = "none"
                        /\ stays'[s].start = stays[s].start
                        /\ stays'[s].offer = stays[s].offer
  BY <1>1, <1>3, <1>4, <1>9, <1>10
<1>. QED BY <1>3, <1>5, <1>6, <1>7, <1>12, <1>13, <1>14 DEF next

LEMMA ActivateKeeps ==
    ASSUME IInv, NEW c \in Contracts, Activate(c)
    PROVE  IInv'
PROOF
<1>1. /\ day' = day /\ requests' = requests /\ clearance' = clearance
      /\ reviews' = reviews /\ transfer' = transfer /\ lease' = lease
      /\ worker' = worker /\ preparer' = preparer /\ crashes' = crashes
  BY DEF Activate
<1>2. /\ TypeOK /\ StayInv /\ ContractInv /\ PlansExclude
      /\ worker \in [Workers -> Job \cup {Idle}]
      /\ requests \in [Requests -> Request]
  BY DEF IInv, TypeOK
<1>3. CASE stays[contracts[c].stay].status = "upcoming"
  <2>1. /\ stays' \in [Stays -> Stay] /\ reservation' \in Reservation
        /\ Upcoming' = {} /\ Active' = {reservation'.stay}
        /\ reservation'.status = reservation.status
        /\ reservation'.offers = reservation.offers
        /\ reservation'.pending = reservation.pending
        /\ \A s \in Stays : /\ stays'[s].status = "none" <=>
                               stays[s].status = "none"
                            /\ stays'[s].offer = stays[s].offer
    BY <1>3, ActivateStays
  <2>2. MovedIn'
    BY <2>1 DEF MovedIn, Activate
  <2>3. StayInv'
    BY <2>1, <2>2 DEF StayInv
  <2>4. StaysRemain /\ NoOfferTaken
    BY <2>1 DEF StaysRemain, NoOfferTaken
  <2>5. PlansExclude'
    <3>1. \A s \in Used' : stays'[s].status # "upcoming"
      BY <2>1 DEF Used, Upcoming
    <3>. QED BY <1>1, <1>2, <2>1, <3>1 DEF PlansExclude
  <2>6. contracts' \in [Contracts -> Contract] /\ ContractInv'
    BY <1>2, <2>4, ActivateContracts, ContractsEdited
  <2>. QED BY <1>1, <1>2, <2>1, <2>3, <2>4, <2>5, <2>6, StayStep
<1>4. CASE stays[contracts[c].stay].status # "upcoming"
  <2>1. stays' = stays /\ reservation' = reservation
    BY <1>4 DEF Activate
  <2>2. StayInv' /\ StaysRemain /\ NoOfferTaken
    BY <1>2, <2>1, StaysKept
  <2>3. contracts' \in [Contracts -> Contract] /\ ContractInv'
    BY <1>2, <2>2, ActivateContracts, ContractsEdited
  <2>4. PlansExclude'
    BY <1>1, <1>2, <2>1 DEF PlansExclude, Used
  <2>. QED BY <1>1, <1>2, <2>1, <2>2, <2>3, <2>4, StayStep DEF TypeOK
<1>. QED BY <1>3, <1>4

\* Nothing is in force or planned, or asked for, after the move-out.
LEMMA MoveOutWrites ==
    ASSUME IInv, CanMoveOut, MoveOut
    PROVE  /\ stays' \in [Stays -> Stay]
           /\ \A s \in Stays : /\ stays'[s].status = "none" <=>
                                  stays[s].status = "none"
                               /\ stays'[s].start = stays[s].start
                               /\ stays'[s].offer = stays[s].offer
           /\ Active # {} /\ Active' = {} /\ Upcoming' = {}
           /\ requests' \in [Requests -> Request]
           /\ \A q \in Requests : requests'[q].status # "pending"
           /\ reservation' \in Reservation
           /\ reservation'.status = "moveOut"
           /\ reservation'.pending = None
           /\ reservation'.offers = reservation.offers
           /\ contracts' \in [Contracts -> Contract]
           /\ \A d \in Contracts :
                 \/ contracts'[d] = contracts[d]
                 \/ /\ contracts'[d].purpose = contracts[d].purpose
                    /\ contracts'[d].stay = contracts[d].stay
                    /\ contracts'[d].status # "none"
                    /\ contracts'[d].final = contracts[d].final
PROOF
<1> DEFINE over(s) == [stays[s] EXCEPT !.status = "ended"]
           dropped(s) == [stays[s] EXCEPT !.status = "cancelled"]
           void(q) == [requests[q] EXCEPT !.status = "cancelled"]
           closed(d) == [[contracts[d] EXCEPT !.status = "closed"]
                            EXCEPT !.current = FALSE]
           off(d) == [[contracts[d] EXCEPT !.status = "cancelled"]
                         EXCEPT !.current = FALSE]
<1>1. /\ MovedIn /\ InForce # None
      /\ stays \in [Stays -> Stay] /\ requests \in [Requests -> Request]
      /\ contracts \in [Contracts -> Contract]
      /\ reservation \in Reservation /\ TypeOK /\ StayInv
  BY DEF CanMoveOut, IInv, TypeOK
<1>2. Active = {InForce} /\ InForce \in Stays
  BY <1>1, InForceIs DEF StayInv
<1>3. \A s \in Stays :
         /\ over(s) \in Stay /\ dropped(s) \in Stay
         /\ over(s).status = "ended" /\ dropped(s).status = "cancelled"
         /\ over(s).start = stays[s].start /\ over(s).offer = stays[s].offer
         /\ dropped(s).start = stays[s].start
         /\ dropped(s).offer = stays[s].offer
  BY <1>1 DEF Stay
<1>4. stays' = [s \in Stays |->
                   IF s = InForce THEN over(s)
                   ELSE IF stays[s].status = "upcoming" THEN dropped(s)
                   ELSE stays[s]]
  BY DEF MoveOut, StaysAfter
<1>5. \A q \in Requests : void(q) \in Request /\ void(q).status = "cancelled"
  BY <1>1 DEF Request
<1>6. requests' = [q \in Requests |->
                      IF requests[q].status \in {"pending", "approved"}
                         THEN void(q) ELSE requests[q]]
  BY DEF MoveOut
<1>7. \A d \in Contracts :
         /\ closed(d) \in Contract /\ off(d) \in Contract
         /\ closed(d).purpose = contracts[d].purpose
         /\ closed(d).stay = contracts[d].stay
         /\ closed(d).status # "none" /\ closed(d).final = contracts[d].final
         /\ off(d).purpose = contracts[d].purpose
         /\ off(d).stay = contracts[d].stay
         /\ off(d).status # "none" /\ off(d).final = contracts[d].final
  BY <1>1, ContractEnds
<1>8. contracts' = [d \in Contracts |->
                       IF d = Lease THEN closed(d)
                       ELSE IF Dangling(d) THEN off(d) ELSE contracts[d]]
  BY Zenon DEF MoveOut, ContractsAfter
<1>9. /\ reservation' \in Reservation
      /\ reservation'.status = "moveOut"
      /\ reservation'.pending = None
      /\ reservation'.offers = reservation.offers
  <2>1. reservation' = [[reservation EXCEPT !.status = "moveOut"]
                           EXCEPT !.pending = None]
    BY <1>1, Zenon DEF MoveOut
  <2>2. None \in 0..MaxRequests
    BY StayAssumption DEF None
  <2>. QED BY <1>1, <2>1, <2>2 DEF Reservation
<1>. HIDE DEF over, dropped, void, closed, off
<1>10. \A s \in Stays : s # InForce => stays[s].status # "active"
  BY <1>2 DEF Active
<1>11. \A s \in Stays : stays'[s].status \notin {"active", "upcoming"}
  BY <1>3, <1>4, <1>10
<1>12. Active' = {} /\ Upcoming' = {}
  BY <1>11 DEF Active, Upcoming
<1>13. stays[InForce].status = "active"
  BY <1>2 DEF Active
<1>14. \A s \in Stays : /\ stays'[s].status = "none" <=>
                           stays[s].status = "none"
                        /\ stays'[s].start = stays[s].start
                        /\ stays'[s].offer = stays[s].offer
  BY <1>3, <1>4, <1>13
<1>15. stays' \in [Stays -> Stay]
  BY <1>1, <1>3, <1>4
<1>16. /\ requests' \in [Requests -> Request]
       /\ \A q \in Requests : requests'[q].status # "pending"
  BY <1>1, <1>5, <1>6
<1>17. contracts' \in [Contracts -> Contract]
  BY <1>1, <1>7, <1>8
<1>18. \A d \in Contracts : contracts'[d] \in {closed(d), off(d), contracts[d]}
  BY <1>8
<1>. QED BY <1>2, <1>7, <1>9, <1>12, <1>14, <1>15, <1>16, <1>17, <1>18

LEMMA MoveOutKeeps ==
    ASSUME IInv, CanMoveOut, MoveOut, UNCHANGED <<day, preparer, crashes>>,
           worker' \in [Workers -> Job \cup {Idle}],
           \A w \in Workers : worker'[w] = worker[w] \/ worker'[w] = Idle \/ GoesOn(w)
    PROVE  IInv'
PROOF
<1>1. /\ clearance' = clearance /\ reviews' = reviews
      /\ transfer' = transfer /\ lease' = lease
      /\ day' = day /\ preparer' = preparer /\ crashes' = crashes
  BY DEF MoveOut
<1>2. ContractInv /\ PlansExclude
  BY DEF IInv
<1>3. /\ stays' \in [Stays -> Stay]
      /\ requests' \in [Requests -> Request]
      /\ reservation' \in Reservation
      /\ reservation'.offers = reservation.offers
      /\ contracts' \in [Contracts -> Contract]
  BY MoveOutWrites
<1>4. StaysRemain /\ NoOfferTaken
  BY MoveOutWrites DEF StaysRemain, NoOfferTaken
<1>5. StayInv'
  <2>1. ~MovedIn' /\ Active' = {} /\ Upcoming' = {}
    BY MoveOutWrites DEF MovedIn
  <2>. QED BY <2>1 DEF StayInv
<1>6. ContractInv'
  BY <1>2, <1>4, MoveOutWrites, ContractsEdited
<1>7. PlansExclude'
  <2>1. \A s \in Used' : stays'[s].status # "upcoming"
    BY MoveOutWrites DEF Used, Upcoming
  <2>2. reservation'.pending = None
    BY MoveOutWrites
  <2>3. {q \in Requests : requests[q].status = "pending"}' = {}
    BY MoveOutWrites
  <2>. QED BY <1>1, <1>2, <2>1, <2>2, <2>3 DEF PlansExclude
<1>. QED BY <1>1, <1>3, <1>4, <1>5, <1>6, <1>7, StayStep

LEMMA LeaveKeeps ==
    ASSUME IInv, Leave
    PROVE  IInv'
PROOF
<1>1. /\ CanMoveOut /\ MoveOut /\ worker' = worker
      /\ UNCHANGED <<day, preparer, crashes>>
  BY DEF Leave
<1>2. worker \in [Workers -> Job \cup {Idle}]
  BY DEF IInv, TypeOK
<1>. QED BY <1>1, <1>2, MoveOutKeeps

\* A handler that goes on to its next write.
LEMMA GotoWorkers ==
    ASSUME TypeOK, NEW w \in Workers, worker[w] # Idle,
           NEW pc \in {"renew", "rollback", "write", "moveOut", "save"},
           Goto(w, pc)
    PROVE  /\ worker' \in [Workers -> Job \cup {Idle}]
           /\ worker'[w] # Idle
           /\ worker'[w].op = worker[w].op /\ worker'[w].n = worker[w].n
           /\ \A v \in Workers : v # w => worker'[v] = worker[v]
PROOF
<1>1. worker \in [Workers -> Job \cup {Idle}] /\ worker[w] \in Job
  BY DEF TypeOK
<1>2. worker'[w] = [worker[w] EXCEPT !.pc = pc]
  BY <1>1 DEF Goto
<1>3. \A v \in Workers : v # w => worker'[v] = worker[v]
  BY <1>1 DEF Goto
<1>4. /\ worker'[w] \in Job /\ worker'[w].op = worker[w].op
      /\ worker'[w].n = worker[w].n
  BY <1>1, <1>2 DEF Job
<1>5. worker'[w] # Idle
  <2>1. worker'[w].pc \in {"renew", "rollback", "write", "moveOut", "save"}
        /\ worker'[w] = [op |-> worker'[w].op, pc |-> worker'[w].pc,
                         n |-> worker'[w].n, k |-> worker'[w].k]
        /\ worker'[w].op # "idle"
    BY <1>4 DEF Job
  <2>. QED BY <2>1 DEF Idle
<1>6. worker' \in [Workers -> Job \cup {Idle}]
  <2>1. worker' = [worker EXCEPT ![w] = worker'[w]]
    BY <1>1, <1>2 DEF Goto
  <2>. QED BY <1>1, <1>4, <2>1
<1>. QED BY <1>3, <1>4, <1>5, <1>6

LEMMA HandlerMovesOutKeeps ==
    ASSUME IInv, NEW w \in Workers, HandlerMovesOut(w)
    PROVE  IInv'
PROOF
<1>1. /\ UNCHANGED <<day, preparer, crashes>>
      /\ worker[w] # Idle /\ worker[w].op \in {"settle", "execute"}
  BY DEF HandlerMovesOut, At
<1>2. TypeOK /\ JobInv(worker[w])
  BY <1>1 DEF IInv, WorkerInv
<1>3. CASE CanMoveOut
  <2>1. MoveOut /\ Goto(w, "save")
    BY <1>3 DEF HandlerMovesOut
  <2>2. /\ worker' \in [Workers -> Job \cup {Idle}]
        /\ worker'[w].op = worker[w].op /\ worker'[w].n = worker[w].n
        /\ \A v \in Workers : v # w => worker'[v] = worker[v]
    BY <1>1, <1>2, <2>1, GotoWorkers
  <2>3. GoesOn(w)
    <3>1. clearance' = clearance
      BY <2>1 DEF MoveOut
    <3>. QED BY <1>1, <1>2, <2>2, <3>1 DEF GoesOn, JobInv
  <2>. QED BY <1>1, <1>3, <2>1, <2>2, <2>3, MoveOutKeeps
<1>4. CASE ~CanMoveOut
  BY <1>1, <1>4, DoneKeeps DEF HandlerMovesOut
<1>. QED BY <1>3, <1>4

-----------------------------------------------------------------------------
(* Clearances and reviews                                                  *)

\* A step that changes neither the stays nor what is planned for them.
LEMMA SideStep ==
    ASSUME IInv, UNCHANGED <<day, reservation, stays, contracts, requests,
                             transfer, lease, preparer, crashes>>,
           clearance' \in {"none", "open", "approved"},
           clearance # "none" => clearance' # "none",
           transfer = "open" => clearance' = clearance,
           reviews' \in [Reviews -> Review],
           worker' \in [Workers -> Job \cup {Idle}],
           \A w \in Workers : worker'[w] = worker[w] \/ worker'[w] = Idle
    PROVE  IInv'
PROOF
<1>1. /\ day' = day /\ reservation' = reservation /\ stays' = stays
      /\ contracts' = contracts /\ requests' = requests
      /\ transfer' = transfer /\ lease' = lease /\ preparer' = preparer
      /\ crashes' = crashes
  OBVIOUS
<1>2. TypeOK'
  BY <1>1 DEF IInv, TypeOK
<1>3. StayInv' /\ StaysRemain /\ NoOfferTaken
  BY <1>1, StaysKept DEF IInv
<1>4. AnswersRemain
  BY <1>1 DEF AnswersRemain
<1>5. ContractInv'
  BY <1>1, <1>3, ContractsKept DEF IInv
<1>6. PreparerInv'
  BY <1>1, <1>3, PreparersKept DEF IInv
<1>7. WorkerInv'
  BY <1>3, <1>4, WorkersKept DEF IInv
<1>8. PlansExclude'
  BY <1>1 DEF IInv, PlansExclude, Used
<1>9. OfferAnsweredOnce'
  BY <1>3, <1>4, OffersKept DEF IInv
<1>. QED BY <1>2, <1>3, <1>5, <1>6, <1>7, <1>8, <1>9 DEF IInv

LEMMA ClearWriteKeeps ==
    ASSUME IInv, NEW w \in Workers, ClearWrite(w)
    PROVE  IInv'
PROOF
<1>1. Done(w) /\ UNCHANGED <<day, preparer, crashes>>
  BY DEF ClearWrite
<1>2. CASE transfer = "none" /\ clearance = "none" /\ worker[w].k = Moves
  <2>1. /\ clearance' = "open"
        /\ UNCHANGED <<reservation, stays, contracts, requests, reviews,
                       transfer, lease>>
    BY <1>2 DEF ClearWrite, SetClearance
  <2>2. reviews' \in [Reviews -> Review]
    BY <2>1 DEF IInv, TypeOK
  <2>. QED BY <1>1, <1>2, <2>1, <2>2, DoneWorkers, SideStep DEF IInv
<1>3. CASE ~(transfer = "none" /\ clearance = "none" /\ worker[w].k = Moves)
  BY <1>1, <1>3, DoneKeeps DEF ClearWrite
<1>. QED BY <1>2, <1>3

\* While a clearance is being settled no transfer is open.
LEMMA SettleSaveKeeps ==
    ASSUME IInv, NEW w \in Workers, SettleSave(w)
    PROVE  IInv'
PROOF
<1>1. /\ Done(w) /\ UNCHANGED <<day, preparer, crashes>>
      /\ clearance' = "approved"
      /\ UNCHANGED <<reservation, stays, contracts, requests, reviews,
                     transfer, lease>>
  BY DEF SettleSave, SetClearance
<1>2. clearance # "none"
  BY DEF SettleSave, At, IInv, WorkerInv, JobInv
<1>3. transfer # "open"
  BY <1>2 DEF IInv, PlansExclude
<1>4. reviews' \in [Reviews -> Review]
  BY <1>1 DEF IInv, TypeOK
<1>. QED BY <1>1, <1>3, <1>4, DoneWorkers, SideStep DEF IInv

LEMMA ReviewStep ==
    ASSUME IInv, NEW r \in Reviews, NEW v \in Review, SetReview(r, v),
           UNCHANGED <<day, preparer, crashes>>,
           worker' \in [Workers -> Job \cup {Idle}],
           \A w \in Workers : worker'[w] = worker[w] \/ worker'[w] = Idle
    PROVE  IInv'
PROOF
<1>1. /\ UNCHANGED <<day, reservation, stays, contracts, requests,
                     transfer, lease, preparer, crashes>>
      /\ clearance' = clearance
      /\ reviews' = [reviews EXCEPT ![r] = v]
  BY DEF SetReview
<1>2. /\ reviews \in [Reviews -> Review]
      /\ clearance \in {"none", "open", "approved"}
  BY DEF IInv, TypeOK
<1>3. reviews' \in [Reviews -> Review]
  BY <1>1, <1>2
<1>. QED BY <1>1, <1>2, <1>3, SideStep

LEMMA DecidingKeeps ==
    ASSUME IInv, Deciding
    PROVE  IInv'
PROOF
<1>1. /\ worker \in [Workers -> Job \cup {Idle}]
      /\ reviews \in [Reviews -> Review]
  BY DEF IInv, TypeOK
<1>2. CASE OpenReview
  <2>. DEFINE r == Next1(Opened)
              v == [status |-> "open", outcome |-> "none", execution |-> "none"]
  <2>1. /\ r <= MaxReviews /\ SetReview(r, v)
        /\ UNCHANGED <<day, preparer, crashes>> /\ worker' = worker
    BY <1>2 DEF OpenReview
  <2>2. r \in 1..(MaxReviews + 1) /\ MaxReviews \in Nat
    <3>1. Opened \subseteq 1..MaxReviews /\ MaxReviews \in Nat
      BY StayAssumption DEF Opened, Reviews
    <3>. QED BY <3>1, Next1Above
  <2>. HIDE DEF r
  <2>3. r \in Reviews
    BY <2>1, <2>2 DEF Reviews
  <2>4. v \in Review
    BY DEF Review
  <2>. QED BY <1>1, <2>1, <2>3, <2>4, ReviewStep
<1>3. ASSUME NEW r \in Reviews, NEW status \in {"open", "closed"},
             Restate(r, status)
      PROVE  IInv'
  <2>1. [reviews[r] EXCEPT !.status = status] \in Review
    BY <1>1 DEF Review
  <2>2. /\ SetReview(r, [reviews[r] EXCEPT !.status = status])
        /\ UNCHANGED <<day, preparer, crashes>> /\ worker' = worker
    BY <1>3 DEF Restate
  <2>. QED BY <1>1, <2>1, <2>2, ReviewStep
<1>4. ASSUME NEW r \in Reviews, NEW status \in {"open", "closed"},
             NEW outcome \in {"approved", "none"},
             Decide(r, outcome, status)
      PROVE  IInv'
  <2>. DEFINE v == [status |-> status, outcome |-> outcome,
                    execution |-> IF outcome = "approved"
                                     THEN "pending_execution"
                                     ELSE reviews[r].execution]
  <2>1. v \in Review
    BY <1>1 DEF Review
  <2>2. /\ SetReview(r, v)
        /\ UNCHANGED <<day, preparer, crashes>> /\ worker' = worker
    BY <1>4 DEF Decide
  <2>. QED BY <1>1, <2>1, <2>2, ReviewStep
<1>. QED BY <1>2, <1>3, <1>4 DEF Deciding

LEMMA ExecuteSaveKeeps ==
    ASSUME IInv, NEW w \in Workers, ExecuteSave(w)
    PROVE  IInv'
PROOF
<1> DEFINE r == worker[w].n
           st == IF worker[w].k = 1 THEN "closed" ELSE reviews[r].status
           v == [[reviews[r] EXCEPT !.execution = "executed"]
                    EXCEPT !.status = st]
<1>1. /\ Done(w) /\ UNCHANGED <<day, preparer, crashes>>
      /\ SetReview(r, v)
  BY Zenon DEF ExecuteSave
<1>2. reviews \in [Reviews -> Review] /\ clearance \in {"none", "open", "approved"}
  BY DEF IInv, TypeOK
<1>3. CASE r \in Reviews
  <2>1. reviews[r].status \in {"none", "open", "closed"}
    BY <1>2, <1>3 DEF Review
  <2>2. st \in {"none", "open", "closed"}
    BY <2>1
  <2>. HIDE DEF r, st
  <2>3. v \in Review
    BY <1>2, <1>3, <2>2 DEF Review
  <2>. HIDE DEF v
  <2>. QED BY <1>1, <1>3, <2>3, DoneWorkers, ReviewStep DEF IInv
<1>4. CASE r \notin Reviews
  <2>1. /\ UNCHANGED <<day, reservation, stays, contracts, requests,
                       transfer, lease, preparer, crashes>>
        /\ clearance' = clearance
        /\ reviews' = [reviews EXCEPT ![r] = v]
    BY <1>1 DEF SetReview
  <2>. HIDE DEF r, v
  <2>2. reviews' = reviews
    BY <1>2, <1>4, <2>1
  <2>. QED BY <1>1, <1>2, <2>1, <2>2, DoneWorkers, SideStep DEF IInv
<1>. QED BY <1>3, <1>4

-----------------------------------------------------------------------------
(* The invariant                                                           *)

LEMMA InitIInv == Init => IInv
PROOF
<1> SUFFICES ASSUME Init PROVE IInv
  OBVIOUS
<1> DEFINE first == [NoStay EXCEPT !.status = "active", !.end = Term - 1]
<1>1. 1 \in Stays /\ 1 \in Contracts /\ 0 \in 0..MaxDay /\ 0 \in 0..MaxCrashes
      /\ None \in 0..MaxStays /\ None \in 0..MaxOffers
      /\ None \in 0..MaxRequests /\ 1 \in 0..MaxStays /\ Term - 1 \in Nat
      /\ 1 # None
  BY StayAssumption DEF Stays, Contracts, None
<1>2. /\ NoStay \in Stay /\ NoStay.status = "none" /\ NoStay.offer = None
      /\ first \in Stay /\ first.status = "active" /\ first.offer = None
  <2>. DEFINE m == Term - 1
              a == [NoStay EXCEPT !.status = "active"]
  <2>1. NoStay \in Stay /\ NoStay.status = "none" /\ NoStay.offer = None
    BY <1>1 DEF NoStay, Stay
  <2>2. a \in Stay /\ a.status = "active" /\ a.offer = None
    BY <2>1 DEF Stay
  <2>3. first = [a EXCEPT !.end = m]
    BY Zenon
  <2>4. m \in Nat
    BY <1>1
  <2>. HIDE DEF m, a
  <2>5. [a EXCEPT !.end = m] \in Stay /\ [a EXCEPT !.end = m].status = "active"
        /\ [a EXCEPT !.end = m].offer = None
    BY <2>2, <2>4 DEF Stay
  <2>. QED BY <2>1, <2>3, <2>5
<1>. HIDE DEF first
<1>3. /\ stays = [s \in Stays |-> IF s = 1 THEN first ELSE NoStay]
      /\ day = 0 /\ crashes = 0
      /\ clearance = "none" /\ transfer = "none"
      /\ lease = [s \in Stays |-> Nobody]
      /\ worker = [w \in Workers |-> Idle]
      /\ preparer = [p \in Preparers |-> Idle]
  BY DEF Init, first
<1>4. stays \in [Stays -> Stay] /\ Active = {1} /\ Upcoming = {} /\ Used = {1}
  <2>1. stays[1] = first /\ \A s \in Stays : s # 1 => stays[s] = NoStay
    BY <1>1, <1>3
  <2>2. stays \in [Stays -> Stay]
    BY <1>2, <1>3
  <2>3. /\ first.status = "active" /\ NoStay.status = "none"
        /\ \A s \in Stays : stays[s].status =
              IF s = 1 THEN "active" ELSE "none"
    BY <1>2, <2>1
  <2>. QED BY <1>1, <2>2, <2>3 DEF Active, Upcoming, Used
<1>5. /\ reservation \in Reservation
      /\ reservation.status = "moveIn" /\ reservation.stay = 1
      /\ reservation.pending = None
  BY <1>1 DEF Init, Reservation
<1>6. /\ requests \in [Requests -> Request]
      /\ \A q \in Requests : requests[q].status = "none"
  BY <1>1 DEF Init, Request
<1>7. reviews \in [Reviews -> Review]
  BY DEF Init, Review
<1>8. /\ contracts \in [Contracts -> Contract]
      /\ \A c \in Contracts : /\ contracts[c].status = "none" =>
                                    /\ contracts[c].purpose = "none"
                                    /\ ~contracts[c].final
                              /\ contracts[c].purpose # "renewal"
  <2>1. PICK status \in {"active", "published"} :
           contracts = [c \in Contracts |-> IF c = 1
             THEN [NoContract EXCEPT !.purpose = "first", !.stay = 1,
                                     !.status = status, !.final = TRUE,
                                     !.current = TRUE]
             ELSE NoContract]
    BY DEF Init
  <2>. DEFINE n1 == [NoContract EXCEPT !.purpose = "first"]
              n2 == [n1 EXCEPT !.stay = 1]
              n3 == [n2 EXCEPT !.status = status]
              n4 == [n3 EXCEPT !.final = TRUE]
              n == [n4 EXCEPT !.current = TRUE]
  <2>2. contracts = [c \in Contracts |-> IF c = 1 THEN n ELSE NoContract]
    BY <2>1, Zenon
  <2>3. /\ NoContract \in Contract
        /\ NoContract.purpose = "none" /\ ~NoContract.final
    BY <1>1 DEF Contract, NoContract
  <2>4. n \in Contract /\ n.purpose = "first" /\ n.status = status
    <3>1. n1 \in Contract /\ n1.purpose = "first"
      BY <2>3 DEF Contract
    <3>. HIDE DEF n1
    <3>2. n2 \in Contract /\ n2.purpose = "first"
      BY <1>1, <3>1 DEF Contract
    <3>. HIDE DEF n2
    <3>3. n3 \in Contract /\ n3.purpose = "first" /\ n3.status = status
      BY <3>2 DEF Contract
    <3>. HIDE DEF n3
    <3>4. n4 \in Contract /\ n4.purpose = "first" /\ n4.status = status
      BY <3>3 DEF Contract
    <3>. HIDE DEF n4
    <3>. QED BY <3>4 DEF Contract
  <2>. HIDE DEF n
  <2>. QED BY <2>2, <2>3, <2>4
<1>9. TypeOK
  BY <1>1, <1>3, <1>4, <1>5, <1>6, <1>7, <1>8 DEF TypeOK
<1>10. StayInv
  BY <1>4, <1>5 DEF StayInv, MovedIn
<1>11. ContractInv /\ PreparerInv /\ WorkerInv
  BY <1>3, <1>8 DEF ContractInv, PreparerInv, WorkerInv, Accepting
<1>12. PlansExclude
  BY <1>3, <1>5, <1>6 DEF PlansExclude
<1>13. OfferAnsweredOnce
  <2>1. \A s \in Used : stays[s].offer = None
    BY <1>1, <1>2, <1>3, <1>4
  <2>. QED BY <2>1 DEF OfferAnsweredOnce
<1>. QED BY <1>9, <1>10, <1>11, <1>12, <1>13 DEF IInv

LEMMA StutterKeeps ==
    ASSUME IInv, UNCHANGED vars
    PROVE  IInv'
PROOF
<1>1. /\ UNCHANGED records /\ day' = day /\ crashes' = crashes
      /\ worker' = worker /\ preparer' = preparer
  BY DEF vars
<1>2. /\ day \in 0..MaxDay /\ crashes \in 0..MaxCrashes /\ day <= day'
      /\ worker \in [Workers -> Job \cup {Idle}]
      /\ preparer \in [Preparers -> Preparation \cup {Idle}]
  BY <1>1 DEF IInv, TypeOK
<1>. QED BY <1>1, <1>2, QuietStep

LEMMA NextIInv == IInv /\ [Next]_vars => IInv'
PROOF
<1> SUFFICES ASSUME IInv, [Next]_vars PROVE IInv'
  OBVIOUS
<1>1. CASE UNCHANGED vars
  BY <1>1, StutterKeeps
<1>2. CASE CreateExtension \/ (\E q \in Requests : Reject(q))
  BY <1>2, CreateExtensionKeeps, RejectKeeps
<1>3. CASE (\E gap \in {0, 1} : DirectRenew(gap)) \/ (\E o \in Offers : Decline(o))
  BY <1>3, DirectRenewKeeps, DeclineKeeps
<1>4. ASSUME NEW w \in Workers,
             Extending(w) \/ Offering(w) \/ Signing(w) \/ Ending(w)
      PROVE  IInv'
  <2>1. CASE Extending(w)
    BY <2>1, ReadsKeep, ApproveCommitKeeps DEF Extending
  <2>2. CASE Offering(w)
    BY <2>2, ReadsKeep, OfferWriteKeeps, AcceptClaimKeeps, WithdrawWriteKeeps,
       AcceptRenewKeeps, AcceptRollbackKeeps DEF Offering
  <2>3. CASE Signing(w)
    BY <2>3, ReadsKeep, SignWriteKeeps DEF Signing
  <2>4. CASE Ending(w)
    BY <2>4, ReadsKeep, ClearWriteKeeps, SettleSaveKeeps, ExecuteSaveKeeps,
       HandlerMovesOutKeeps DEF Ending
  <2>. QED BY <1>4, <2>1, <2>2, <2>3, <2>4
<1>5. CASE Lock \/ (\E s \in Stays : ExpireLease(s))
  BY <1>5, LeaseKeeps
<1>6. ASSUME NEW p \in Preparers, PreparerNext(p) PROVE IInv'
  BY <1>6, LeaseKeeps, PrepareCreateKeeps, PrepareGenerateKeeps
     DEF PreparerNext
<1>7. CASE NightlyActivation \/ (\E c \in Contracts : MarkPrinted(c))
  BY <1>7, ActivateKeeps, MarkPrintedKeeps DEF NightlyActivation
<1>8. CASE Leave \/ Deciding
  BY <1>8, LeaveKeeps, DecidingKeeps
<1>9. CASE OpenTransfer \/ CloseTransfer \/ CutOver
  BY <1>9, TransferKeeps, CutOverKeeps
<1>10. CASE Tick \/ Crash
  BY <1>10, TickKeeps, CrashKeeps
<1>. QED BY <1>1, <1>2, <1>3, <1>4, <1>5, <1>6, <1>7, <1>8, <1>9, <1>10
         DEF Next

LEMMA Invariance == Spec => []IInv
PROOF
BY InitIInv, NextIInv, PTL DEF Spec

\* Every document and every handler in flight keeps its type.
THEOREM TypeCorrect == Spec => []TypeOK
PROOF
<1>1. IInv => TypeOK
  BY DEF IInv
<1>. QED BY <1>1, Invariance, PTL

\* An extension request, a renewal, a room transfer and a clearance never
\* stand beside each other, however their handlers overlap and are delayed.
THEOREM PlansNeverMeet == Spec => []PlansExclude
PROOF
<1>1. IInv => PlansExclude
  BY DEF IInv
<1>. QED BY <1>1, Invariance, PTL

\* An offer becomes one stay at most, and is not open again afterwards.
THEOREM OffersAnswered == Spec => []OfferAnsweredOnce
PROOF
<1>1. IInv => OfferAnsweredOnce
  BY DEF IInv
<1>. QED BY <1>1, Invariance, PTL

-----------------------------------------------------------------------------
(* The documents implement the line of the tenancy                         *)

\* A final document stays, with the stay it is for.
FinalsRemain ==
    \A d \in Contracts :
       contracts[d].final => /\ contracts'[d].final
                             /\ contracts'[d].purpose = contracts[d].purpose
                             /\ contracts'[d].stay = contracts[d].stay

StartsRemain == \A s \in Used : stays'[s].start = stays[s].start

LEMMA ReadyIsUsed ==
    ASSUME ContractInv
    PROVE  /\ Ready \subseteq Used
           /\ \A s \in Ready : \E c \in Contracts :
                 /\ contracts[c].purpose = "renewal"
                 /\ contracts[c].stay = s /\ contracts[c].final
PROOF
BY DEF ContractInv, Ready, Papers

\* Who is ready stays ready.
LEMMA ReadyGrows ==
    ASSUME TypeOK, TypeOK', ContractInv, FinalsRemain, StartsRemain,
           day <= day'
    PROVE  Ready \subseteq Ready'
PROOF
<1> SUFFICES ASSUME NEW s \in Ready PROVE s \in Ready'
  OBVIOUS
<1>1. s \in Used /\ s \in Stays /\ stays[s].start <= day
  BY ReadyIsUsed DEF Ready
<1>2. PICK c \in Contracts : /\ contracts[c].purpose = "renewal"
                             /\ contracts[c].stay = s /\ contracts[c].final
  BY ReadyIsUsed
<1>3. /\ contracts'[c].purpose = "renewal"
      /\ contracts'[c].stay = s /\ contracts'[c].final
  BY <1>2 DEF FinalsRemain
<1>4. stays[s].start \in Nat /\ day \in Nat /\ day' \in Nat
  BY <1>1 DEF TypeOK, Stay
<1>5. stays'[s].start <= day'
  BY <1>1, <1>4 DEF StartsRemain
<1>. QED BY <1>1, <1>3, <1>5 DEF Ready, Papers

\* Nobody gets ready but by a document or by the day.
LEMMA ReadyKept ==
    ASSUME ContractInv, StartsRemain, day' = day,
           \A d \in Contracts :
              \/ contracts'[d] = contracts[d]
              \/ /\ contracts'[d].purpose = contracts[d].purpose
                 /\ contracts'[d].stay = contracts[d].stay
                 /\ contracts'[d].final = contracts[d].final
    PROVE  Ready' = Ready
PROOF
<1>1. \A s \in Stays :
         (\E c \in Contracts : /\ contracts'[c].purpose = "renewal"
                               /\ contracts'[c].stay = s
                               /\ contracts'[c].final) <=>
         (\E c \in Contracts : /\ contracts[c].purpose = "renewal"
                               /\ contracts[c].stay = s
                               /\ contracts[c].final)
  BY Zenon
<1>2. \A s \in Stays :
         (\E c \in Contracts : /\ contracts[c].purpose = "renewal"
                               /\ contracts[c].stay = s
                               /\ contracts[c].final) => s \in Used
  BY DEF ContractInv
<1>3. \A s \in Stays :
         (s \in Ready <=> /\ stays[s].start <= day
                          /\ \E c \in Contracts :
                                /\ contracts[c].purpose = "renewal"
                                /\ contracts[c].stay = s
                                /\ contracts[c].final)
  BY DEF Ready, Papers
<1>4. \A s \in Stays :
         (s \in Ready' <=> /\ stays'[s].start <= day'
                           /\ \E c \in Contracts :
                                 /\ contracts'[c].purpose = "renewal"
                                 /\ contracts'[c].stay = s
                                 /\ contracts'[c].final)
  BY DEF Ready, Papers
<1>5. \A s \in Stays : s \in Ready' <=> s \in Ready
  BY <1>1, <1>2, <1>3, <1>4 DEF StartsRemain
<1>. QED BY <1>5 DEF Ready

\* A step that leaves the stays alone prepares, at most.
LEMMA PrepareStep ==
    ASSUME IInv, IInv', stays' = stays, FinalsRemain, day <= day'
    PROVE  Line!Prepare
PROOF
<1>1. StartsRemain /\ Active' = Active /\ Upcoming' = Upcoming
  BY DEF StartsRemain, Active, Upcoming
<1>2. Ready \subseteq Ready'
  BY <1>1, ReadyGrows DEF IInv
<1>3. Ready' \in SUBSET (1..MaxStays)
  BY DEF Ready, Stays
<1>. QED BY <1>1, <1>2, <1>3 DEF Line!Prepare, Upcoming

\* Documents of contracts that are written.
LEMMA PapersWritten ==
    ASSUME IInv,
           \/ \E p \in Preparers : PrepareCreate(p) \/ PrepareGenerate(p)
           \/ \E c \in Contracts : MarkPrinted(c)
           \/ \E w \in Workers : SignWrite(w)
           \/ CutOver
    PROVE  stays' = stays /\ day' = day /\ FinalsRemain
PROOF
<1>1. TypeOK /\ ContractInv /\ contracts \in [Contracts -> Contract]
  BY DEF IInv, TypeOK
<1>2. ASSUME NEW p \in Preparers, PrepareCreate(p)
      PROVE  stays' = stays /\ day' = day /\ FinalsRemain
  <2>. DEFINE c == Next1(Written)
              found == {e \in Written : /\ contracts[e].replaces = preparer[p].old
                                        /\ contracts[e].purpose = "renewal"
                                        /\ contracts[e].status # "cancelled"}
  <2>1. /\ stays' = stays /\ day' = day
        /\ found # {} => contracts' = contracts
    BY <1>2 DEF PrepareCreate
  <2>2. CASE found = {}
    <3>1. c \in Contracts /\ \A d \in Contracts : d # c => contracts'[d] = contracts[d]
      BY <1>1, <1>2, <2>2 DEF PrepareCreate
    <3>2. c \notin Written
      <4>1. /\ Written \subseteq 1..(MaxStays + MaxMoves)
            /\ MaxStays + MaxMoves \in Nat
        BY StayAssumption DEF Written, Contracts
      <4>. QED BY <4>1, Next1Above
    <3>. HIDE DEF c
    <3>3. ~contracts[c].final
      BY <1>1, <3>1, <3>2 DEF ContractInv, Written
    <3>. QED BY <2>1, <3>1, <3>3 DEF FinalsRemain
  <2>3. CASE found # {}
    BY <2>1, <2>3 DEF FinalsRemain
  <2>. QED BY <2>2, <2>3
<1>3. ASSUME NEW p \in Preparers, PrepareGenerate(p)
      PROVE  stays' = stays /\ day' = day /\ FinalsRemain
  <2>. DEFINE c == preparer[p].made
  <2>1. /\ stays' = stays /\ day' = day
        /\ contracts' = [contracts EXCEPT ![c].status = "generated"]
    BY <1>3 DEF PrepareGenerate
  <2>. HIDE DEF c
  <2>2. CASE c \in Contracts
    BY <1>1, <2>1, <2>2, StatusEdited DEF FinalsRemain
  <2>3. CASE c \notin Contracts
    <3>1. contracts' = contracts
      BY <1>1, <2>1, <2>3
    <3>. QED BY <2>1, <3>1 DEF FinalsRemain
  <2>. QED BY <2>2, <2>3
<1>4. ASSUME NEW c \in Contracts, MarkPrinted(c)
      PROVE  stays' = stays /\ day' = day /\ FinalsRemain
  <2>1. /\ stays' = stays /\ day' = day
        /\ contracts' = [contracts EXCEPT ![c].status = "signing"]
    BY <1>4 DEF MarkPrinted
  <2>. QED BY <1>1, <2>1, StatusEdited DEF FinalsRemain
<1>5. ASSUME NEW w \in Workers, SignWrite(w)
      PROVE  stays' = stays /\ day' = day /\ FinalsRemain
  BY <1>5, SignWrites DEF SignWrite, FinalsRemain
<1>6. CASE CutOver
  <2>1. \A d \in Contracts : contracts[d].status = "none" => ~contracts[d].final
    BY <1>1 DEF ContractInv
  <2>. QED BY <1>6, <2>1, CutOverWrites DEF CutOver, FinalsRemain
<1>. QED BY <1>2, <1>3, <1>4, <1>5, <1>6

\* A renewal is planned.
LEMMA PlanStep ==
    ASSUME IInv, IInv', NEW q \in 0..MaxRequests, NEW o \in 0..MaxOffers,
           NEW start \in Nat, RenewAllowed(q, start), Renew(q, o, start),
           day' = day
    PROVE  Line!Plan
PROOF
<1> DEFINE n == Next1(Used)
<1>1. TypeOK /\ StayInv /\ ContractInv
  BY DEF IInv
<1>2. /\ reservation'.status = reservation.status
      /\ reservation'.stay = reservation.stay
      /\ contracts' = contracts
  BY <1>1 DEF Renew, TypeOK, Reservation
<1>3. InForce \in Stays /\ MovedIn
  BY <1>1, InForceIs DEF RenewAllowed
<1>4. /\ n \in Stays /\ n \notin Used /\ \A s \in Used : s < n
      /\ \A s \in Stays : s # n => stays'[s] = stays[s]
  BY <1>1, <1>3, RenewWrites
<1>5. Upcoming = {} /\ Upcoming' = {n} /\ Active' = Active
  BY <1>1, <1>2, RenewStays
<1>. HIDE DEF n
<1>6. Active # {} /\ \A t \in Active : t < n
  BY <1>1, <1>3, <1>4 DEF StayInv, Active, Used
<1>7. StartsRemain
  BY <1>4 DEF StartsRemain, Used
<1>8. Ready' = Ready
  BY <1>1, <1>2, <1>7, ReadyKept
<1>9. n \in 1..MaxStays
  BY <1>4 DEF Stays
<1>. QED BY <1>5, <1>6, <1>8, <1>9 DEF Line!Plan, Upcoming

\* The planned stay takes over when its contract is final and its day has
\* come; an activation that finds no planned stay changes contracts only.
LEMMA ActivateLine ==
    ASSUME IInv, IInv', NEW c \in Contracts, Activate(c)
    PROVE  Line!TakeOver \/ Line!Prepare
PROOF
<1> DEFINE next == contracts[c].stay
<1>1. /\ day' = day /\ TypeOK /\ ContractInv
      /\ contracts[c].purpose = "renewal" /\ contracts[c].final
      /\ stays[next].start <= day
  BY DEF Activate, Candidates, Due, IInv
<1>2. CASE stays[next].status = "upcoming"
  <2>1. /\ next \in Stays
        /\ Upcoming = {next} /\ Upcoming' = {}
        /\ Active' = {next}
        /\ \A s \in Stays : stays'[s].start = stays[s].start
    BY <1>2, ActivateStays
  <2>2. StartsRemain
    BY <2>1 DEF StartsRemain, Used
  <2>3. Ready' = Ready
    BY <1>1, <2>2, ActivateContracts, ReadyKept
  <2>4. next \in Ready
    BY <1>1, <2>1 DEF Ready, Papers
  <2>. HIDE DEF next
  <2>. QED BY <2>1, <2>3, <2>4 DEF Line!TakeOver, Upcoming
<1>3. CASE stays[next].status # "upcoming"
  <2>1. stays' = stays
    BY <1>3 DEF Activate
  <2>2. FinalsRemain
    BY ActivateContracts DEF FinalsRemain
  <2>3. day <= day'
    BY <1>1 DEF TypeOK
  <2>. QED BY <2>1, <2>2, <2>3, PrepareStep
<1>. QED BY <1>2, <1>3

\* A move-out is the departure.
LEMMA DepartStep ==
    ASSUME IInv, CanMoveOut, MoveOut, day' = day
    PROVE  Line!Depart
PROOF
<1>1. ContractInv
  BY DEF IInv
<1>2. StartsRemain
  BY MoveOutWrites DEF StartsRemain, Used
<1>3. Ready' = Ready
  BY <1>1, <1>2, MoveOutWrites, ReadyKept
<1>. QED BY <1>3, MoveOutWrites DEF Line!Depart, Upcoming

\* A step that leaves stays, contracts and the day alone.
LEMMA QuietLine ==
    ASSUME IInv, IInv', stays' = stays, contracts' = contracts, day' = day
    PROVE  Line!Prepare
PROOF
<1>1. FinalsRemain /\ day <= day'
  BY DEF FinalsRemain, IInv, TypeOK
<1>. QED BY <1>1, PrepareStep

LEMMA LineStep ==
    ASSUME IInv, IInv', [Next]_vars
    PROVE  Line!LineNext
PROOF
<1> DEFINE Quiet == stays' = stays /\ contracts' = contracts /\ day' = day
<1>0. ASSUME Quiet PROVE Line!LineNext
  BY <1>0, QuietLine DEF Line!LineNext
<1>1. CASE UNCHANGED vars
  BY <1>0, <1>1 DEF vars, records
<1>2. CASE CreateExtension \/ (\E q \in Requests : Reject(q))
  BY <1>0, <1>2 DEF CreateExtension, Reject
<1>3. ASSUME NEW gap \in {0, 1}, DirectRenew(gap) PROVE Line!LineNext
  <2>. DEFINE start == stays[InForce].end + 1 + gap
  <2>1. /\ InForce # None /\ RenewAllowed(None, start)
        /\ Renew(None, None, start) /\ day' = day
    BY <1>3 DEF DirectRenew
  <2>2. start \in Nat
    <3>1. InForce \in Stays
      BY <2>1, InForceIs DEF IInv
    <3>. QED BY <3>1 DEF IInv, TypeOK, Stay
  <2>3. None \in 0..MaxOffers /\ None \in 0..MaxRequests
    BY StayAssumption DEF None
  <2>. HIDE DEF start
  <2>. QED BY <2>1, <2>2, <2>3, PlanStep DEF Line!LineNext
<1>4. CASE \E o \in Offers : Decline(o)
  BY <1>0, <1>4 DEF Decline, SetOffer
<1>5. ASSUME NEW w \in Workers, Extending(w) PROVE Line!LineNext
  <2>1. CASE \E q \in Requests : ApproveRead(w, q)
    BY <1>0, <2>1 DEF ApproveRead, records
  <2>2. CASE ApproveCommit(w)
    <3>. DEFINE q == worker[w].n
                start == worker[w].k
    <3>1. /\ q \in 0..MaxRequests /\ start \in Nat /\ None \in 0..MaxOffers
          /\ day' = day
      <4>1. /\ worker[w] \in Job /\ JobInv(worker[w])
            /\ worker[w].op = "approve"
        BY <2>2 DEF ApproveCommit, At, IInv, WorkerInv, TypeOK
      <4>2. q \in Requests /\ start \in Nat
        BY <4>1 DEF JobInv, Job
      <4>. QED BY <2>2, <4>2, StayAssumption
               DEF ApproveCommit, Requests, None
    <3>2. CASE RenewAllowed(q, start)
      <4>1. Renew(q, None, start)
        BY <2>2, <3>2 DEF ApproveCommit
      <4>. HIDE DEF q, start
      <4>. QED BY <3>1, <3>2, <4>1, PlanStep DEF Line!LineNext
    <3>3. CASE ~RenewAllowed(q, start)
      BY <1>0, <2>2, <3>3 DEF ApproveCommit, records
    <3>. QED BY <3>2, <3>3
  <2>. QED BY <1>5, <2>1, <2>2 DEF Extending
<1>6. ASSUME NEW w \in Workers, Offering(w) PROVE Line!LineNext
  <2>1. CASE \/ OfferRead(w)
             \/ \E o \in Offers : WithdrawRead(w, o) \/ AcceptClaim(w, o)
    BY <1>0, <2>1 DEF OfferRead, WithdrawRead, AcceptClaim, SetOffer, records
  <2>2. CASE OfferWrite(w) \/ WithdrawWrite(w) \/ AcceptRollback(w)
    BY <1>0, <2>2 DEF OfferWrite, WithdrawWrite, AcceptRollback, SetOffer, records
  <2>3. CASE AcceptRenew(w)
    <3>. DEFINE o == worker[w].n
                start == worker[w].k
    <3>1. /\ o \in 0..MaxOffers /\ start \in Nat /\ None \in 0..MaxRequests
          /\ day' = day
      <4>1. /\ worker[w] \in Job /\ JobInv(worker[w])
            /\ worker[w].op = "accept"
        BY <2>3 DEF AcceptRenew, At, IInv, WorkerInv, TypeOK
      <4>2. o \in Offers /\ start \in Nat
        BY <4>1 DEF JobInv, Job
      <4>. QED BY <2>3, <4>2, StayAssumption DEF AcceptRenew, Offers, None
    <3>2. CASE RenewAllowed(None, start)
      <4>1. Renew(None, o, start)
        BY <2>3, <3>2 DEF AcceptRenew
      <4>. HIDE DEF o, start
      <4>. QED BY <3>1, <3>2, <4>1, PlanStep DEF Line!LineNext
    <3>3. CASE ~RenewAllowed(None, start)
      BY <1>0, <2>3, <3>3 DEF AcceptRenew, records
    <3>. QED BY <3>2, <3>3
  <2>. QED BY <1>6, <2>1, <2>2, <2>3 DEF Offering
<1>7. ASSUME stays' = stays, day' = day, FinalsRemain PROVE Line!LineNext
  <2>1. day <= day'
    BY <1>7 DEF IInv, TypeOK
  <2>. QED BY <1>7, <2>1, PrepareStep DEF Line!LineNext
<1>8. ASSUME NEW w \in Workers, Signing(w) PROVE Line!LineNext
  <2>1. CASE \E c \in Contracts : \E op \in {"sign", "notarize"} :
                SignRead(w, c, op)
    BY <1>0, <2>1 DEF SignRead, records
  <2>2. CASE SignWrite(w)
    BY <1>7, <2>2, PapersWritten
  <2>. QED BY <1>8, <2>1, <2>2 DEF Signing
<1>9. ASSUME NEW w \in Workers, Ending(w) PROVE Line!LineNext
  <2>1. CASE \/ ClearRead(w) \/ SettleRead(w)
             \/ \E r \in Reviews : ExecuteRead(w, r)
    BY <1>0, <2>1 DEF ClearRead, SettleRead, ExecuteRead, records
  <2>2. CASE ClearWrite(w) \/ SettleSave(w) \/ ExecuteSave(w)
    BY <1>0, <2>2 DEF ClearWrite, SettleSave, ExecuteSave, SetClearance,
       SetReview, records
  <2>3. CASE HandlerMovesOut(w)
    <3>1. CASE CanMoveOut
      BY <2>3, <3>1, DepartStep DEF HandlerMovesOut, Line!LineNext
    <3>2. CASE ~CanMoveOut
      BY <1>0, <2>3, <3>2 DEF HandlerMovesOut, records
    <3>. QED BY <3>1, <3>2
  <2>. QED BY <1>9, <2>1, <2>2, <2>3 DEF Ending
<1>10. CASE Lock \/ (\E s \in Stays : ExpireLease(s))
  BY <1>0, <1>10 DEF Lock, PrepareLock, ExpireLease
<1>11. ASSUME NEW p \in Preparers, PreparerNext(p) PROVE Line!LineNext
  <2>1. CASE PrepareUnlock(p)
    BY <1>0, <2>1 DEF PrepareUnlock
  <2>. QED BY <1>7, <1>11, <2>1, PapersWritten DEF PreparerNext
<1>12. CASE NightlyActivation
  BY <1>12, ActivateLine DEF NightlyActivation, Line!LineNext
<1>13. CASE (\E c \in Contracts : MarkPrinted(c)) \/ CutOver
  BY <1>7, <1>13, PapersWritten
<1>14. CASE Leave
  BY <1>14, DepartStep DEF Leave, Line!LineNext
<1>15. CASE Deciding
  BY <1>0, <1>15 DEF Deciding, OpenReview, Restate, Decide, SetReview
<1>16. CASE OpenTransfer \/ CloseTransfer
  BY <1>0, <1>16 DEF OpenTransfer, CloseTransfer
<1>17. CASE Tick
  <2>1. stays' = stays /\ contracts' = contracts /\ day' = day + 1
    BY <1>17 DEF Tick, records
  <2>2. day <= day'
    BY <2>1 DEF IInv, TypeOK
  <2>. QED BY <2>1, <2>2, PrepareStep DEF FinalsRemain, Line!LineNext
<1>18. CASE Crash
  BY <1>0, <1>18 DEF Crash, records
<1>. QED BY <1>1, <1>2, <1>3, <1>4, <1>5, <1>6, <1>8, <1>9, <1>10, <1>11,
            <1>12, <1>13, <1>14, <1>15, <1>16, <1>17, <1>18 DEF Next

\* Extension requests, offers, renewals, transfers, uploads and departures
\* implement the line of the tenancy: one stay in force, one planned at most,
\* which takes over on its day with a final contract.
THEOREM ImplementsLine == Spec => ImplementsTenancyLine
PROOF
<1>1. Init => Line!LineInit
  <2> SUFFICES ASSUME Init PROVE Line!LineInit
    OBVIOUS
  <2>1. IInv
    BY InitIInv
  <2>2. reservation.status = "moveIn" /\ reservation.stay = 1
    BY DEF Init
  <2>3. Active = {1}
    BY <2>1, <2>2 DEF IInv, StayInv, MovedIn
  <2>4. Used = {1}
    <3>1. 1 \in Used
      BY <2>3 DEF Active, Used
    <3>2. \A s \in Stays : s # 1 => stays[s] = NoStay
      BY DEF Init
    <3>3. NoStay.status = "none"
      BY DEF NoStay
    <3>. QED BY <3>1, <3>2, <3>3 DEF Used
  <2>5. stays[1].status = "active"
    BY <2>3 DEF Active
  <2>6. Upcoming = {}
    BY <2>4, <2>5 DEF Upcoming, Used
  <2>7. \A c \in Contracts : contracts[c].purpose # "renewal"
    <3>1. PICK status \in {"active", "published"} :
             contracts = [c \in Contracts |-> IF c = 1
               THEN [NoContract EXCEPT !.purpose = "first", !.stay = 1,
                                       !.status = status, !.final = TRUE,
                                       !.current = TRUE]
               ELSE NoContract]
      BY DEF Init
    <3>2. [NoContract EXCEPT !.purpose = "first", !.stay = 1,
                             !.status = status, !.final = TRUE,
                             !.current = TRUE].purpose = "first"
      BY DEF NoContract
    <3>3. NoContract.purpose = "none"
      BY DEF NoContract
    <3>. QED BY <3>1, <3>2, <3>3
  <2>8. Ready = {}
    BY <2>7 DEF Ready, Papers
  <2>. QED BY <2>3, <2>6, <2>8 DEF Line!LineInit, Upcoming
<1>2. IInv /\ IInv' /\ [Next]_vars => [Line!LineNext]_(Line!lineVars)
  BY LineStep
<1>. QED BY <1>1, <1>2, Invariance, PTL
         DEF Spec, ImplementsTenancyLine, Line!LineSpec
=============================================================================
