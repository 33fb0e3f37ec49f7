---------------------- MODULE TransferRequests_proofs ----------------------
(***************************************************************************)
(* What TransferRequests guarantees for every number of requests,          *)
(* transfers and handlers that overlap.                                    *)
(***************************************************************************)
EXTENDS TransferRequests, CountingLemmas, TLAPS

-----------------------------------------------------------------------------
(* The inductive invariant                                                 *)

Seen == {"open", "executed", "cancelled"}

ForRequest(j, q) == j.op = "schedule" /\ j.q = q

\* TypeOK, and there is a job for every worker.
Shape ==
    /\ TypeOK
    /\ worker \in [Workers -> Job \cup {Idle}]

\* What a handler carries: a transfer that exists, what it was when it was
\* read, and a request that was submitted before that transfer.
JobInv(j) ==
    /\ j.op = "schedule" =>
          /\ j.q = 0 => j.pc = "schedule"
          /\ j.q # 0 => request[j.q].status # "none"
          /\ j.saw \in {"none", "open"}
          /\ j.pc \in {"link", "repair"} =>
                /\ j.x \in Transfers /\ j.saw = "open"
                /\ request[j.q].after < j.x
    /\ j.op = "sync" => j.x \in Transfers /\ j.saw \in Seen
    /\ j.op = "reconcile" =>
          /\ j.q \in Requests /\ request[j.q].status # "none"
          /\ IF j.x = 0 THEN j.saw \in {"none", "lapsed"} ELSE j.saw \in Seen
    /\ j.saw = "executed" => transfer[j.x].status = "executed"

WorkerInv == \A w \in Workers : worker[w] # Idle => JobInv(worker[w])

\* A request knows transfers that exist, and is older than every open one.
AgeInv ==
    \A q \in Requests : request[q].status # "none" =>
       /\ request[q].after # 0 => transfer[request[q].after].status # "none"
       /\ \A x \in Transfers :
             transfer[x].status = "open" => request[q].after < x

\* What a request says of its transfer.
Document(q) ==
    /\ request[q].status \in {"none", "pending", "scheduling", "declined"}
          => request[q].link = NoTransfer
    /\ request[q].status # "none" /\ request[q].link # NoTransfer
          => request[q].after < request[q].link
    /\ request[q].status = "completed" =>
          /\ request[q].link # NoTransfer
          /\ transfer[request[q].link].status = "executed"

DocumentInv == \A q \in Requests : Document(q)

\* A request that nobody is scheduling and no transfer is known of.
Free(q) ==
    /\ request[q].status \in {"pending", "declined", "cancelled"}
    /\ request[q].link = NoTransfer

Unscheduled(q) ==
    \A x \in Transfers : transfer[x].status = "open" => transfer[x].of # q

Unattended(q) ==
    \A w \in Workers : worker[w] # Idle => ~ForRequest(worker[w], q)

\* A handler works for a claimed request only under its own living claim, and
\* gives the claim back only when there is no transfer.
Held(q, w, j) ==
    ForRequest(j, q) /\ request[q].status = "scheduling" =>
       /\ request[q].token = w
       /\ request[q].fresh
       /\ j.pc = "unclaim" => Unscheduled(q)

\* A reader that saw a claim lapse acts on that claim or on none.
SeenLapsed(q, j) ==
    j.saw = "lapsed" /\ j.q = q =>
       /\ request[q].status = "scheduling" => ~request[q].fresh
       /\ Lapsed(q) => Unscheduled(q)

Claim(q) ==
    /\ Free(q) => Unattended(q) /\ Unscheduled(q)
    /\ Lapsed(q) => Unattended(q)
    /\ \A w \in Workers : worker[w] # Idle =>
          Held(q, w, worker[w]) /\ SeenLapsed(q, worker[w])

ClaimInv == \A q \in Requests : Claim(q)

IInv == Shape /\ WorkerInv /\ AgeInv /\ DocumentInv /\ ClaimInv

\* The next number is above all that are taken.
LEMMA Next1Above ==
    ASSUME NEW S, NEW N \in Nat, S \subseteq 1..N
    PROVE  /\ Next1(S) \in 1..(N + 1)
           /\ \A y \in S : y < Next1(S)
PROOF
<1> DEFINE m == Max(S \cup {0})
<1>1. S \cup {0} \subseteq 0..N
  OBVIOUS
<1>2. m \in S \cup {0} /\ \A y \in S \cup {0} : y <= m
  BY <1>1, MaxIn
<1>. HIDE DEF m
<1>3. m \in 0..N
  BY <1>1, <1>2
<1>4. Next1(S) = m + 1
  BY DEF Next1, m
<1>. QED BY <1>2, <1>3, <1>4

-----------------------------------------------------------------------------
(* What survives a step                                                    *)

\* Requests and transfers come into being once, and a moved tenant is moved.
Grows ==
    /\ \A q \in Requests : request[q].status # "none" =>
          /\ request'[q].status # "none"
          /\ request'[q].after = request[q].after
    /\ \A x \in Transfers :
          /\ transfer[x].status = "executed" => transfer'[x].status = "executed"
          /\ transfer[x].status # "none" => transfer'[x].status # "none"

\* No transfer opens, and none changes the request it is for.
NoneOpens ==
    \A x \in Transfers :
       transfer'[x].status = "open" =>
          transfer[x].status = "open" /\ transfer'[x].of = transfer[x].of

\* The members of a document.
LEMMA Members ==
    ASSUME Shape
    PROVE  /\ \A q \in Requests :
                 /\ request[q] \in Request
                 /\ request[q].link \in 0..MaxTransfers
                 /\ request[q].after \in 0..MaxTransfers
                 /\ request[q].status \in {"none"} \cup OpenStatuses \cup Closed
                 /\ request[q].token \in Workers \cup {Nobody}
                 /\ request[q].fresh \in BOOLEAN
           /\ \A x \in Transfers :
                 /\ transfer[x] \in Transfer
                 /\ transfer[x].of \in 0..MaxRequests
                 /\ transfer[x].status \in {"none", "open", "executed", "cancelled"}
           /\ \A w \in Workers : worker[w] # Idle =>
                 /\ worker[w] \in Job
                 /\ worker[w].q \in 0..MaxRequests
                 /\ worker[w].x \in 0..MaxTransfers
PROOF
BY DEF Shape, TypeOK, Request, Transfer, Job

\* An idle worker is no job.
LEMMA IdleIsNoJob == ASSUME NEW j \in Job PROVE j # Idle /\ j.op # "idle"
PROOF
BY DEF Job, Idle

\* What a handler carries stays true while documents grow.
LEMMA JobStays ==
    ASSUME NEW j \in Job, JobInv(j), Grows
    PROVE  JobInv(j)'
PROOF
<1>1. j.q \in 0..MaxRequests /\ j.x \in 0..MaxTransfers
  BY DEF Job
<1>2. j.q # 0 => j.q \in Requests
  BY <1>1, RequestAssumption DEF Requests
<1>3. j.x # 0 => j.x \in Transfers
  BY <1>1, RequestAssumption DEF Transfers
<1>4. j.op \in {"schedule", "sync", "reconcile"}
  BY DEF Job
<1>5. CASE j.op = "schedule"
  BY <1>2, <1>3, <1>5 DEF JobInv, Grows
<1>6. CASE j.op = "sync"
  BY <1>2, <1>3, <1>6 DEF JobInv, Grows
<1>7. CASE j.op = "reconcile"
  BY <1>2, <1>3, <1>7 DEF JobInv, Grows, Seen
<1>. QED BY <1>4, <1>5, <1>6, <1>7

\* Every worker keeps its job, ends it, or takes a sound one.
LEMMA WorkersStay ==
    ASSUME Shape, WorkerInv, Grows,
           \A w \in Workers :
              \/ worker'[w] = worker[w]
              \/ worker'[w] = Idle
              \/ worker'[w] \in Job /\ JobInv(worker[w])'
    PROVE  WorkerInv'
PROOF
<1> SUFFICES ASSUME NEW w \in Workers, worker'[w] # Idle
             PROVE  JobInv(worker[w])'
  BY DEF WorkerInv
<1>1. CASE worker'[w] = worker[w]
  <2>1. worker[w] \in Job /\ JobInv(worker[w])
    BY <1>1, Members DEF WorkerInv
  <2>. DEFINE j == worker[w]
  <2>2. j \in Job /\ JobInv(j) /\ worker'[w] = j
    BY <1>1, <2>1
  <2>3. \A k \in Job : JobInv(k) => JobInv(k)'
    BY JobStays
  <2>. QED BY <2>2, <2>3
<1>. QED BY <1>1

\* A request stays older than the open transfers as long as none opens and
\* none is submitted.
LEMMA AgeStays ==
    ASSUME Shape, AgeInv, Grows, NoneOpens,
           \A q \in Requests :
              request'[q].status # "none" => request[q].status # "none"
    PROVE  AgeInv'
PROOF
<1>1. \A q \in Requests : request[q].after # 0 => request[q].after \in Transfers
  BY Members, RequestAssumption DEF Transfers
<1>. QED BY <1>1 DEF AgeInv, Grows, NoneOpens

\* A document stays sound when it is not written, or written soundly.
LEMMA DocumentsStay ==
    ASSUME Shape, DocumentInv, Grows,
           \A q \in Requests :
              \/ /\ request'[q].status = request[q].status
                 /\ request'[q].link = request[q].link
                 /\ request'[q].after = request[q].after
              \/ Document(q)'
    PROVE  DocumentInv'
PROOF
<1>1. \A q \in Requests : request[q].link # 0 => request[q].link \in Transfers
  BY Members, RequestAssumption DEF Transfers
<1>. QED BY <1>1 DEF DocumentInv, Document, Grows, NoTransfer

\* Neither waiting nor being scheduled, nor refused without a transfer.
Settled(q) ==
    /\ ~Free(q)
    /\ request[q].status # "scheduling"

\* Claims stay exclusive when requests are settled or left alone, no transfer
\* opens, and no handler begins to work for a request.
LEMMA ClaimsStay ==
    ASSUME Shape, ClaimInv, NoneOpens,
           \A q \in Requests : request'[q] = request[q] \/ Settled(q)',
           \A w \in Workers :
              \/ worker'[w] = worker[w]
              \/ worker'[w] = Idle
              \/ /\ \A q \in Requests : ForRequest(worker'[w], q) =>
                       worker[w] # Idle /\ ForRequest(worker[w], q)
                 /\ worker'[w].pc = "unclaim" => OpenTransfers = {}
                 /\ worker'[w].saw = "lapsed" =>
                       Lapsed(worker'[w].q) /\ OpenTransfers = {}
    PROVE  ClaimInv'
PROOF
<1> SUFFICES ASSUME NEW q \in Requests PROVE Claim(q)'
  BY DEF ClaimInv
<1>1. Claim(q)
  BY DEF ClaimInv
<1>2. Unattended(q) => Unattended(q)'
  BY DEF Unattended
<1>3. Unscheduled(q) => Unscheduled(q)'
  BY DEF Unscheduled, NoneOpens
<1>4. OpenTransfers = {} => Unscheduled(q)
  BY DEF OpenTransfers, Unscheduled
<1>5. CASE Settled(q)'
  BY <1>5 DEF Settled, Claim, Held, SeenLapsed, Lapsed
<1>6. CASE request'[q] = request[q]
  <2>1. /\ Free(q)' = Free(q)
        /\ Lapsed(q)' = Lapsed(q)
    BY <1>6 DEF Free, Lapsed
  <2>2. ASSUME NEW w \in Workers, worker'[w] # Idle
        PROVE  Held(q, w, worker[w])' /\ SeenLapsed(q, worker[w])'
    BY <1>1, <1>3, <1>4, <1>6, <2>1, <2>2 DEF Claim, Held, SeenLapsed, Lapsed, ForRequest
  <2>. QED BY <1>1, <1>2, <1>3, <2>1, <2>2 DEF Claim
<1>. QED BY <1>5, <1>6

\* A handler goes on soundly, and for no other request than it was for.
GoesOn(w) ==
    /\ worker'[w] \in Job
    /\ JobInv(worker[w])'
    /\ \A q \in Requests : ForRequest(worker'[w], q) =>
          worker[w] # Idle /\ ForRequest(worker[w], q)
    /\ worker'[w].pc = "unclaim" => OpenTransfers = {}
    /\ worker'[w].saw = "lapsed" => Lapsed(worker'[w].q) /\ OpenTransfers = {}

\* What all steps share that submit, claim, give up and schedule nothing.
LEMMA Step ==
    ASSUME IInv, Grows, NoneOpens,
           request' \in [Requests -> Request],
           transfer' \in [Transfers -> Transfer],
           worker' \in [Workers -> Job \cup {Idle}],
           \A q \in Requests :
              \/ request'[q] = request[q]
              \/ /\ request[q].status # "none"
                 /\ Settled(q)' /\ Document(q)',
           \A w \in Workers :
              worker'[w] = worker[w] \/ worker'[w] = Idle \/ GoesOn(w)
    PROVE  IInv'
PROOF
<1>1. Shape'
  BY DEF Shape, TypeOK
<1>2. WorkerInv'
  BY WorkersStay DEF IInv, GoesOn
<1>3. AgeInv'
  BY AgeStays DEF IInv
<1>4. DocumentInv'
  BY DocumentsStay DEF IInv
<1>5. ClaimInv'
  BY ClaimsStay DEF IInv, GoesOn
<1>. QED BY <1>1, <1>2, <1>3, <1>4, <1>5 DEF IInv

\* The same when the documents are left alone.
LEMMA WorkerStep ==
    ASSUME IInv, UNCHANGED <<request, transfer>>,
           worker' \in [Workers -> Job \cup {Idle}],
           \A w \in Workers :
              worker'[w] = worker[w] \/ worker'[w] = Idle \/ GoesOn(w)
    PROVE  IInv'
PROOF
<1>1. Grows /\ NoneOpens
  BY DEF Grows, NoneOpens
<1>2. /\ request' \in [Requests -> Request]
      /\ transfer' \in [Transfers -> Transfer]
  BY DEF IInv, Shape, TypeOK
<1>. QED BY <1>1, <1>2, Step

\* One worker ends.
LEMMA DoneWorkers ==
    ASSUME Shape, NEW w \in Workers, Done(w)
    PROVE  /\ worker' \in [Workers -> Job \cup {Idle}]
           /\ worker'[w] = Idle
           /\ \A v \in Workers : worker'[v] = worker[v] \/ worker'[v] = Idle
PROOF
BY DEF Shape, Done

\* Steps that only end a handler.
LEMMA DoneKeeps ==
    ASSUME IInv, NEW w \in Workers, Done(w), UNCHANGED <<request, transfer>>
    PROVE  IInv'
PROOF
BY DoneWorkers, WorkerStep DEF IInv

\* Another handler, from one that is there.
LEMMA GotoJob ==
    ASSUME NEW j \in Job,
           NEW p \in {"schedule", "link", "repair", "release", "unclaim",
                      "sync", "write"}
    PROVE  /\ [j EXCEPT !.pc = p] \in Job
           /\ [j EXCEPT !.pc = p].op = j.op
           /\ [j EXCEPT !.pc = p].pc = p
           /\ [j EXCEPT !.pc = p].q = j.q
           /\ [j EXCEPT !.pc = p].x = j.x
           /\ [j EXCEPT !.pc = p].saw = j.saw
PROOF
BY DEF Job

LEMMA CommitFailsKeeps ==
    ASSUME IInv, NEW w \in Workers, CommitFails(w)
    PROVE  IInv'
PROOF
<1>1. CASE worker[w].q = 0
  BY <1>1, DoneKeeps DEF CommitFails
<1>2. CASE worker[w].q # 0
  <2>1. worker[w] \in Job /\ JobInv(worker[w])
    BY Members DEF IInv, Shape, WorkerInv, CommitFails, Idle
  <2>2. worker' = [worker EXCEPT ![w].pc = "release"]
    BY <1>2 DEF CommitFails, Goto
  <2>3. /\ worker'[w] \in Job
        /\ worker'[w].op = "schedule" /\ worker'[w].pc = "release"
        /\ worker'[w].q = worker[w].q /\ worker'[w].x = worker[w].x
        /\ worker'[w].saw = worker[w].saw
    BY <2>1, <2>2, GotoJob DEF CommitFails, IInv, Shape
  <2>4. GoesOn(w)
    <3>1. request' = request /\ transfer' = transfer /\ worker[w].op = "schedule"
      BY DEF CommitFails
    <3>2. JobInv(worker[w])'
      BY <1>2, <2>1, <2>3, <3>1 DEF JobInv
    <3>. QED BY <2>1, <2>3, <3>1, <3>2, IdleIsNoJob DEF GoesOn, ForRequest, JobInv
  <2>5. worker' \in [Workers -> Job \cup {Idle}]
    BY <2>2, <2>3 DEF IInv, Shape
  <2>6. \A v \in Workers : v # w => worker'[v] = worker[v]
    BY <2>2 DEF IInv, Shape
  <2>. QED BY <2>4, <2>5, <2>6, WorkerStep DEF CommitFails
<1>. QED BY <1>1, <1>2

LEMMA ReleaseKeeps ==
    ASSUME IInv, NEW w \in Workers, Release(w)
    PROVE  IInv'
PROOF
<1>1. worker[w] \in Job /\ JobInv(worker[w])
  BY Members DEF IInv, Shape, WorkerInv, Release, Idle
<1>2. /\ worker[w].op = "schedule" /\ worker[w].pc = "release"
      /\ request' = request /\ transfer' = transfer
  BY DEF Release
<1>3. worker[w].q \in Requests
  BY <1>1, <1>2, RequestAssumption DEF JobInv, Job, Requests
<1>4. /\ worker' \in [Workers -> Job \cup {Idle}]
      /\ \A v \in Workers : v # w => worker'[v] = worker[v]
      /\ GoesOn(w)
  <2>1. CASE OpenTransfers = {}
    <3>1. worker' = [worker EXCEPT ![w].pc = "unclaim"]
      BY <2>1 DEF Release, Goto
    <3>2. /\ worker'[w] \in Job
          /\ worker'[w].op = "schedule" /\ worker'[w].pc = "unclaim"
          /\ worker'[w].q = worker[w].q /\ worker'[w].x = worker[w].x
          /\ worker'[w].saw = worker[w].saw
      BY <1>1, <1>2, <3>1, GotoJob DEF IInv, Shape
    <3>3. JobInv(worker[w])'
      BY <1>1, <1>2, <1>3, <3>2, RequestAssumption DEF JobInv, Requests
    <3>4. GoesOn(w)
      BY <1>1, <1>2, <2>1, <3>2, <3>3, IdleIsNoJob DEF GoesOn, ForRequest, JobInv
    <3>. QED BY <3>1, <3>2, <3>4 DEF IInv, Shape
  <2>2. CASE OpenTransfers # {}
    <3>. DEFINE x == Max(OpenTransfers)
    <3>0. OpenTransfers \subseteq 0..MaxTransfers
      BY DEF OpenTransfers, Transfers
    <3>1. x \in Transfers /\ transfer[x].status = "open"
      BY <2>2, <3>0, MaxIn, RequestAssumption DEF OpenTransfers
    <3>2. worker' = [worker EXCEPT ![w].pc = "link", ![w].saw = "open",
                                   ![w].x = x]
      BY <2>2 DEF Release
    <3>. HIDE DEF x
    <3>3. x \in 0..MaxTransfers
      BY <3>1 DEF Transfers
    <3>4. worker'[w] = [[[worker[w] EXCEPT !.pc = "link"] EXCEPT !.saw = "open"] EXCEPT !.x = x]
      BY <3>2, Zenon DEF IInv, Shape
    <3>5. /\ worker'[w] \in Job
          /\ worker'[w].op = "schedule" /\ worker'[w].pc = "link"
          /\ worker'[w].q = worker[w].q /\ worker'[w].x = x
          /\ worker'[w].saw = "open"
      BY <1>1, <1>2, <3>3, <3>4 DEF Job
    <3>6. JobInv(worker[w])'
      BY <1>1, <1>2, <1>3, <3>1, <3>5, RequestAssumption DEF JobInv, Requests, IInv, AgeInv
    <3>7. GoesOn(w)
      BY <1>1, <1>2, <3>5, <3>6, IdleIsNoJob DEF GoesOn, ForRequest
    <3>8. worker' \in [Workers -> Job \cup {Idle}]
      BY <3>2, <3>5 DEF IInv, Shape
    <3>. QED BY <3>2, <3>7, <3>8 DEF IInv, Shape
  <2>. QED BY <2>1, <2>2
<1>. QED BY <1>2, <1>4, WorkerStep

\* A job that begins, and works for no request that is being scheduled.
LEMMA BeginKeeps ==
    ASSUME IInv, NEW w \in Workers, NEW j \in Job,
           worker' = [worker EXCEPT ![w] = j],
           UNCHANGED <<request, transfer>>,
           JobInv(j), j.op = "schedule" => j.q = 0,
           j.pc # "unclaim",
           j.saw = "lapsed" => Lapsed(j.q) /\ OpenTransfers = {}
    PROVE  IInv'
PROOF
<1>1. /\ worker' \in [Workers -> Job \cup {Idle}]
      /\ worker'[w] = j
      /\ \A v \in Workers : v # w => worker'[v] = worker[v]
  BY DEF IInv, Shape
<1>2. JobInv(worker[w])'
  BY <1>1 DEF JobInv
<1>3. GoesOn(w)
  BY <1>1, <1>2 DEF GoesOn, ForRequest, Requests
<1>. QED BY <1>1, <1>3, WorkerStep

LEMMA ScheduleUnaskedKeeps ==
    ASSUME IInv, NEW w \in Workers, ScheduleUnasked(w)
    PROVE  IInv'
PROOF
<1> DEFINE j == [op |-> "schedule", pc |-> "schedule", q |-> 0,
                 x |-> NoTransfer, saw |-> "none"]
<1>1. j \in Job
  BY RequestAssumption DEF Job, NoTransfer
<1>2. worker' = [worker EXCEPT ![w] = j] /\ UNCHANGED <<request, transfer>>
  BY DEF ScheduleUnasked
<1>3. JobInv(j)
  BY DEF JobInv
<1>. QED BY <1>1, <1>2, <1>3, BeginKeeps

LEMMA RescheduleTransferKeeps ==
    ASSUME IInv, NEW w \in Workers, NEW x \in Transfers,
           RescheduleTransfer(w, x)
    PROVE  IInv'
PROOF
<1> DEFINE j == [op |-> "sync", pc |-> "sync", q |-> 0, x |-> x,
                 saw |-> "open"]
<1>1. j \in Job
  BY RequestAssumption DEF Job, Transfers
<1>2. worker' = [worker EXCEPT ![w] = j] /\ UNCHANGED <<request, transfer>>
  BY DEF RescheduleTransfer, StartSync
<1>3. JobInv(j)
  BY DEF JobInv, Seen
<1>. QED BY <1>1, <1>2, <1>3, BeginKeeps

\* The transfer a reader takes for the request's exists; without one, no
\* transfer is open.
LEMMA CanonicalExists ==
    ASSUME Shape, NEW q \in Requests
    PROVE  /\ Canonical(q) # 0 =>
                 /\ Canonical(q) \in Transfers
                 /\ transfer[Canonical(q)].status # "none"
           /\ Canonical(q) = 0 => OpenTransfers = {}
PROOF
<1>1. CASE OpenTransfers # {}
  <2>1. OpenTransfers \subseteq 0..MaxTransfers
    BY DEF OpenTransfers, Transfers
  <2>2. Max(OpenTransfers) \in OpenTransfers
    BY <1>1, <2>1, MaxIn, RequestAssumption
  <2>. QED BY <1>1, <2>2 DEF Canonical, OpenTransfers, Transfers
<1>2. CASE OpenTransfers = {}
  <2>. DEFINE x == Max(Scheduled \cup {0})
  <2>1. Scheduled \subseteq 1..MaxTransfers
    BY DEF Scheduled, Transfers
  <2>2. x \in Scheduled \cup {0}
    BY <2>1, MaxOrZero, RequestAssumption
  <2>3. Canonical(q) \in {x, 0}
    BY <1>2 DEF Canonical, NoTransfer
  <2>. HIDE DEF x
  <2>. QED BY <1>2, <2>2, <2>3 DEF Scheduled
<1>. QED BY <1>1, <1>2

LEMMA ReconcileReadKeeps ==
    ASSUME IInv, NEW w \in Workers, NEW q \in Requests, ReconcileRead(w, q)
    PROVE  IInv'
PROOF
<1> DEFINE x == Canonical(q)
           s == IF x # NoTransfer THEN transfer[x].status
                ELSE IF Lapsed(q) THEN "lapsed" ELSE "none"
           j == [op |-> "reconcile", pc |-> "write", q |-> q, x |-> x,
                 saw |-> s]
<1>1. /\ x # 0 => x \in Transfers /\ transfer[x].status # "none"
      /\ x = 0 => OpenTransfers = {}
  BY CanonicalExists DEF IInv
<1>2. worker' = [worker EXCEPT ![w] = j] /\ UNCHANGED <<request, transfer>>
      /\ request[q].status # "none"
  BY DEF ReconcileRead
<1>. HIDE DEF x
<1>3. /\ x # 0 => s = transfer[x].status /\ s \in Seen
      /\ x = 0 => s = IF Lapsed(q) THEN "lapsed" ELSE "none"
  BY <1>1, Members DEF IInv, Seen, NoTransfer
<1>. HIDE DEF s
<1>4. s \in {"none", "open", "executed", "cancelled", "lapsed"}
  BY <1>3 DEF Seen
<1>5. x \in 0..MaxTransfers
  BY <1>1, RequestAssumption DEF Transfers
<1>6. j \in Job
  BY <1>4, <1>5 DEF Job, Requests
<1>7. JobInv(j)
  BY <1>1, <1>2, <1>3 DEF JobInv, Seen
<1>8. j.saw = "lapsed" => Lapsed(j.q) /\ OpenTransfers = {}
  BY <1>1, <1>3 DEF Seen
<1>. QED BY <1>2, <1>6, <1>7, <1>8, BeginKeeps

-----------------------------------------------------------------------------
(* A handler writes what it read                                           *)

\* What Adopt leaves.
LEMMA AdoptWrites ==
    ASSUME Shape, NEW q \in Requests, NEW x \in Transfers, NEW s \in Seen,
           Adopt(q, x, s)
    PROVE  /\ request' \in [Requests -> Request]
           /\ \A p \in Requests : p # q => request'[p] = request[p]
           /\ request'[q].status = Mirrored(s)
           /\ request'[q].link = x
           /\ request'[q].after = request[q].after
PROOF
<1>1. Mirrored(s) \in {"completed", "cancelled", "scheduled"}
  BY DEF Mirrored, Seen
<1>. DEFINE m == Mirrored(s)
<1>2. x \in 0..MaxTransfers
  BY DEF Transfers
<1>3. request[q] \in Request /\ request \in [Requests -> Request]
  BY DEF Shape, TypeOK
<1>. HIDE DEF m
<1>4. request' = [request EXCEPT ![q].status = m, ![q].link = x,
                                 ![q].token = Nobody, ![q].fresh = FALSE]
  BY DEF Adopt, m
<1>5. request'[q] = [[[[request[q] EXCEPT !.status = m] EXCEPT !.link = x]
                       EXCEPT !.token = Nobody] EXCEPT !.fresh = FALSE]
  BY <1>3, <1>4, Zenon
<1>6. /\ request'[q] \in Request
      /\ request'[q].status = m
      /\ request'[q].link = x
      /\ request'[q].after = request[q].after
  BY <1>1, <1>2, <1>3, <1>5 DEF Request, OpenStatuses, Closed, m
<1>7. \A p \in Requests : p # q => request'[p] = request[p]
  BY <1>3, <1>4, Zenon
<1>8. request' \in [Requests -> Request]
  BY <1>3, <1>4, <1>6, <1>7
<1>. QED BY <1>6, <1>7, <1>8 DEF m

\* A submitted request takes over a transfer that is its own.
LEMMA AdoptKeeps ==
    ASSUME IInv, NEW w \in Workers, NEW q \in Requests, NEW x \in Transfers,
           NEW s \in Seen, Adopt(q, x, s), Done(w), UNCHANGED transfer,
           request[q].status # "none",
           request[q].link = x \/ request[q].after < x,
           s = "executed" => transfer[x].status = "executed"
    PROVE  IInv'
PROOF
<1>1. Shape /\ Document(q)
  BY DEF IInv, DocumentInv
<1>2. /\ request' \in [Requests -> Request]
      /\ \A p \in Requests : p # q => request'[p] = request[p]
      /\ request'[q].status = Mirrored(s)
      /\ request'[q].link = x
      /\ request'[q].after = request[q].after
  BY <1>1, AdoptWrites
<1>3. /\ Mirrored(s) \in {"completed", "cancelled", "scheduled"}
      /\ Mirrored(s) = "completed" => s = "executed"
  BY DEF Mirrored, Seen
<1>4. x # 0 /\ transfer' = transfer /\ transfer \in [Transfers -> Transfer]
  BY <1>1 DEF Transfers, Shape, TypeOK
<1>5. Grows /\ NoneOpens
  BY <1>2, <1>3, <1>4 DEF Grows, NoneOpens
<1>6. Settled(q)' /\ Document(q)'
  BY <1>1, <1>2, <1>3, <1>4 DEF Settled, Free, Document, NoTransfer
<1>7. /\ worker' \in [Workers -> Job \cup {Idle}]
      /\ \A v \in Workers : worker'[v] = worker[v] \/ worker'[v] = Idle
  BY <1>1, DoneWorkers
<1>. QED BY <1>2, <1>4, <1>5, <1>6, <1>7, Step

LEMMA LinkKeeps ==
    ASSUME IInv, NEW w \in Workers, Link(w)
    PROVE  IInv'
PROOF
<1>1. worker[w] \in Job /\ JobInv(worker[w])
  BY Members DEF IInv, Shape, WorkerInv, Link, Idle
<1>2. /\ worker[w].op = "schedule" /\ worker[w].pc = "link"
      /\ transfer' = transfer
  BY DEF Link
<1>3. worker[w].q \in Requests /\ worker[w].q # 0
  BY <1>1, <1>2, RequestAssumption DEF JobInv, Job, Requests
<1>4. worker[w].x \in Transfers /\ request[worker[w].q].after < worker[w].x
  BY <1>1, <1>2 DEF JobInv
<1>5. CASE Claimed(w)
  <2>1. Adopt(worker[w].q, worker[w].x, "open") /\ Done(w)
    BY <1>5 DEF Link
  <2>2. request[worker[w].q].status # "none"
    BY <1>5 DEF Claimed
  <2>. QED BY <1>2, <1>3, <1>4, <2>1, <2>2, AdoptKeeps DEF Seen
<1>6. CASE ~Claimed(w)
  <2>1. worker' = [worker EXCEPT ![w].pc = "repair"] /\ request' = request
    BY <1>6 DEF Link, Goto
  <2>2. /\ worker'[w] \in Job
        /\ worker'[w].op = "schedule" /\ worker'[w].pc = "repair"
        /\ worker'[w].q = worker[w].q /\ worker'[w].x = worker[w].x
        /\ worker'[w].saw = worker[w].saw
    BY <1>1, <1>2, <2>1, GotoJob DEF IInv, Shape
  <2>3. JobInv(worker[w])'
    BY <1>1, <1>2, <1>3, <1>4, <2>1, <2>2 DEF JobInv
  <2>4. GoesOn(w)
    BY <1>1, <1>2, <2>2, <2>3, IdleIsNoJob DEF GoesOn, ForRequest, JobInv
  <2>. QED BY <1>2, <2>1, <2>2, <2>4, WorkerStep DEF IInv, Shape
<1>. QED BY <1>5, <1>6

LEMMA SyncKeeps ==
    ASSUME IInv, NEW w \in Workers, Sync(w)
    PROVE  IInv'
PROOF
<1> DEFINE x == worker[w].x
           M == {q \in Submitted : Matches(q, x)}
           q == Max(M \cup {0})
<1>1. worker[w] \in Job /\ JobInv(worker[w])
  BY Members DEF IInv, Shape, WorkerInv, Sync, Idle
<1>2. /\ x \in Transfers /\ worker[w].saw \in Seen
      /\ worker[w].saw = "executed" => transfer[x].status = "executed"
  BY <1>1 DEF Sync, JobInv, Seen
<1>3. Done(w) /\ transfer' = transfer
  BY DEF Sync
<1>4. CASE M # {} /\ IndexAllows(q, Mirrored(worker[w].saw))
  <2>1. M \subseteq 1..MaxRequests
    BY DEF Submitted, Requests
  <2>2. q \in M
    BY <1>4, <2>1, MaxOrZero, RequestAssumption
  <2>3. Adopt(q, x, worker[w].saw)
    BY <1>4 DEF Sync
  <2>. HIDE DEF q, x
  <2>4. /\ q \in Requests /\ request[q].status # "none"
        /\ request[q].link = x \/ request[q].after < x
    BY <2>2 DEF Submitted, Matches
  <2>. QED BY <1>2, <1>3, <2>3, <2>4, AdoptKeeps
<1>5. CASE ~(M # {} /\ IndexAllows(q, Mirrored(worker[w].saw)))
  <2>1. request' = request
    BY <1>5 DEF Sync
  <2>. QED BY <1>3, <2>1, DoneKeeps
<1>. QED BY <1>4, <1>5

-----------------------------------------------------------------------------
(* The transfer goes on                                                    *)

\* The handler that changed a transfer to s carries s.
LEMMA StartSyncGoesOn ==
    ASSUME Shape, NEW w \in Workers, NEW x \in Transfers, NEW s \in Seen,
           StartSync(w, x, s), transfer'[x].status = s
    PROVE  /\ worker' \in [Workers -> Job \cup {Idle}]
           /\ \A v \in Workers : v # w => worker'[v] = worker[v]
           /\ GoesOn(w)
PROOF
<1> DEFINE j == [op |-> "sync", pc |-> "sync", q |-> 0, x |-> x, saw |-> s]
<1>1. j \in Job
  BY RequestAssumption DEF Job, Transfers, Seen
<1>2. worker' = [worker EXCEPT ![w] = j]
  BY DEF StartSync
<1>3. worker'[w] = j
  BY <1>2 DEF Shape
<1>4. JobInv(worker[w])'
  BY <1>3 DEF JobInv, Seen
<1>5. GoesOn(w)
  BY <1>1, <1>3, <1>4 DEF GoesOn, ForRequest, Seen
<1>. QED BY <1>1, <1>2, <1>5 DEF Shape

\* A transfer that is over, of one that was open.
LEMMA TransferEnds ==
    ASSUME Shape, NEW x \in Transfers, NEW s \in {"cancelled", "executed"},
           transfer[x].status = "open",
           transfer' = [transfer EXCEPT ![x].status = s]
    PROVE  /\ transfer' \in [Transfers -> Transfer]
           /\ transfer'[x].status = s
           /\ \A y \in Transfers : y # x => transfer'[y] = transfer[y]
           /\ NoneOpens
PROOF
<1>1. transfer \in [Transfers -> Transfer] /\ transfer[x] \in Transfer
  BY DEF Shape, TypeOK
<1>2. transfer'[x] = [transfer[x] EXCEPT !.status = s]
  BY <1>1
<1>3. transfer'[x] \in Transfer /\ transfer'[x].status = s
  BY <1>1, <1>2 DEF Transfer
<1>4. \A y \in Transfers : y # x => transfer'[y] = transfer[y]
  BY <1>1
<1>5. transfer' \in [Transfers -> Transfer]
  BY <1>1, <1>3
<1>. QED BY <1>3, <1>4, <1>5 DEF NoneOpens

LEMMA CancelTransferKeeps ==
    ASSUME IInv, NEW w \in Workers, NEW x \in Transfers, CancelTransfer(w, x)
    PROVE  IInv'
PROOF
<1>1. /\ Shape /\ transfer[x].status = "open"
      /\ transfer' = [transfer EXCEPT ![x].status = "cancelled"]
      /\ StartSync(w, x, "cancelled") /\ request' = request
  BY DEF CancelTransfer, IInv
<1>2. /\ transfer' \in [Transfers -> Transfer]
      /\ transfer'[x].status = "cancelled"
      /\ \A y \in Transfers : y # x => transfer'[y] = transfer[y]
      /\ NoneOpens
  BY <1>1, TransferEnds
<1>3. Grows
  BY <1>1, <1>2 DEF Grows
<1>4. /\ worker' \in [Workers -> Job \cup {Idle}]
      /\ \A v \in Workers : v # w => worker'[v] = worker[v]
      /\ GoesOn(w)
  BY <1>1, <1>2, StartSyncGoesOn DEF Seen
<1>5. request' \in [Requests -> Request]
  BY <1>1 DEF Shape, TypeOK
<1>. QED BY <1>1, <1>2, <1>3, <1>4, <1>5, Step

LEMMA ExecuteTransferKeeps ==
    ASSUME IInv, NEW w \in Workers, NEW x \in Transfers, ExecuteTransfer(w, x)
    PROVE  IInv'
PROOF
<1>1. /\ Shape /\ transfer[x].status = "open"
      /\ transfer' = [transfer EXCEPT ![x].status = "executed"]
      /\ StartSync(w, x, "executed")
      /\ x # 0
  BY DEF ExecuteTransfer, IInv, Transfers
<1>2. /\ transfer' \in [Transfers -> Transfer]
      /\ transfer'[x].status = "executed"
      /\ \A y \in Transfers : y # x => transfer'[y] = transfer[y]
      /\ NoneOpens
  BY <1>1, TransferEnds
<1>3. ASSUME NEW q \in Requests, q \in LinkedTo(x)
      PROVE  /\ request[q].status # "none"
             /\ request'[q] \in Request
             /\ request'[q].status = "completed"
             /\ request'[q].link = x
             /\ request'[q].after = request[q].after
             /\ request[q].after < x
  <2>1. request'[q] = [request[q] EXCEPT !.status = "completed"]
    BY <1>3 DEF ExecuteTransfer
  <2>2. request[q] \in Request /\ request[q].link = x
    BY <1>1, <1>3 DEF Shape, TypeOK, LinkedTo
  <2>3. Document(q)
    BY DEF IInv, DocumentInv
  <2>4. /\ request'[q] \in Request
        /\ request'[q].status = "completed"
        /\ request'[q].link = request[q].link
        /\ request'[q].after = request[q].after
    BY <2>1, <2>2 DEF Request, Closed
  <2>. QED BY <1>1, <2>2, <2>3, <2>4 DEF Document, NoTransfer
<1>4. \A q \in Requests : q \notin LinkedTo(x) => request'[q] = request[q]
  BY DEF ExecuteTransfer
<1>5. request' \in [Requests -> Request]
  BY <1>1, <1>3, <1>4 DEF ExecuteTransfer, Shape, TypeOK
<1>6. Grows
  BY <1>1, <1>2, <1>3, <1>4 DEF Grows
<1>7. ASSUME NEW q \in Requests, q \in LinkedTo(x)
      PROVE  Settled(q)' /\ Document(q)'
  BY <1>1, <1>2, <1>3, <1>7 DEF Settled, Free, Document, NoTransfer
<1>8. /\ worker' \in [Workers -> Job \cup {Idle}]
      /\ \A v \in Workers : v # w => worker'[v] = worker[v]
      /\ GoesOn(w)
  BY <1>1, <1>2, StartSyncGoesOn DEF Seen
<1>. QED BY <1>2, <1>3, <1>4, <1>5, <1>6, <1>7, <1>8, Step

-----------------------------------------------------------------------------
(* Steps that submit, refuse, claim, give up or schedule                   *)

\* One document is written, and stays submitted with the same age.
Edits(q) ==
    /\ request' \in [Requests -> Request]
    /\ \A p \in Requests : p # q => request'[p] = request[p]
    /\ request'[q].after = request[q].after

\* What all of them share except the claims.
LEMMA EditStep ==
    ASSUME IInv, NEW q \in Requests, Edits(q), UNCHANGED transfer,
           request[q].status # "none", request'[q].status # "none",
           Document(q)',
           worker' \in [Workers -> Job \cup {Idle}],
           \A w \in Workers :
              \/ worker'[w] = worker[w]
              \/ worker'[w] = Idle
              \/ worker'[w] \in Job /\ JobInv(worker[w])'
    PROVE  /\ Shape' /\ WorkerInv' /\ AgeInv' /\ DocumentInv'
           /\ \A p \in Requests :
                 /\ Unscheduled(p) => Unscheduled(p)'
                 /\ p # q => Free(p)' = Free(p) /\ Lapsed(p)' = Lapsed(p)
PROOF
<1>0. transfer \in [Transfers -> Transfer]
  BY DEF IInv, Shape, TypeOK
<1>1. Grows /\ NoneOpens
  BY DEF Edits, Grows, NoneOpens
<1>2. Shape'
  BY <1>0 DEF Edits, Shape, TypeOK
<1>3. WorkerInv'
  BY <1>1, WorkersStay DEF IInv
<1>4. AgeInv'
  BY <1>1, AgeStays DEF IInv, Edits
<1>5. DocumentInv'
  BY <1>1, DocumentsStay DEF IInv, Edits
<1>6. \A p \in Requests :
         /\ Unscheduled(p) => Unscheduled(p)'
         /\ p # q => Free(p)' = Free(p) /\ Lapsed(p)' = Lapsed(p)
  BY DEF Unscheduled, Edits, Free, Lapsed
<1>. QED BY <1>2, <1>3, <1>4, <1>5, <1>6

LEMMA RefuseKeeps ==
    ASSUME IInv, NEW q \in Requests, NEW s \in {"cancelled", "declined"},
           Refuse(q, s)
    PROVE  IInv'
PROOF
<1>1. /\ request \in [Requests -> Request] /\ request[q] \in Request
      /\ worker \in [Workers -> Job \cup {Idle}]
      /\ Document(q)
  BY DEF IInv, Shape, TypeOK, DocumentInv
<1>2. /\ request[q].status = "pending" /\ request[q].link = NoTransfer
      /\ request' = [request EXCEPT ![q].status = s]
      /\ transfer' = transfer /\ worker' = worker
  BY DEF Refuse, Untouched
<1>3. request'[q] = [request[q] EXCEPT !.status = s]
  BY <1>1, <1>2
<1>4. /\ request'[q] \in Request /\ request'[q].status = s
      /\ request'[q].link = NoTransfer
      /\ request'[q].after = request[q].after
  BY <1>1, <1>2, <1>3 DEF Request, Closed
<1>5. Edits(q)
  BY <1>1, <1>2, <1>4 DEF Edits
<1>6. Document(q)'
  BY <1>4 DEF Document
<1>7. /\ Shape' /\ WorkerInv' /\ AgeInv' /\ DocumentInv'
      /\ \A p \in Requests :
            /\ Unscheduled(p) => Unscheduled(p)'
            /\ p # q => Free(p)' = Free(p) /\ Lapsed(p)' = Lapsed(p)
  BY <1>1, <1>2, <1>4, <1>5, <1>6, EditStep
<1>8. ASSUME NEW p \in Requests PROVE Claim(p)'
  <2>1. Claim(p)
    BY DEF IInv, ClaimInv
  <2>2. Unattended(p)' = Unattended(p)
    BY <1>2 DEF Unattended
  <2>3. CASE p = q
    BY <1>2, <1>4, <1>7, <2>1, <2>2, <2>3
       DEF Claim, Free, Lapsed, Held, SeenLapsed
  <2>4. CASE p # q
    BY <1>2, <1>5, <1>7, <2>1, <2>2, <2>4
       DEF Claim, Held, SeenLapsed, Edits
  <2>. QED BY <2>3, <2>4
<1>. QED BY <1>7, <1>8 DEF IInv, ClaimInv

LEMMA LapseKeeps ==
    ASSUME IInv, NEW q \in Requests, Lapse(q)
    PROVE  IInv'
PROOF
<1>1. /\ request \in [Requests -> Request] /\ request[q] \in Request
      /\ worker \in [Workers -> Job \cup {Idle}]
      /\ Document(q)
  BY DEF IInv, Shape, TypeOK, DocumentInv
<1>2. /\ request[q].status = "scheduling" /\ request[q].fresh
      /\ request' = [request EXCEPT ![q].fresh = FALSE]
      /\ transfer' = transfer /\ worker' = worker
  BY DEF Lapse
<1>3. request'[q] = [request[q] EXCEPT !.fresh = FALSE]
  BY <1>1, <1>2
<1>4. /\ request'[q] \in Request /\ request'[q].status = "scheduling"
      /\ request'[q].link = request[q].link
      /\ request'[q].after = request[q].after
      /\ request'[q].fresh = FALSE
  BY <1>1, <1>2, <1>3 DEF Request
<1>5. Edits(q)
  BY <1>1, <1>2, <1>4 DEF Edits
<1>6. Document(q)'
  BY <1>1, <1>2, <1>4 DEF Document
<1>7. /\ Shape' /\ WorkerInv' /\ AgeInv' /\ DocumentInv'
      /\ \A p \in Requests :
            /\ Unscheduled(p) => Unscheduled(p)'
            /\ p # q => Free(p)' = Free(p) /\ Lapsed(p)' = Lapsed(p)
  BY <1>1, <1>2, <1>4, <1>5, <1>6, EditStep
<1>8. Unattended(q)
  BY DEF Lapse, Unattended, ForRequest, Scheduling
<1>9. ASSUME NEW p \in Requests PROVE Claim(p)'
  <2>1. Claim(p)
    BY DEF IInv, ClaimInv
  <2>2. Unattended(p)' = Unattended(p)
    BY <1>2 DEF Unattended
  <2>3. CASE p = q
    <3>1. ASSUME NEW w \in Workers, worker[w] # Idle
          PROVE  /\ ~ForRequest(worker[w], q)
                 /\ ~(worker[w].saw = "lapsed" /\ worker[w].q = q)
      BY <1>2, <1>8, <2>1, <2>3, <3>1 DEF Unattended, Claim, SeenLapsed
    <3>. QED BY <1>2, <1>4, <1>8, <2>2, <2>3, <3>1
             DEF Claim, Free, Held, SeenLapsed
  <2>4. CASE p # q
    BY <1>2, <1>5, <1>7, <2>1, <2>2, <2>4
       DEF Claim, Held, SeenLapsed, Edits
  <2>. QED BY <2>3, <2>4
<1>. QED BY <1>7, <1>9 DEF IInv, ClaimInv

\* What another worker's job becomes when a request is claimed anew.
LEMMA ClaimWorkers ==
    ASSUME IInv, NEW w \in Workers, NEW q \in Requests, ClaimRequest(w, q)
    PROVE  /\ worker'[w] = [op |-> "schedule", pc |-> "schedule", q |-> q,
                            x |-> NoTransfer, saw |-> "none"]
           /\ \A v \in Workers : v # w =>
                 \/ /\ worker'[v] = worker[v]
                    /\ worker[v] # Idle =>
                          ~(worker[v].q = q /\ worker[v].saw = "lapsed")
                 \/ /\ worker[v] # Idle /\ worker'[v] \in Job
                    /\ worker[v].saw = "lapsed"
                    /\ worker'[v].op = worker[v].op
                    /\ worker'[v].pc = worker[v].pc
                    /\ worker'[v].q = worker[v].q
                    /\ worker'[v].x = worker[v].x
                    /\ worker'[v].saw = "none"
           /\ worker' \in [Workers -> Job \cup {Idle}]
PROOF
<1> DEFINE j == [op |-> "schedule", pc |-> "schedule", q |-> q,
                 x |-> NoTransfer, saw |-> "none"]
<1>1. j \in Job
  BY RequestAssumption DEF Job, NoTransfer, Requests
<1>2. worker'[w] = j
  BY DEF ClaimRequest
<1>3. ASSUME NEW v \in Workers, v # w
      PROVE  \/ /\ worker'[v] = worker[v]
                /\ worker[v] # Idle =>
                      ~(worker[v].q = q /\ worker[v].saw = "lapsed")
             \/ /\ worker[v] # Idle /\ worker'[v] \in Job
                /\ worker[v].saw = "lapsed"
                /\ worker'[v].op = worker[v].op
                /\ worker'[v].pc = worker[v].pc
                /\ worker'[v].q = worker[v].q
                /\ worker'[v].x = worker[v].x
                /\ worker'[v].saw = "none"
  <2>1. CASE worker[v] # Idle /\ worker[v].q = q /\ worker[v].saw = "lapsed"
    <3>1. worker'[v] = [worker[v] EXCEPT !.saw = "none"]
      BY <1>3, <2>1 DEF ClaimRequest
    <3>2. worker[v] \in Job
      BY <2>1, Members DEF IInv
    <3>3. /\ [worker[v] EXCEPT !.saw = "none"] \in Job
          /\ [worker[v] EXCEPT !.saw = "none"].op = worker[v].op
          /\ [worker[v] EXCEPT !.saw = "none"].pc = worker[v].pc
          /\ [worker[v] EXCEPT !.saw = "none"].q = worker[v].q
          /\ [worker[v] EXCEPT !.saw = "none"].x = worker[v].x
          /\ [worker[v] EXCEPT !.saw = "none"].saw = "none"
      BY <3>2 DEF Job
    <3>. QED BY <2>1, <3>1, <3>3
  <2>2. CASE ~(worker[v] # Idle /\ worker[v].q = q /\ worker[v].saw = "lapsed")
    <3>1. worker'[v] = worker[v]
      BY <1>3, <2>2 DEF ClaimRequest
    <3>. QED BY <2>2, <3>1
  <2>. QED BY <2>1, <2>2
<1>4. ASSUME NEW v \in Workers PROVE worker'[v] \in Job \cup {Idle}
  BY <1>1, <1>2, <1>3 DEF IInv, Shape
<1>5. worker' \in [Workers -> Job \cup {Idle}]
  BY <1>4 DEF ClaimRequest
<1>. QED BY <1>2, <1>3, <1>5

LEMMA ClaimRequestKeeps ==
    ASSUME IInv, NEW w \in Workers, NEW q \in Requests, ClaimRequest(w, q)
    PROVE  IInv'
PROOF
<1>1. /\ request \in [Requests -> Request] /\ request[q] \in Request
      /\ Claim(q)
  BY DEF IInv, Shape, TypeOK, ClaimInv
<1>2. /\ request[q].status = "pending" /\ request[q].link = NoTransfer
      /\ request' = [request EXCEPT ![q].status = "scheduling",
                                    ![q].token = w, ![q].fresh = TRUE]
      /\ transfer' = transfer
  BY DEF ClaimRequest, Untouched
<1>3. request'[q] = [[[request[q] EXCEPT !.status = "scheduling"]
                        EXCEPT !.token = w] EXCEPT !.fresh = TRUE]
  BY <1>1, <1>2, Zenon
<1>4. /\ request'[q] \in Request /\ request'[q].status = "scheduling"
      /\ request'[q].link = NoTransfer
      /\ request'[q].after = request[q].after
      /\ request'[q].token = w /\ request'[q].fresh = TRUE
  BY <1>1, <1>2, <1>3 DEF Request, OpenStatuses
<1>5. \A p \in Requests : p # q => request'[p] = request[p]
  BY <1>1, <1>2, Zenon
<1>6. Edits(q)
  BY <1>1, <1>2, <1>4, <1>5 DEF Edits
<1>7. Document(q)'
  BY <1>4 DEF Document
<1> DEFINE j == [op |-> "schedule", pc |-> "schedule", q |-> q,
                 x |-> NoTransfer, saw |-> "none"]
<1>8. /\ worker'[w] = j
      /\ \A v \in Workers : v # w =>
            \/ /\ worker'[v] = worker[v]
               /\ worker[v] # Idle =>
                     ~(worker[v].q = q /\ worker[v].saw = "lapsed")
            \/ /\ worker[v] # Idle /\ worker'[v] \in Job
               /\ worker[v].saw = "lapsed"
               /\ worker'[v].op = worker[v].op
               /\ worker'[v].pc = worker[v].pc
               /\ worker'[v].q = worker[v].q
               /\ worker'[v].x = worker[v].x
               /\ worker'[v].saw = "none"
      /\ worker' \in [Workers -> Job \cup {Idle}]
  BY ClaimWorkers
<1>9. ASSUME NEW v \in Workers
      PROVE  \/ worker'[v] = worker[v]
             \/ worker'[v] \in Job /\ JobInv(worker[v])'
  <2>1. CASE v = w
    <3>1. j \in Job
      BY RequestAssumption DEF Job, NoTransfer, Requests
    <3>2. JobInv(worker[v])'
      BY <1>4, <1>8, <2>1 DEF JobInv, Requests
    <3>. QED BY <1>8, <2>1, <3>1, <3>2
  <2>2. CASE v # w /\ worker'[v] # worker[v]
    <3>1. worker[v] \in Job /\ JobInv(worker[v]) /\ worker[v].saw = "lapsed"
      BY <1>8, <2>2, Members DEF IInv, WorkerInv
    <3>2. /\ worker'[v] \in Job
          /\ worker[v].op = "reconcile" /\ worker[v].x = 0
          /\ worker[v].q \in Requests /\ request[worker[v].q].status # "none"
      BY <1>8, <2>2, <3>1 DEF JobInv, Seen, Job
    <3>3. request'[worker[v].q].status # "none"
      BY <1>4, <1>5, <3>2
    <3>4. JobInv(worker[v])'
      BY <1>8, <2>2, <3>2, <3>3 DEF JobInv
    <3>. QED BY <3>2, <3>4
  <2>. QED BY <2>1, <2>2
<1>10. /\ Shape' /\ WorkerInv' /\ AgeInv' /\ DocumentInv'
       /\ \A p \in Requests :
             /\ Unscheduled(p) => Unscheduled(p)'
             /\ p # q => Free(p)' = Free(p) /\ Lapsed(p)' = Lapsed(p)
  BY <1>2, <1>4, <1>6, <1>7, <1>8, <1>9, EditStep
<1>11. Unattended(q)
  BY <1>1, <1>2 DEF Claim, Free
<1>12. ASSUME NEW p \in Requests PROVE Claim(p)'
  <2>1. Claim(p)
    BY DEF IInv, ClaimInv
  <2>2. CASE p = q
    <3>1. ASSUME NEW v \in Workers, worker'[v] # Idle
          PROVE  Held(q, v, worker[v])' /\ SeenLapsed(q, worker[v])'
      <4>1. CASE v = w
        BY <1>4, <1>8, <4>1 DEF Held, SeenLapsed
      <4>2. CASE v # w
        BY <1>8, <1>11, <3>1, <4>2
           DEF Held, SeenLapsed, ForRequest, Unattended
      <4>. QED BY <4>1, <4>2
    <3>. QED BY <1>4, <2>2, <3>1 DEF Claim, Free, Lapsed
  <2>3. CASE p # q
    <3>1. ASSUME NEW v \in Workers, worker'[v] # Idle
          PROVE  Held(p, v, worker[v])' /\ SeenLapsed(p, worker[v])'
      <4>1. CASE v = w
        BY <1>8, <2>3, <4>1 DEF Held, SeenLapsed, ForRequest
      <4>2. CASE v # w
        BY <1>5, <1>8, <1>10, <2>1, <2>3, <3>1, <4>2
           DEF Claim, Held, SeenLapsed, ForRequest
      <4>. QED BY <4>1, <4>2
    <3>2. Unattended(p) => Unattended(p)'
      BY <1>8, <2>3 DEF Unattended, ForRequest
    <3>. QED BY <1>10, <2>1, <2>3, <3>1, <3>2 DEF Claim
  <2>. QED BY <2>2, <2>3
<1>. QED BY <1>10, <1>12 DEF IInv, ClaimInv

\* A claim is given up: the request is free again, its handler ends, and
\* nobody else works for it.
LEMMA GiveUpKeeps ==
    ASSUME IInv, NEW w \in Workers, NEW q \in Requests,
           Done(w), UNCHANGED transfer, Edits(q),
           request[q].status = "scheduling",
           request'[q].status = "pending",
           request'[q].link = request[q].link,
           Unscheduled(q),
           \A v \in Workers :
              v # w /\ worker[v] # Idle => ~ForRequest(worker[v], q)
    PROVE  IInv'
PROOF
<1>1. /\ worker' \in [Workers -> Job \cup {Idle}]
      /\ worker'[w] = Idle
      /\ \A v \in Workers : worker'[v] = worker[v] \/ worker'[v] = Idle
      /\ \A v \in Workers : worker'[v] # Idle => worker'[v] = worker[v] /\ v # w
  BY DoneWorkers DEF IInv
<1>2. Document(q)'
  BY DEF IInv, DocumentInv, Document, NoTransfer
<1>3. /\ Shape' /\ WorkerInv' /\ AgeInv' /\ DocumentInv'
      /\ \A p \in Requests :
            /\ Unscheduled(p) => Unscheduled(p)'
            /\ p # q => Free(p)' = Free(p) /\ Lapsed(p)' = Lapsed(p)
  BY <1>1, <1>2, EditStep
<1>4. ASSUME NEW p \in Requests PROVE Claim(p)'
  <2>1. Claim(p)
    BY DEF IInv, ClaimInv
  <2>2. CASE p = q
    <3>1. Unattended(q)'
      BY <1>1 DEF Unattended
    <3>. QED BY <1>3, <2>2, <3>1 DEF Claim, Lapsed, Held, SeenLapsed
  <2>3. CASE p # q
    <3>1. Unattended(p) => Unattended(p)'
      BY <1>1 DEF Unattended
    <3>2. ASSUME NEW v \in Workers, worker'[v] # Idle
          PROVE  Held(p, v, worker[v])' /\ SeenLapsed(p, worker[v])'
      BY <1>1, <1>3, <2>1, <2>3, <3>2
         DEF Claim, Held, SeenLapsed, Edits
    <3>. QED BY <1>3, <2>1, <2>3, <3>1, <3>2 DEF Claim
  <2>. QED BY <2>2, <2>3
<1>. QED BY <1>3, <1>4 DEF IInv, ClaimInv

LEMMA UnclaimKeeps ==
    ASSUME IInv, NEW w \in Workers, Unclaim(w)
    PROVE  IInv'
PROOF
<1> DEFINE q == worker[w].q
<1>1. worker[w] # Idle /\ worker[w] \in Job /\ JobInv(worker[w])
  BY Members DEF IInv, Shape, WorkerInv, Unclaim, Idle
<1>2. /\ worker[w].op = "schedule" /\ worker[w].pc = "unclaim"
      /\ transfer' = transfer /\ Done(w)
  BY DEF Unclaim
<1>3. CASE request[q].status = "scheduling" /\ request[q].token = w
  <2>1. q \in Requests
    BY <1>1, <1>2, RequestAssumption DEF JobInv, Job, Requests
  <2>2. /\ request \in [Requests -> Request] /\ request[q] \in Request
        /\ Claim(q)
    BY <2>1 DEF IInv, Shape, TypeOK, ClaimInv
  <2>3. request' = [request EXCEPT ![q].status = "pending",
                                   ![q].token = Nobody, ![q].fresh = FALSE]
    BY <1>3 DEF Unclaim
  <2>. HIDE DEF q
  <2>4. request'[q] = [[[request[q] EXCEPT !.status = "pending"]
                          EXCEPT !.token = Nobody] EXCEPT !.fresh = FALSE]
    BY <2>1, <2>2, <2>3, Zenon
  <2>5. /\ request'[q] \in Request /\ request'[q].status = "pending"
        /\ request'[q].link = request[q].link
        /\ request'[q].after = request[q].after
    BY <2>2, <2>4 DEF Request, OpenStatuses
  <2>6. \A p \in Requests : p # q => request'[p] = request[p]
    BY <2>2, <2>3, Zenon
  <2>7. Edits(q)
    BY <2>1, <2>2, <2>3, <2>5, <2>6 DEF Edits
  <2>8. /\ Unscheduled(q)
        /\ \A v \in Workers :
              v # w /\ worker[v] # Idle => ~ForRequest(worker[v], q)
    BY <1>1, <1>2, <1>3, <2>2 DEF Claim, Held, ForRequest, q
  <2>. QED BY <1>2, <1>3, <2>1, <2>5, <2>7, <2>8, GiveUpKeeps
<1>4. CASE ~(request[q].status = "scheduling" /\ request[q].token = w)
  <2>1. request' = request
    BY <1>4 DEF Unclaim
  <2>. QED BY <1>2, <2>1, DoneKeeps
<1>. QED BY <1>3, <1>4

LEMMA ReconcileWriteKeeps ==
    ASSUME IInv, NEW w \in Workers, ReconcileWrite(w)
    PROVE  IInv'
PROOF
<1> DEFINE q == worker[w].q
           x == worker[w].x
           s == worker[w].saw
<1>1. worker[w] # Idle /\ worker[w] \in Job /\ JobInv(worker[w])
  BY Members DEF IInv, Shape, WorkerInv, ReconcileWrite, Idle
<1>2. /\ worker[w].op = "reconcile"
      /\ transfer' = transfer /\ Done(w)
  BY DEF ReconcileWrite
<1>3. /\ q \in Requests /\ request[q].status # "none"
      /\ IF x = 0 THEN s \in {"none", "lapsed"} ELSE s \in Seen
      /\ s = "executed" => transfer[x].status = "executed"
  BY <1>1, <1>2 DEF JobInv
<1>4. CASE /\ s = "lapsed" /\ Lapsed(q)
           /\ request' = [request EXCEPT ![q].status = "pending",
                                         ![q].token = Nobody]
  <2>1. /\ request \in [Requests -> Request] /\ request[q] \in Request
        /\ Claim(q)
    BY <1>3 DEF IInv, Shape, TypeOK, ClaimInv
  <2>2. /\ Unscheduled(q)
        /\ \A v \in Workers :
              v # w /\ worker[v] # Idle => ~ForRequest(worker[v], q)
    BY <1>1, <1>2, <1>4, <2>1 DEF Claim, SeenLapsed, Unattended
  <2>. HIDE DEF q
  <2>3. request'[q] = [[request[q] EXCEPT !.status = "pending"]
                         EXCEPT !.token = Nobody]
    BY <1>3, <1>4, <2>1, Zenon
  <2>4. /\ request'[q] \in Request /\ request'[q].status = "pending"
        /\ request'[q].link = request[q].link
        /\ request'[q].after = request[q].after
    BY <2>1, <2>3 DEF Request, OpenStatuses
  <2>5. \A p \in Requests : p # q => request'[p] = request[p]
    BY <1>4, <2>1, Zenon
  <2>6. Edits(q)
    BY <1>3, <1>4, <2>1, <2>4, <2>5 DEF Edits
  <2>. QED BY <1>2, <1>3, <1>4, <2>2, <2>4, <2>6, GiveUpKeeps DEF Lapsed
<1>5. CASE x # NoTransfer /\ Adoptable(q, x, s) /\ Adopt(q, x, s)
  <2>. HIDE DEF q, x, s
  <2>1. x \in Transfers /\ s \in Seen
    BY <1>1, <1>3, <1>5, RequestAssumption DEF x, NoTransfer, Job, Transfers
  <2>2. request[q].link = x \/ request[q].after < x
    BY <1>5 DEF Adoptable
  <2>. QED BY <1>2, <1>3, <1>5, <2>1, <2>2, AdoptKeeps
<1>6. CASE UNCHANGED request
  BY <1>2, <1>6, DoneKeeps
<1>. QED BY <1>4, <1>5, <1>6 DEF ReconcileWrite

LEMMA CreateKeeps ==
    ASSUME IInv, Create
    PROVE  IInv'
PROOF
<1> DEFINE q == Next1(Submitted)
           a == Max(Scheduled \cup {0})
           r == [status |-> "pending", link |-> NoTransfer,
                 token |-> Nobody, fresh |-> FALSE, after |-> a]
<1>1. Submitted \subseteq 1..MaxRequests /\ Scheduled \subseteq 1..MaxTransfers
  BY DEF Submitted, Scheduled, Requests, Transfers
<1>2. /\ q \in 1..(MaxRequests + 1)
      /\ \A p \in Submitted : p < q
  BY <1>1, Next1Above, RequestAssumption
<1>3. a \in Scheduled \cup {0}
  BY <1>1, MaxOrZero, RequestAssumption
<1>4. /\ q <= MaxRequests /\ OpenTransfers = {}
      /\ request' = [request EXCEPT ![q] = r]
      /\ transfer' = transfer /\ worker' = worker
  BY DEF Create
<1>. HIDE DEF q, a
<1>5. q \in Requests /\ request[q].status = "none"
  <2>1. q \in Requests
    BY <1>2, <1>4, RequestAssumption DEF Requests
  <2>2. q \notin Submitted
    BY <1>2
  <2>. QED BY <2>1, <2>2 DEF Submitted
<1>6. a \in 0..MaxTransfers /\ (a # 0 => transfer[a].status # "none")
  BY <1>1, <1>3, RequestAssumption DEF Scheduled
<1>7. r \in Request
  BY <1>6, RequestAssumption DEF Request, OpenStatuses, NoTransfer
<1>8. /\ request' \in [Requests -> Request]
      /\ request'[q] = r
      /\ \A p \in Requests : p # q => request'[p] = request[p]
  BY <1>4, <1>5, <1>7 DEF IInv, Shape, TypeOK
<1>9. \A x \in Transfers : transfer[x].status # "open"
  BY <1>4 DEF OpenTransfers
<1>10. Shape'
  BY <1>4, <1>8 DEF IInv, Shape, TypeOK
<1>11. Grows
  BY <1>4, <1>5, <1>8 DEF Grows
<1>12. WorkerInv'
  BY <1>4, <1>11, WorkersStay DEF IInv
<1>13. AgeInv'
  BY <1>4, <1>6, <1>8, <1>9 DEF IInv, AgeInv
<1>14. DocumentInv'
  <2>1. \A p \in Requests : p = q => Document(p)'
    BY <1>8 DEF Document
  <2>. QED BY <1>8, <1>11, <2>1, DocumentsStay DEF IInv
<1>15. ASSUME NEW p \in Requests PROVE Claim(p)'
  <2>1. Claim(p)
    BY DEF IInv, ClaimInv
  <2>2. /\ Unattended(p)' = Unattended(p)
        /\ Unscheduled(p) /\ Unscheduled(p)'
    BY <1>4, <1>9 DEF Unattended, Unscheduled
  <2>3. CASE p = q
    <3>1. ASSUME NEW w \in Workers, worker[w] # Idle
          PROVE  ~ForRequest(worker[w], q)
      BY <1>5, <3>1 DEF IInv, WorkerInv, JobInv, ForRequest, Requests
    <3>2. Unattended(q)
      BY <3>1 DEF Unattended
    <3>. QED BY <1>4, <1>8, <2>2, <2>3, <3>2
             DEF Claim, Lapsed, Held, SeenLapsed
  <2>4. CASE p # q
    BY <1>4, <1>8, <2>1, <2>2, <2>4
       DEF Claim, Free, Lapsed, Held, SeenLapsed
  <2>. QED BY <2>3, <2>4
<1>. QED BY <1>10, <1>12, <1>13, <1>14, <1>15 DEF IInv, ClaimInv

LEMMA CommitTransferKeeps ==
    ASSUME IInv, NEW w \in Workers, CommitTransfer(w)
    PROVE  IInv'
PROOF
<1> DEFINE x == Next1(Scheduled)
           q == worker[w].q
           r == [status |-> "open", of |-> q]
<1>1. worker[w] # Idle /\ worker[w] \in Job /\ JobInv(worker[w])
  BY Members DEF IInv, Shape, WorkerInv, CommitTransfer, Idle
<1>2. Scheduled \subseteq 1..MaxTransfers
  BY DEF Scheduled, Transfers
<1>3. /\ x \in 1..(MaxTransfers + 1)
      /\ \A y \in Scheduled : y < x
  BY <1>2, Next1Above, RequestAssumption
<1>4. /\ worker[w].op = "schedule" /\ worker[w].pc = "schedule"
      /\ x <= MaxTransfers /\ OpenTransfers = {}
      /\ transfer' = [transfer EXCEPT ![x] = r]
      /\ request' = request
  BY DEF CommitTransfer
<1>5. /\ q = 0 => worker' = [worker EXCEPT ![w] = Idle]
      /\ q # 0 => worker' = [worker EXCEPT ![w].pc = "link", ![w].x = x,
                                           ![w].saw = "open"]
  BY DEF CommitTransfer, Done
<1>. HIDE DEF x
<1>6. x \in Transfers /\ transfer[x].status = "none"
  <2>1. x \in Transfers
    BY <1>3, <1>4, RequestAssumption DEF Transfers
  <2>2. x \notin Scheduled
    BY <1>3
  <2>. QED BY <2>1, <2>2 DEF Scheduled
<1>7. q \in 0..MaxRequests /\ (q # 0 => q \in Requests)
  BY <1>1, RequestAssumption DEF Job, Requests
<1>8. \A y \in Transfers : transfer[y].status # "open"
  BY <1>4 DEF OpenTransfers
<1>9. r \in Transfer
  BY <1>7 DEF Transfer
<1>10. /\ transfer' \in [Transfers -> Transfer]
       /\ transfer'[x] = r
       /\ \A y \in Transfers : y # x => transfer'[y] = transfer[y]
  BY <1>4, <1>6, <1>9 DEF IInv, Shape, TypeOK
<1>11. Grows
  BY <1>4, <1>6, <1>10 DEF Grows
<1>12. \A p \in Requests : request[p].status # "none" => request[p].after < x
  <2>1. ASSUME NEW p \in Requests, request[p].status # "none"
        PROVE  request[p].after < x
    <3>1. request[p].after \in 0..MaxTransfers
      BY Members DEF IInv
    <3>2. request[p].after # 0 => request[p].after \in Scheduled
      BY <2>1, <3>1, RequestAssumption
         DEF IInv, AgeInv, Scheduled, Transfers
    <3>. QED BY <1>3, <3>1, <3>2
  <2>. QED BY <2>1
<1>13. /\ worker' \in [Workers -> Job \cup {Idle}]
       /\ \A v \in Workers : v # w => worker'[v] = worker[v]
       /\ q = 0 => worker'[w] = Idle
       /\ q # 0 => /\ worker'[w] \in Job
                   /\ worker'[w].op = "schedule" /\ worker'[w].pc = "link"
                   /\ worker'[w].q = q /\ worker'[w].x = x
                   /\ worker'[w].saw = "open"
  <2>1. CASE q = 0
    BY <1>5, <2>1 DEF IInv, Shape
  <2>2. CASE q # 0
    <3>. HIDE DEF q
    <3>0. x \in 0..MaxTransfers
      BY <1>6 DEF Transfers
    <3>1. worker'[w] = [[[worker[w] EXCEPT !.pc = "link"] EXCEPT !.x = x]
                          EXCEPT !.saw = "open"]
      BY <1>5, <2>2, Zenon DEF IInv, Shape
    <3>2. /\ worker'[w] \in Job
          /\ worker'[w].op = "schedule" /\ worker'[w].pc = "link"
          /\ worker'[w].q = q /\ worker'[w].x = x
          /\ worker'[w].saw = "open"
      BY <1>1, <1>4, <3>0, <3>1 DEF Job, q
    <3>3. \A v \in Workers : v # w => worker'[v] = worker[v]
      BY <1>5, <2>2, Zenon DEF IInv, Shape
    <3>4. worker' \in [Workers -> Job \cup {Idle}]
      BY <1>5, <2>2, <3>2, <3>3 DEF IInv, Shape
    <3>. QED BY <2>2, <3>2, <3>3, <3>4
  <2>. QED BY <2>1, <2>2
<1>14. Shape'
  BY <1>4, <1>10, <1>13 DEF IInv, Shape, TypeOK
<1>15. WorkerInv'
  <2>1. ASSUME q # 0 PROVE JobInv(worker[w])'
    <3>1. request[q].status # "none" /\ request[q].after < x
      BY <1>1, <1>4, <1>7, <1>12, <2>1 DEF JobInv
    <3>. QED BY <1>4, <1>6, <1>13, <2>1, <3>1 DEF JobInv
  <2>. QED BY <1>11, <1>13, <2>1, WorkersStay DEF IInv
<1>16. AgeInv'
  BY <1>4, <1>6, <1>8, <1>10, <1>12 DEF IInv, AgeInv
<1>17. DocumentInv'
  BY <1>4, <1>11, DocumentsStay DEF IInv
<1>18. ASSUME NEW p \in Requests PROVE Claim(p)'
  <2>1. Claim(p)
    BY DEF IInv, ClaimInv
  <2>2. Free(p)' = Free(p) /\ Lapsed(p)' = Lapsed(p)
    BY <1>4 DEF Free, Lapsed
  <2>3. Unattended(p) => Unattended(p)' /\ p # q
    BY <1>1, <1>4, <1>7, <1>13 DEF Unattended, ForRequest, Requests
  <2>4. p # q => Unscheduled(p)'
    BY <1>8, <1>10 DEF Unscheduled
  <2>5. ASSUME NEW v \in Workers, worker'[v] # Idle
        PROVE  Held(p, v, worker[v])' /\ SeenLapsed(p, worker[v])'
    <3>1. CASE v = w
      <4>1. q # 0
        BY <1>13, <2>5, <3>1
      <4>. QED BY <1>1, <1>4, <1>13, <2>1, <3>1, <4>1
               DEF Claim, Held, SeenLapsed, ForRequest
    <3>2. CASE v # w
      <4>1. worker'[v] = worker[v] /\ worker[v] # Idle
        BY <1>13, <2>5, <3>2
      <4>2. Held(p, v, worker[v])'
        <5>1. SUFFICES ASSUME ForRequest(worker[v], p),
                              request[p].status = "scheduling"
                       PROVE  /\ request[p].token = v /\ request[p].fresh
                              /\ worker[v].pc = "unclaim" => Unscheduled(p)'
          BY <1>4, <4>1 DEF Held, ForRequest
        <5>2. request[p].token = v /\ request[p].fresh
          BY <2>1, <4>1, <5>1 DEF Claim, Held
        <5>3. p # q
          BY <1>1, <1>4, <2>1, <3>2, <5>1, <5>2 DEF Claim, Held, ForRequest
        <5>. QED BY <2>4, <5>2, <5>3
      <4>3. SeenLapsed(p, worker[v])'
        BY <1>4, <2>1, <2>2, <2>3, <2>4, <4>1 DEF Claim, SeenLapsed
      <4>. QED BY <4>2, <4>3
    <3>. QED BY <3>1, <3>2
  <2>. QED BY <2>1, <2>2, <2>3, <2>4, <2>5 DEF Claim
<1>. QED BY <1>14, <1>15, <1>16, <1>17, <1>18 DEF IInv, ClaimInv

-----------------------------------------------------------------------------
(* The theorems                                                            *)

LEMMA InitIInv == Init => IInv
PROOF
<1> SUFFICES ASSUME Init PROVE IInv
  OBVIOUS
<1>1. Shape
  BY RequestAssumption
     DEF Init, Shape, TypeOK, Request, Transfer, NoTransfer
<1>2. WorkerInv
  BY DEF Init, WorkerInv
<1>3. AgeInv /\ DocumentInv
  BY DEF Init, AgeInv, DocumentInv, Document
<1>4. ClaimInv
  BY DEF Init, ClaimInv, Claim, Free, Lapsed
<1>. QED BY <1>1, <1>2, <1>3, <1>4 DEF IInv

LEMMA NextIInv == IInv /\ [Next]_vars => IInv'
PROOF
<1> SUFFICES ASSUME IInv, [Next]_vars PROVE IInv'
  OBVIOUS
<1>1. CASE Create
  BY <1>1, CreateKeeps
<1>2. ASSUME NEW q \in Requests,
             Refuse(q, "cancelled") \/ Refuse(q, "declined") \/ Lapse(q)
      PROVE  IInv'
  BY <1>2, RefuseKeeps, LapseKeeps
<1>3. ASSUME NEW w \in Workers, NEW q \in Requests,
             ClaimRequest(w, q) \/ ReconcileRead(w, q)
      PROVE  IInv'
  BY <1>3, ClaimRequestKeeps, ReconcileReadKeeps
<1>4. ASSUME NEW w \in Workers, NEW x \in Transfers,
             \/ CancelTransfer(w, x)
             \/ RescheduleTransfer(w, x)
             \/ ExecuteTransfer(w, x)
      PROVE  IInv'
  BY <1>4, CancelTransferKeeps, RescheduleTransferKeeps, ExecuteTransferKeeps
<1>5. ASSUME NEW w \in Workers,
             ScheduleUnasked(w) \/ Work(w) \/ Crash(w)
      PROVE  IInv'
  <2>1. CASE LinkFails(w) \/ SyncFails(w) \/ Crash(w)
    BY <2>1, DoneKeeps DEF LinkFails, SyncFails, Crash
  <2>. QED BY <1>5, <2>1, ScheduleUnaskedKeeps, CommitTransferKeeps,
              CommitFailsKeeps, LinkKeeps, ReleaseKeeps, UnclaimKeeps,
              SyncKeeps, ReconcileWriteKeeps
           DEF Work
<1>6. CASE UNCHANGED vars
  <2>1. UNCHANGED <<request, transfer>> /\ worker' = worker
    BY <1>6 DEF vars
  <2>. QED BY <2>1, WorkerStep DEF IInv, Shape
<1>. QED BY <1>1, <1>2, <1>3, <1>4, <1>5, <1>6 DEF Next

\* The inductive invariant holds in every reachable state.
LEMMA Invariance == Spec => []IInv
PROOF
<1>. QED BY InitIInv, NextIInv, PTL DEF Spec

\* Every request, transfer and handler in flight is well formed.
THEOREM TypeCorrect == Spec => []TypeOK
PROOF
<1>1. IInv => TypeOK
  BY DEF IInv, Shape
<1>. QED BY <1>1, Invariance, PTL

\* However late a copy of a transfer arrives, it never reaches a request that
\* was submitted after that transfer was scheduled.
THEOREM LinksAreOwn == Spec => []OwnTransfer
PROOF
<1>1. IInv => OwnTransfer
  BY DEF IInv, DocumentInv, Document, OwnTransfer, Submitted
<1>. QED BY <1>1, Invariance, PTL

\* A request that reads completed is linked to a transfer that was executed.
THEOREM CompletionIsReal == Spec => []CompletedMeansMoved
PROOF
<1>1. IInv => CompletedMeansMoved
  BY DEF IInv, DocumentInv, Document, CompletedMeansMoved, Submitted
<1>. QED BY <1>1, Invariance, PTL

\* No transfer is open for a request that was withdrawn or declined before it
\* was linked.
THEOREM RefusalsHold == Spec => []RefusedIsNotScheduled
PROOF
<1>1. IInv => RefusedIsNotScheduled
  BY DEF IInv, ClaimInv, Claim, Free, Unscheduled, RefusedIsNotScheduled,
         Submitted, OpenTransfers
<1>. QED BY <1>1, Invariance, PTL
=============================================================================
