----------------------- MODULE BillSettlement_proofs -----------------------
(***************************************************************************)
(* What is proved about BillSettlement, for any number of bills, payments, *)
(* receipts and days, and for handlers that overlap, fail and stop; then   *)
(* what holds in addition when requests come one at a time.                *)
(***************************************************************************)
EXTENDS BillSettlement, CountingLemmas, FiniteSetTheorems, TLAPS

-----------------------------------------------------------------------------
(* The inductive invariant                                                 *)

AmountOf == [e \in Payment |-> e.amount]

InCredit(w) == worker[w] \in Job /\ worker[w].pc = "credit"

\* Payment documents whose money is not on its way to the bill any more.
Settled(b) ==
    {e \in ledger : /\ e.bill = b
                    /\ ~\E w \in Workers : InCredit(w) /\ e = Entry(worker[w])}

Backing(b) == SumOf(Settled(b), AmountOf)

\* What a handler knows of its payment and of the bill it read.
JobInv(j) ==
    /\ j.op = "manual" => j.id \in Receipts /\ j.pc \in {"record", "credit"}
    /\ j.op # "manual" => j.id \in Payments
    /\ j.pc \in {"find", "record", "credit"} =>
          1 <= j.amount /\ j.amount <= Balance(j.seen)
    /\ j.seen.paid <= Backing(j.bill)
    /\ j.op = "manual" /\ j.pc = "record" => ~Recorded(j.id)
    /\ j.pc = "credit" => Entry(j) \in ledger

\* A rewrite does not touch what was paid.
RewriteInv(j) ==
    /\ j.todo \subseteq DOMAIN j.new
    /\ j.todo \subseteq DOMAIN j.read
    /\ \A b \in j.todo : j.new[b].paid = j.read[b].paid

\* Two handlers that must not work on one payment at a time.
Rivals(v, w) ==
    /\ worker[v] \in Job /\ worker[w] \in Job
    /\ worker[v].id = worker[w].id
    /\ worker[v].op = "manual" \/ (InCredit(v) /\ InCredit(w))

WorkerInv ==
    /\ \A w \in Workers : worker[w] \in Job => JobInv(worker[w])
    /\ \A w \in Workers : worker[w] \in Rewrite => RewriteInv(worker[w])
    /\ \A v, w \in Workers : Rivals(v, w) => v = w

LedgerInv == IsFiniteSet(ledger) /\ OneEntryPerPayment

Backed == \A b \in Bills : bills[b].paid <= Backing(b)

IInv == TypeOK /\ LedgerInv /\ WorkerInv /\ Backed

-----------------------------------------------------------------------------
(* Balances, fees and statuses                                             *)

LEMMA MaxOfTwo ==
    ASSUME NEW a \in Int
    PROVE  Max({a, 0}) = IF a >= 0 THEN a ELSE 0
PROOF
<1>1. CASE a >= 0
  <2>1. \E x \in {a, 0} : \A y \in {a, 0} : x >= y
    BY <1>1
  <2>. DEFINE m == CHOOSE x \in {a, 0} : \A y \in {a, 0} : x >= y
  <2>2. m \in {a, 0} /\ m >= a /\ m >= 0
    BY <2>1
  <2>3. Max({a, 0}) = m
    BY DEF Max
  <2>. HIDE DEF m
  <2>. QED BY <1>1, <2>2, <2>3
<1>2. CASE ~(a >= 0)
  <2>1. \E x \in {a, 0} : \A y \in {a, 0} : x >= y
    BY <1>2
  <2>. DEFINE m == CHOOSE x \in {a, 0} : \A y \in {a, 0} : x >= y
  <2>2. m \in {a, 0} /\ m >= a /\ m >= 0
    BY <2>1
  <2>3. Max({a, 0}) = m
    BY DEF Max
  <2>. HIDE DEF m
  <2>. QED BY <1>2, <2>2, <2>3
<1>. QED BY <1>1, <1>2

LEMMA MinOfTwo ==
    ASSUME NEW a \in Nat, NEW b \in Nat
    PROVE  Min({a, b}) \in {a, b} /\ Min({a, b}) <= a /\ Min({a, b}) <= b
PROOF
<1>1. \E x \in {a, b} : \A y \in {a, b} : x <= y
  OBVIOUS
<1> DEFINE m == CHOOSE x \in {a, b} : \A y \in {a, b} : x <= y
<1>2. m \in {a, b} /\ \A y \in {a, b} : m <= y
  BY <1>1
<1>3. Min({a, b}) = m
  BY DEF Min
<1>. HIDE DEF m
<1>. QED BY <1>2, <1>3

\* The fee of a day is at most that of a later one.
LEMMA LateFeeGrows ==
    ASSUME NEW d \in Nat, NEW e \in Nat, d <= e
    PROVE  LateFee(d) \in Nat /\ LateFee(d) <= LateFee(e)
PROOF
BY BillAssumption DEF LateFee

LEMMA MaxChargeType == LateFee(MaxDay) \in Nat /\ MaxCharge \in Nat
PROOF
<1>1. LateFee(MaxDay) \in Nat
  BY BillAssumption DEF LateFee
<1>. QED BY <1>1, BillAssumption DEF MaxCharge

LEMMA FeeOfDay ==
    ASSUME today \in 0..MaxDay
    PROVE  LateFee(today) \in 0..LateFee(MaxDay)
PROOF
BY LateFeeGrows, BillAssumption

LEMMA BillFields ==
    ASSUME NEW d \in Bill
    PROVE  /\ d.paid \in Nat /\ d.paid <= MaxCharge
           /\ d.penalty \in Nat /\ d.penalty <= LateFee(MaxDay)
           /\ Charged(d) \in Nat /\ Charged(d) <= MaxCharge
PROOF
<1>1. d.paid \in 0..MaxCharge /\ d.penalty \in 0..LateFee(MaxDay)
  BY DEF Bill
<1>. QED BY <1>1, BillAssumption, MaxChargeType DEF Charged, MaxCharge

LEMMA BalanceIs ==
    ASSUME NEW d \in Bill
    PROVE  /\ Balance(d) = IF Charged(d) >= d.paid THEN Charged(d) - d.paid
                           ELSE 0
           /\ Balance(d) \in 0..MaxCharge
           /\ Remaining(d) \in 0..MaxCharge
           /\ Remaining(d) <= Balance(d)
PROOF
<1>1. d.paid \in Nat /\ Charged(d) \in Nat /\ Charged(d) <= MaxCharge
  BY BillFields
<1>2. MaxCharge \in Nat
  BY MaxChargeType
<1>3. Charged(d) - d.paid \in Int
  BY <1>1
<1>4. Balance(d) = IF Charged(d) - d.paid >= 0 THEN Charged(d) - d.paid ELSE 0
  BY <1>3, MaxOfTwo DEF Balance
<1>5. /\ Balance(d) = IF Charged(d) >= d.paid THEN Charged(d) - d.paid ELSE 0
      /\ Balance(d) \in 0..MaxCharge
  BY <1>1, <1>2, <1>4
<1>. QED BY <1>2, <1>5 DEF Remaining

Statuses == {"pending", "partially-paid", "overdue", "paid", "voided"}

\* A resolved status is paid exactly when nothing is missing.
LEMMA ResolvedIs ==
    ASSUME NEW d \in Bill, today \in Nat
    PROVE  /\ Resolved(d) \in Statuses
           /\ Resolved(d) # "voided"
           /\ (Resolved(d) = "paid") = (Balance(d) = 0)
PROOF
<1>1. Balance(d) \in Nat /\ d.paid \in Nat
  <2>1. Balance(d) \in 0..MaxCharge /\ MaxCharge \in Nat
    BY BalanceIs, MaxChargeType
  <2>. QED BY <2>1, BillFields
<1>2. CASE Balance(d) = 0
  <2>1. Resolved(d) = "paid"
    BY <1>2 DEF Resolved
  <2>. QED BY <1>2, <2>1 DEF Statuses
<1>3. CASE Balance(d) # 0
  <2>1. Balance(d) > 0
    BY <1>1, <1>3
  <2>2. Resolved(d) \in {"overdue", "partially-paid", "pending"}
    BY <1>3, <2>1 DEF Resolved
  <2>. QED BY <1>3, <2>2 DEF Statuses
<1>. QED BY <1>2, <1>3

LEMMA StatusChange ==
    ASSUME NEW d \in Bill, NEW s \in Statuses
    PROVE  /\ [d EXCEPT !.status = s] \in Bill
           /\ [d EXCEPT !.status = s].paid = d.paid
           /\ [d EXCEPT !.status = s].penalty = d.penalty
           /\ [d EXCEPT !.status = s].status = s
PROOF
BY DEF Bill, Statuses

LEMMA SyncedIs ==
    ASSUME NEW d \in Bill, today \in Nat
    PROVE  /\ Synced(d) \in Bill
           /\ Synced(d).paid = d.paid
           /\ Synced(d).penalty = d.penalty
           /\ Balance(Synced(d)) = Balance(d)
           /\ d.status = "voided" => Synced(d).status = "voided"
           /\ d.status # "voided" => Synced(d).status = Resolved(d)
PROOF
<1>1. /\ Synced(d) \in Bill
      /\ Synced(d).paid = d.paid
      /\ Synced(d).penalty = d.penalty
      /\ d.status = "voided" => Synced(d).status = "voided"
      /\ d.status # "voided" => Synced(d).status = Resolved(d)
  <2>1. CASE d.status = "voided"
    BY <2>1 DEF Synced
  <2>2. CASE d.status # "voided"
    <3>1. Synced(d) = [d EXCEPT !.status = Resolved(d)]
      BY <2>2 DEF Synced
    <3>2. Resolved(d) \in Statuses
      BY ResolvedIs
    <3>. QED BY <2>2, <3>1, <3>2, StatusChange
  <2>. QED BY <2>1, <2>2
<1>2. Balance(Synced(d)) = Balance(d)
  BY <1>1 DEF Balance, Charged
<1>. QED BY <1>1, <1>2

\* A save keeps the fields that the writer did not change.
LEMMA SavedIs ==
    ASSUME bills \in [Bills -> Bill], NEW b \in Bills,
           NEW r \in Bill, NEW n \in Bill
    PROVE  /\ Saved(b, r, n) \in Bill
           /\ Saved(b, r, n).paid =
                 IF n.paid # r.paid THEN n.paid ELSE bills[b].paid
           /\ Saved(b, r, n).penalty =
                 IF n.penalty # r.penalty THEN n.penalty ELSE bills[b].penalty
           /\ Saved(b, r, n).status =
                 IF n.status # r.status THEN n.status ELSE bills[b].status
PROOF
<1>1. bills[b] \in Bill
  OBVIOUS
<1>2. DOMAIN n = {"paid", "payment", "penalty", "status"}
  BY DEF Bill
<1>3. Saved(b, r, n) =
        [f \in {"paid", "payment", "penalty", "status"} |->
            IF n[f] # r[f] THEN n[f] ELSE bills[b][f]]
  BY <1>2 DEF Saved
<1>4. Saved(b, r, n) =
        [paid |-> IF n.paid # r.paid THEN n.paid ELSE bills[b].paid,
         payment |-> IF n.payment # r.payment THEN n.payment
                     ELSE bills[b].payment,
         penalty |-> IF n.penalty # r.penalty THEN n.penalty
                     ELSE bills[b].penalty,
         status |-> IF n.status # r.status THEN n.status ELSE bills[b].status]
  BY <1>3
<1>5. Saved(b, r, n) \in Bill
  BY <1>1, <1>4 DEF Bill
<1>. QED BY <1>4, <1>5

\* What a PayMongo payment pays of a bill is at most its balance.
LEMMA AppliedIs ==
    ASSUME NEW j, NEW d \in Bill, session[j.id].amount \in Nat
    PROVE  Applied(j, d) \in 0..MaxCharge /\ Applied(j, d) <= Balance(d)
PROOF
<1>1. /\ Balance(d) \in 0..MaxCharge /\ Remaining(d) \in 0..MaxCharge
      /\ Remaining(d) <= Balance(d) /\ MaxCharge \in Nat
  BY BalanceIs, MaxChargeType
<1>2. Applied(j, d) \in
        {0, Remaining(d), Min({Remaining(d), session[j.id].amount})}
  BY DEF Applied
<1>3. Remaining(d) \in Nat
  BY <1>1
<1>4. /\ Min({Remaining(d), session[j.id].amount})
            \in {Remaining(d), session[j.id].amount}
      /\ Min({Remaining(d), session[j.id].amount}) <= Remaining(d)
  BY <1>3, MinOfTwo
<1>5. Min({Remaining(d), session[j.id].amount}) \in Nat
  BY <1>3, <1>4
<1>. QED BY <1>1, <1>2, <1>4, <1>5
-----------------------------------------------------------------------------
(* Sums over the ledger                                                    *)

\* A fold over a set is the sum of a function with the same values.
LEMMA FoldIsSum ==
    ASSUME NEW S, NEW g, \A e \in S : g[e] = e.amount
    PROVE  MapThenSumSet(LAMBDA e : e.amount, S) = SumOf(S, g)
PROOF
<1>1. \A F : Adds(SUBSET S, g, F) <=>
         (F = [s \in SUBSET S |->
                 IF s = {} THEN 0
                 ELSE LET x == CHOOSE x \in s : TRUE
                      IN  x.amount + F[s \ {x}]])
  BY DEF Adds
<1>. QED BY <1>1 DEF SumOf, MapThenSumSet, MapThenFoldSet

LEMMA BalanceFold ==
    ASSUME NEW S, NEW g, \A b \in S : g[b] = Balance(bills[b])
    PROVE  MapThenSumSet(LAMBDA b : Balance(bills[b]), S) = SumOf(S, g)
PROOF
<1>1. \A F : Adds(SUBSET S, g, F) <=>
         (F = [s \in SUBSET S |->
                 IF s = {} THEN 0
                 ELSE LET x == CHOOSE x \in s : TRUE
                      IN  Balance(bills[x]) + F[s \ {x}]])
  BY DEF Adds
<1>. QED BY <1>1 DEF SumOf, MapThenSumSet, MapThenFoldSet

\* A checkout asks for a number.
LEMMA BalancesNat ==
    ASSUME bills \in [Bills -> Bill], NEW B \in SUBSET Bills
    PROVE  Balances(B) \in Nat
PROOF
<1> DEFINE g == [b \in Bills |-> Balance(bills[b])]
<1>1. IsFiniteSet(B)
  BY BillAssumption, FS_Subset
<1>2. \A b \in B : g[b] = Balance(bills[b]) /\ g[b] \in Nat
  <2>1. ASSUME NEW b \in B PROVE Balance(bills[b]) \in Nat
    <3>1. Balance(bills[b]) \in 0..MaxCharge /\ MaxCharge \in Nat
      BY BalanceIs, MaxChargeType
    <3>. QED BY <3>1
  <2>. QED BY <2>1
<1>. HIDE DEF g
<1>3. SumOf(B, g) \in Nat
  BY <1>1, <1>2, SumNat
<1>4. MapThenSumSet(LAMBDA b : Balance(bills[b]), B) = SumOf(B, g)
  BY <1>2, BalanceFold
<1>. QED BY <1>3, <1>4 DEF Balances

LEMMA BookedIs ==
    ASSUME ledger \subseteq Payment, NEW b
    PROVE  Booked(b) = SumOf({e \in ledger : e.bill = b}, AmountOf)
PROOF
<1> DEFINE S == {e \in ledger : e.bill = b}
<1>1. \A e \in S : AmountOf[e] = e.amount
  BY DEF AmountOf
<1>2. Booked(b) = MapThenSumSet(LAMBDA e : e.amount, S)
  BY DEF Booked
<1>. HIDE DEF S
<1>3. MapThenSumSet(LAMBDA e : e.amount, S) = SumOf(S, AmountOf)
  BY <1>1, FoldIsSum
<1>. QED BY <1>2, <1>3 DEF S

LEMMA AmountNat ==
    ASSUME NEW e \in Payment
    PROVE  AmountOf[e] = e.amount /\ AmountOf[e] \in Nat
PROOF
<1>1. e.amount \in 1..MaxCharge
  BY DEF Payment
<1>. QED BY <1>1 DEF AmountOf

LEMMA BackingNat ==
    ASSUME ledger \subseteq Payment, IsFiniteSet(ledger), NEW b
    PROVE  IsFiniteSet(Settled(b)) /\ Backing(b) \in Nat
PROOF
<1>1. Settled(b) \subseteq ledger
  BY DEF Settled
<1>2. IsFiniteSet(Settled(b))
  BY <1>1, FS_Subset
<1>3. \A e \in Settled(b) : AmountOf[e] \in Nat
  BY <1>1, AmountNat
<1>. QED BY <1>2, <1>3, SumNat DEF Backing

\* No more money is settled than the ledger holds.
LEMMA BackingIsBooked ==
    ASSUME ledger \subseteq Payment, IsFiniteSet(ledger), NEW b
    PROVE  Backing(b) <= Booked(b) /\ Booked(b) \in Nat
PROOF
<1> DEFINE S == {e \in ledger : e.bill = b}
<1>1. IsFiniteSet(S)
  BY FS_Subset
<1>2. \A e \in S : AmountOf[e] \in Nat
  BY AmountNat
<1>3. Settled(b) \in SUBSET S
  BY DEF Settled
<1>4. Booked(b) = SumOf(S, AmountOf)
  BY BookedIs
<1>. HIDE DEF S
<1>. QED BY <1>1, <1>2, <1>3, <1>4, SumPart, SumNat DEF Backing

\* More settled entries back a bill with more money,
LEMMA BackingGrows ==
    ASSUME (ledger \subseteq Payment)', IsFiniteSet(ledger)',
           NEW b, Settled(b) \subseteq Settled(b)'
    PROVE  Backing(b) <= Backing(b)' /\ Backing(b)' \in Nat
PROOF
<1>1. Settled(b)' \subseteq ledger'
  BY DEF Settled
<1>2. IsFiniteSet(Settled(b)')
  BY <1>1, FS_Subset
<1>3. \A e \in Settled(b)' : AmountOf[e] \in Nat
  BY <1>1, AmountNat
<1>. DEFINE T == Settled(b)'
<1>4. Backing(b)' = SumOf(T, AmountOf)
  BY DEF Backing
<1>. HIDE DEF T
<1>5. SumOf(Settled(b), AmountOf) <= SumOf(T, AmountOf)
  BY <1>2, <1>3, SumPart DEF T
<1>6. SumOf(T, AmountOf) \in Nat
  BY <1>2, <1>3, SumNat DEF T
<1>. QED BY <1>4, <1>5, <1>6 DEF Backing

\* and one more with the amount of that one.
LEMMA BackingAdds ==
    ASSUME ledger \subseteq Payment, IsFiniteSet(ledger), NEW b,
           NEW e \in Payment, e \notin Settled(b),
           Settled(b)' = Settled(b) \cup {e}
    PROVE  Backing(b)' = Backing(b) + e.amount
PROOF
<1>1. IsFiniteSet(Settled(b)) /\ Settled(b) \subseteq Payment
  BY BackingNat DEF Settled
<1>2. \A y \in Settled(b) \cup {e} : AmountOf[y] \in Nat
  BY <1>1, AmountNat
<1>3. SumOf(Settled(b) \cup {e}, AmountOf)
        = SumOf(Settled(b), AmountOf) + AmountOf[e]
  BY <1>1, <1>2, SumAdd
<1>4. Backing(b)' = SumOf(Settled(b) \cup {e}, AmountOf)
  BY DEF Backing
<1>. QED BY <1>3, <1>4, AmountNat DEF Backing

-----------------------------------------------------------------------------
(* What settles entries                                                    *)

\* A worker that starts or goes on without writing to the ledger leaves every
\* entry as settled as it was, unless it has or gets one to credit,
LEMMA SettledSame ==
    ASSUME TypeOK, NEW w \in Workers, NEW j,
           worker' = [worker EXCEPT ![w] = j],
           ledger' = ledger,
           ~InCredit(w), ~(j \in Job /\ j.pc = "credit"),
           NEW b
    PROVE  Settled(b)' = Settled(b)
PROOF
<1>1. \A v \in Workers : InCredit(v)' = InCredit(v)
  BY DEF InCredit, TypeOK
<1>2. \A v \in Workers : InCredit(v) => Entry(worker'[v]) = Entry(worker[v])
  BY DEF TypeOK
<1>. QED BY <1>1, <1>2 DEF Settled

\* or when no worker moves.
LEMMA SettledStill ==
    ASSUME worker' = worker, ledger' = ledger, NEW b
    PROVE  Settled(b)' = Settled(b) /\ Backing(b)' = Backing(b)
PROOF
<1>1. Settled(b)' = Settled(b)
  BY DEF Settled, InCredit
<1>. QED BY <1>1 DEF Backing

\* The kinds of jobs are told apart by what they do.
LEMMA KindsApart ==
    ASSUME NEW j
    PROVE  /\ j \in Job => /\ j \notin Rewrite /\ j # Idle
                           /\ j.op \in {"webhook", "poll", "manual"}
           /\ j \in Rewrite => j # Idle /\ j.op = "rewrite" /\ j.pc = "save"
PROOF
<1>1. j \in Job => j.op \in {"webhook", "poll", "manual"}
  BY DEF Job
<1>2. j \in Rewrite => j.op = "rewrite" /\ j.pc = "save"
  BY DEF Rewrite
<1>3. Idle.op = "idle"
  BY DEF Idle
<1>. QED BY <1>1, <1>2, <1>3

\* What the other handlers know stays true while w moves on: the money behind
\* a bill does not get less, nobody takes the receipt they are about to
\* record or the entry they are about to credit, or works on their payment.
LEMMA WorkersKeep ==
    ASSUME TypeOK, WorkerInv, NEW w \in Workers, NEW j,
           worker' = [worker EXCEPT ![w] = j],
           \A b \in Bills : Backing(b) \in Nat /\ Backing(b)' \in Nat
                            /\ Backing(b) <= Backing(b)',
           \A v \in Workers \ {w} : worker[v] \in Job =>
              /\ worker[v].op = "manual" /\ worker[v].pc = "record" =>
                    ~Recorded(worker[v].id)'
              /\ worker[v].pc = "credit" => Entry(worker[v]) \in ledger'
              /\ j \in Job /\ j.id = worker[v].id =>
                    /\ worker[v].op # "manual" /\ j.op # "manual"
                    /\ ~(InCredit(v) /\ j.pc = "credit"),
           j \in Job => JobInv(j)',
           j \in Rewrite => RewriteInv(j)
    PROVE  WorkerInv'
PROOF
<1>1. \A v \in Workers : worker'[v] = IF v = w THEN j ELSE worker[v]
  BY DEF TypeOK
<1>2. ASSUME NEW v \in Workers, worker'[v] \in Job PROVE JobInv(worker[v])'
  <2>1. CASE v = w
    BY <1>1, <1>2, <2>1
  <2>2. CASE v # w
    <3>0. PICK k : k = worker[v]
      OBVIOUS
    <3>1. worker'[v] = k /\ k \in Job
      BY <1>1, <1>2, <2>2, <3>0
    <3>2. JobInv(k)
      BY <3>0, <3>1 DEF WorkerInv
    <3>3. /\ k.op = "manual" /\ k.pc = "record" => ~Recorded(k.id)'
          /\ k.pc = "credit" => Entry(k) \in ledger'
      <4>1. /\ worker[v].op = "manual" /\ worker[v].pc = "record" =>
                  ~Recorded(worker[v].id)'
            /\ worker[v].pc = "credit" => Entry(worker[v]) \in ledger'
        BY <2>2, <3>0, <3>1
      <4>. QED BY <3>0, <3>1, <4>1 DEF Recorded
    <3>4. k.bill \in Bills /\ k.seen \in Bill
      BY <3>1 DEF Job
    <3>5. k.seen.paid \in Nat
      BY <3>4, BillFields
    <3>6. k.seen.paid <= Backing(k.bill)'
      <4>1. k.seen.paid <= Backing(k.bill)
        BY <3>2 DEF JobInv
      <4>2. /\ Backing(k.bill) \in Nat /\ Backing(k.bill)' \in Nat
            /\ Backing(k.bill) <= Backing(k.bill)'
        BY <3>4
      <4>. QED BY <3>5, <4>1, <4>2
    <3>7. JobInv(k)'
      BY <3>2, <3>3, <3>6 DEF JobInv
    <3>. QED BY <3>1, <3>7 DEF JobInv
  <2>. QED BY <2>1, <2>2
<1>3. ASSUME NEW v \in Workers, worker'[v] \in Rewrite
      PROVE  RewriteInv(worker[v])'
  <2>1. RewriteInv(worker'[v])
    BY <1>1, <1>3 DEF WorkerInv
  <2>. QED BY <2>1 DEF RewriteInv
<1>4. ASSUME NEW u \in Workers, NEW v \in Workers, Rivals(u, v)'
      PROVE  u = v
  <2>1. /\ worker'[u] \in Job /\ worker'[v] \in Job
        /\ worker'[u].id = worker'[v].id
        /\ worker'[u].op = "manual" \/ (InCredit(u)' /\ InCredit(v)')
    BY <1>4 DEF Rivals
  <2>2. CASE u # w /\ v # w
    <3>1. worker'[u] = worker[u] /\ worker'[v] = worker[v]
      BY <1>1, <2>2
    <3>2. Rivals(u, v)
      BY <2>1, <3>1 DEF Rivals, InCredit
    <3>. QED BY <3>2 DEF WorkerInv
  <2>3. CASE u = w /\ v # w
    <3>1. worker'[u] = j /\ worker'[v] = worker[v]
      BY <1>1, <2>3
    <3>. QED BY <2>1, <2>3, <3>1 DEF InCredit
  <2>4. CASE u # w /\ v = w
    <3>1. worker'[u] = worker[u] /\ worker'[v] = j
      BY <1>1, <2>4
    <3>. QED BY <2>1, <2>4, <3>1 DEF InCredit
  <2>. QED BY <2>2, <2>3, <2>4
<1>. QED BY <1>2, <1>3, <1>4 DEF WorkerInv

\* A handler of a PayMongo payment has no manual job beside it.
LEMMA NoManualBeside ==
    ASSUME WorkerInv, NEW w \in Workers, worker[w] \in Job,
           worker[w].op # "manual",
           NEW v \in Workers, v # w, worker[v] \in Job,
           worker[v].id = worker[w].id
    PROVE  worker[v].op # "manual"
PROOF
BY DEF WorkerInv, Rivals

LEMMA InvParts ==
    ASSUME IInv, NEW w \in Workers
    PROVE  /\ worker[w] \in {Idle} \cup Job \cup Rewrite
           /\ worker[w] \in Job => JobInv(worker[w])
           /\ worker[w] \in Rewrite => RewriteInv(worker[w])
PROOF
BY DEF IInv, TypeOK, WorkerInv

-----------------------------------------------------------------------------
(* Steps that write no entry and credit none                               *)

LEMMA Moves ==
    ASSUME IInv, TypeOK', NEW w \in Workers, NEW j,
           worker' = [worker EXCEPT ![w] = j],
           ledger' = ledger,
           \A b \in Bills : bills'[b].paid = bills[b].paid,
           ~InCredit(w), ~(j \in Job /\ j.pc = "credit"),
           j \in Job => JobInv(j),
           j \in Job => \A v \in Workers \ {w} :
                           worker[v] \in Job /\ worker[v].id = j.id =>
                              worker[v].op # "manual" /\ j.op # "manual",
           j \in Rewrite => RewriteInv(j)
    PROVE  IInv'
PROOF
<1>1. /\ TypeOK /\ WorkerInv /\ Backed
      /\ ledger \subseteq Payment /\ IsFiniteSet(ledger) /\ OneEntryPerPayment
  BY DEF IInv, LedgerInv, TypeOK
<1>2. \A b : Backing(b)' = Backing(b) /\ Backing(b) \in Nat
  <2>1. ASSUME NEW b PROVE Settled(b)' = Settled(b)
    BY <1>1, SettledSame
  <2>2. ASSUME NEW b PROVE Backing(b)' = Backing(b) /\ Backing(b) \in Nat
    BY <1>1, <2>1, BackingNat DEF Backing
  <2>. QED BY <2>2
<1>3. LedgerInv'
  BY <1>1 DEF LedgerInv, OneEntryPerPayment
<1>4. Backed'
  <2>1. ASSUME NEW b \in Bills PROVE bills'[b].paid <= Backing(b)'
    BY <1>1, <1>2 DEF Backed
  <2>. QED BY <2>1 DEF Backed
<1>5. ASSUME NEW v \in Workers \ {w}, worker[v] \in Job
      PROVE  /\ worker[v].op = "manual" /\ worker[v].pc = "record" =>
                   ~Recorded(worker[v].id)'
             /\ worker[v].pc = "credit" => Entry(worker[v]) \in ledger'
             /\ j \in Job /\ j.id = worker[v].id =>
                   /\ worker[v].op # "manual" /\ j.op # "manual"
                   /\ ~(InCredit(v) /\ j.pc = "credit")
  <2>1. JobInv(worker[v])
    BY <1>1, <1>5 DEF WorkerInv
  <2>2. /\ worker[v].op = "manual" /\ worker[v].pc = "record" =>
              ~Recorded(worker[v].id)
        /\ worker[v].pc = "credit" => Entry(worker[v]) \in ledger
    BY <2>1 DEF JobInv
  <2>3. worker'[v] = worker[v]
    BY <1>1, <1>5 DEF TypeOK
  <2>4. Recorded(worker[v].id)' = Recorded(worker[v].id)
    BY <2>3 DEF Recorded
  <2>. QED BY <1>5, <2>2, <2>4
<1>6. j \in Job => JobInv(j)'
  BY <1>2 DEF JobInv, Recorded
<1>7. WorkerInv'
  <2>1. \A b \in Bills : Backing(b) \in Nat /\ Backing(b)' \in Nat
                         /\ Backing(b) <= Backing(b)'
    BY <1>2
  <2>. QED BY <1>1, <1>5, <1>6, <2>1, WorkersKeep
<1>. QED BY <1>3, <1>4, <1>7 DEF IInv

\* Nothing moves but the days, the sessions or the status of a bill.
LEMMA Still ==
    ASSUME IInv, TypeOK', worker' = worker, ledger' = ledger,
           \A b \in Bills : bills'[b].paid = bills[b].paid
    PROVE  IInv'
PROOF
<1>1. /\ WorkerInv /\ Backed /\ LedgerInv
  BY DEF IInv
<1>2. \A b : Backing(b)' = Backing(b)
  BY SettledStill
<1>3. LedgerInv' /\ Backed'
  BY <1>1, <1>2 DEF LedgerInv, OneEntryPerPayment, Backed
<1>4. \A j : JobInv(j) => JobInv(j)'
  BY <1>2 DEF JobInv, Recorded
<1>5. \A w \in Workers : worker'[w] \in Job => JobInv(worker[w])'
  <2>1. ASSUME NEW w \in Workers, worker'[w] \in Job PROVE JobInv(worker[w])'
    <3>1. PICK j : j = worker[w]
      OBVIOUS
    <3>2. JobInv(j)'
      BY <1>1, <1>4, <2>1, <3>1 DEF WorkerInv
    <3>. QED BY <3>1, <3>2 DEF JobInv
  <2>. QED BY <2>1
<1>6. WorkerInv'
  BY <1>1, <1>5 DEF WorkerInv, RewriteInv, Rivals, InCredit
<1>. QED BY <1>3, <1>6 DEF IInv

LEMMA InitStep == Init => IInv
PROOF
<1> SUFFICES ASSUME Init PROVE IInv
  OBVIOUS
<1>1. MaxCharge \in Nat /\ LateFee(MaxDay) \in Nat
  BY MaxChargeType
<1>2. TypeOK
  <2>1. today \in 0..MaxDay
    BY BillAssumption DEF Init
  <2>2. [paid |-> 0, payment |-> NoPayment, penalty |-> 0,
         status |-> "pending"] \in Bill
    BY <1>1 DEF Bill
  <2>3. bills \in [Bills -> Bill]
    BY <2>2 DEF Init
  <2>4. session \in [Payments -> Session]
    BY DEF Init, Session
  <2>. QED BY <2>1, <2>3, <2>4 DEF Init, TypeOK
<1>3. LedgerInv
  BY FS_EmptySet DEF Init, LedgerInv, OneEntryPerPayment
<1>4. WorkerInv
  BY KindsApart DEF Init, WorkerInv, Rivals
<1>5. Backed
  <2>1. ASSUME NEW b \in Bills PROVE bills[b].paid <= Backing(b)
    <3>1. Backing(b) \in Nat
      BY <1>2, <1>3, BackingNat DEF TypeOK, LedgerInv
    <3>2. bills[b].paid = 0
      BY DEF Init
    <3>. QED BY <3>1, <3>2
  <2>. QED BY <2>1 DEF Backed
<1>. QED BY <1>2, <1>3, <1>4, <1>5 DEF IInv

LEMMA TomorrowStep == ASSUME IInv, Tomorrow PROVE IInv'
PROOF
<1>1. TypeOK'
  BY BillAssumption DEF IInv, TypeOK, Tomorrow
<1>. QED BY <1>1, Still DEF Tomorrow

LEMMA VoidUnpaidStep ==
    ASSUME IInv, NEW b \in Bills, VoidUnpaid(b) PROVE IInv'
PROOF
<1>1. bills \in [Bills -> Bill]
  BY DEF IInv, TypeOK
<1>2. bills' = [bills EXCEPT ![b] = [bills[b] EXCEPT !.status = "voided"]]
  BY Zenon DEF VoidUnpaid
<1> DEFINE d == [bills[b] EXCEPT !.status = "voided"]
<1>3. d \in Bill /\ d.paid = bills[b].paid
  BY <1>1, StatusChange DEF Statuses
<1>4. bills' = [bills EXCEPT ![b] = d]
  BY <1>2
<1>. HIDE DEF d
<1>5. bills' \in [Bills -> Bill]
      /\ \A c \in Bills : bills'[c].paid = bills[c].paid
  BY <1>1, <1>3, <1>4
<1>6. TypeOK'
  BY <1>5 DEF IInv, TypeOK, VoidUnpaid
<1>. QED BY <1>5, <1>6, Still DEF VoidUnpaid

LEMMA PayStep == ASSUME IInv, NEW p \in Payments, Pay(p) PROVE IInv'
PROOF
<1>1. session' \in [Payments -> Session]
  BY DEF IInv, TypeOK, Pay, Session
<1>2. TypeOK'
  BY <1>1 DEF IInv, TypeOK, Pay
<1>. QED BY <1>2, Still DEF Pay

\* Reading bills to save them changed, whatever becomes of the session.
LEMMA RewriteStarts ==
    ASSUME IInv, NEW w \in Workers, worker[w] = Idle,
           NEW B \in SUBSET Bills, NEW N \in [B -> Bill],
           \A b \in B : N[b].paid = bills[b].paid,
           worker' = [worker EXCEPT ![w] =
                        [op |-> "rewrite", id |-> NoPayment, pc |-> "save",
                         todo |-> B, read |-> [b \in B |-> bills[b]],
                         new |-> N]],
           session' \in [Payments -> Session],
           UNCHANGED <<today, bills, ledger, event>>
    PROVE  IInv'
PROOF
<1> DEFINE R == [b \in B |-> bills[b]]
           j == [op |-> "rewrite", id |-> NoPayment, pc |-> "save",
                 todo |-> B, read |-> R, new |-> N]
<1>1. R \in [B -> Bill] /\ \A b \in B : R[b] = bills[b]
  BY DEF IInv, TypeOK
<1>. HIDE DEF R
<1>2. j \in Rewrite
  BY <1>1 DEF Rewrite
<1>3. j.todo = B /\ j.read = R /\ j.new = N
  OBVIOUS
<1>4. worker' = [worker EXCEPT ![w] = j]
  BY DEF R
<1>. HIDE DEF j
<1>5. RewriteInv(j)
  BY <1>1, <1>3 DEF RewriteInv
<1>6. j \notin Job /\ ~InCredit(w)
  BY <1>2, KindsApart DEF InCredit
<1>7. TypeOK'
  BY <1>2, <1>4 DEF IInv, TypeOK
<1>8. \A b \in Bills : bills'[b].paid = bills[b].paid
  OBVIOUS
<1>9. ledger' = ledger
  OBVIOUS
<1>. QED BY <1>4, <1>5, <1>6, <1>7, <1>8, <1>9, Moves

LEMMA BillTypes ==
    ASSUME IInv
    PROVE  /\ bills \in [Bills -> Bill] /\ session \in [Payments -> Session]
           /\ today \in 0..MaxDay /\ today \in Nat
           /\ ledger \subseteq Payment /\ IsFiniteSet(ledger)
PROOF
BY BillAssumption DEF IInv, TypeOK, LedgerInv

LEMMA MarkOverdueStep ==
    ASSUME IInv, NEW w \in Workers, MarkOverdue(w) PROVE IInv'
PROOF
<1> DEFINE B == {b \in Bills : Markable(bills[b])}
           N == [b \in B |-> WithStatus(bills[b], "overdue")]
<1>1. worker[w] = Idle /\ UNCHANGED <<today, bills, ledger, session, event>>
  BY DEF MarkOverdue, StartRewrite
<1>2. worker' = [worker EXCEPT ![w] =
                   [op |-> "rewrite", id |-> NoPayment, pc |-> "save",
                    todo |-> B, read |-> [b \in B |-> bills[b]], new |-> N]]
  BY DEF MarkOverdue, StartRewrite
<1>3. \A b \in Bills : WithStatus(bills[b], "overdue") \in Bill
                       /\ WithStatus(bills[b], "overdue").paid = bills[b].paid
  BY BillTypes, StatusChange DEF WithStatus, Statuses
<1>4. B \in SUBSET Bills /\ N \in [B -> Bill]
      /\ \A b \in B : N[b].paid = bills[b].paid
  BY <1>3
<1>5. session' \in [Payments -> Session]
  BY <1>1, BillTypes
<1>. HIDE DEF B, N
<1>. QED BY <1>1, <1>2, <1>4, <1>5, RewriteStarts

LEMMA ListBillsStep ==
    ASSUME IInv, NEW w \in Workers, ListBills(w) PROVE IInv'
PROOF
<1> DEFINE B == {b \in Bills : bills[b].status # Resolved(bills[b])}
           N == [b \in B |-> WithStatus(bills[b], Resolved(bills[b]))]
<1>1. worker[w] = Idle /\ UNCHANGED <<today, bills, ledger, session, event>>
  BY DEF ListBills, StartRewrite
<1>2. worker' = [worker EXCEPT ![w] =
                   [op |-> "rewrite", id |-> NoPayment, pc |-> "save",
                    todo |-> B, read |-> [b \in B |-> bills[b]], new |-> N]]
  BY DEF ListBills, StartRewrite
<1>3. ASSUME NEW b \in Bills
      PROVE  /\ WithStatus(bills[b], Resolved(bills[b])) \in Bill
             /\ WithStatus(bills[b], Resolved(bills[b])).paid = bills[b].paid
  BY BillTypes, ResolvedIs, StatusChange DEF WithStatus
<1>4. B \in SUBSET Bills /\ N \in [B -> Bill]
      /\ \A b \in B : N[b].paid = bills[b].paid
  BY <1>3
<1>5. session' \in [Payments -> Session]
  BY <1>1, BillTypes
<1>. HIDE DEF B, N
<1>. QED BY <1>1, <1>2, <1>4, <1>5, RewriteStarts

LEMMA SplitStep ==
    ASSUME IInv, NEW w \in Workers, NEW x \in Bills, Split(w, x) PROVE IInv'
PROOF
<1>1. PICK B \in SUBSET Bills : B = {x}
  OBVIOUS
<1>2. PICK N : N = [b \in B |-> WithStatus(bills[b], "voided")]
  OBVIOUS
<1>3. worker[w] = Idle /\ UNCHANGED <<today, bills, ledger, session, event>>
  BY DEF Split, StartRewrite
<1>4. worker' = [worker EXCEPT ![w] =
                   [op |-> "rewrite", id |-> NoPayment, pc |-> "save",
                    todo |-> B, read |-> [b \in B |-> bills[b]], new |-> N]]
  BY <1>1, <1>2 DEF Split, StartRewrite
<1>5. \A b \in Bills : WithStatus(bills[b], "voided") \in Bill
                       /\ WithStatus(bills[b], "voided").paid = bills[b].paid
  BY BillTypes, StatusChange DEF WithStatus, Statuses
<1>6. N \in [B -> Bill]
  BY <1>2, <1>5
<1>7. \A b \in B : N[b].paid = bills[b].paid
  BY <1>2, <1>5
<1>8. session' \in [Payments -> Session]
  BY <1>3, BillTypes
<1>9. worker[w] = Idle
  BY <1>3
<1>10. UNCHANGED <<today, bills, ledger, event>>
  BY <1>3
<1>. QED BY <1>4, <1>6, <1>7, <1>8, <1>9, <1>10, RewriteStarts

\* A bill with the late fee of today.
LEMMA ChargedIs ==
    ASSUME NEW d \in Bill, today \in 0..MaxDay
    PROVE  LET n == Synced([d EXCEPT !.penalty = LateFee(today)])
           IN  /\ n \in Bill
               /\ n.paid = d.paid
               /\ n.penalty = LateFee(today)
               /\ d.status # "voided" =>
                     /\ n.status # "voided"
                     /\ (n.status = "paid") = (Balance(n) = 0)
PROOF
<1> DEFINE c == [d EXCEPT !.penalty = LateFee(today)]
<1>1. LateFee(today) \in 0..LateFee(MaxDay) /\ today \in Nat
  BY FeeOfDay, BillAssumption
<1>2. c \in Bill /\ c.paid = d.paid /\ c.penalty = LateFee(today)
      /\ c.status = d.status
  BY <1>1 DEF Bill
<1>. HIDE DEF c
<1>3. /\ Synced(c) \in Bill /\ Synced(c).paid = c.paid
      /\ Synced(c).penalty = c.penalty /\ Balance(Synced(c)) = Balance(c)
      /\ c.status # "voided" => Synced(c).status = Resolved(c)
  BY <1>1, <1>2, SyncedIs
<1>4. Resolved(c) # "voided" /\ (Resolved(c) = "paid") = (Balance(c) = 0)
  BY <1>1, <1>2, ResolvedIs
<1>5. d.status # "voided" =>
          /\ Synced(c).status # "voided"
          /\ (Synced(c).status = "paid") = (Balance(Synced(c)) = 0)
  BY <1>2, <1>3, <1>4
<1>. QED BY <1>2, <1>3, <1>5 DEF c

LEMMA ChargeLateFeesStep ==
    ASSUME IInv, NEW w \in Workers, NEW S, ChargeLateFees(w, S) PROVE IInv'
PROOF
<1> DEFINE B == {b \in Bills : /\ bills[b].status \in S
                               /\ \/ bills[b].penalty # LateFee(today)
                                  \/ S = ByHand}
           C(d) == Synced([d EXCEPT !.penalty = LateFee(today)])
           N == [b \in B |-> C(bills[b])]
<1>1. worker[w] = Idle /\ UNCHANGED <<today, bills, ledger, session, event>>
  BY DEF ChargeLateFees, StartRewrite
<1>2. worker' = [worker EXCEPT ![w] =
                   [op |-> "rewrite", id |-> NoPayment, pc |-> "save",
                    todo |-> B, read |-> [b \in B |-> bills[b]], new |-> N]]
  BY DEF ChargeLateFees, StartRewrite
<1>3. ASSUME NEW b \in Bills
      PROVE  C(bills[b]) \in Bill /\ C(bills[b]).paid = bills[b].paid
  BY BillTypes, ChargedIs
<1>. HIDE DEF C
<1>4. B \in SUBSET Bills /\ N \in [B -> Bill]
      /\ \A b \in B : N[b].paid = bills[b].paid
  BY <1>3
<1>5. session' \in [Payments -> Session]
  BY <1>1, BillTypes
<1>. HIDE DEF B, N
<1>. QED BY <1>1, <1>2, <1>4, <1>5, RewriteStarts

LEMMA OpenCheckoutStep ==
    ASSUME IInv, NEW w \in Workers, NEW p \in Payments,
           NEW B \in SUBSET Bills, OpenCheckout(w, p, B)
    PROVE  IInv'
PROOF
<1>1. UNCHANGED <<today, bills, ledger, event>>
  BY DEF OpenCheckout
<1>2. session' \in [Payments -> Session]
  <2>. DEFINE s == [state |-> "open", bills |-> B, amount |-> Balances(B)]
  <2>1. Balances(B) \in Nat
    BY BillTypes, BalancesNat
  <2>2. s \in Session
    BY <2>1 DEF Session
  <2>3. session' = [session EXCEPT ![p] = s]
    BY DEF OpenCheckout
  <2>. HIDE DEF s
  <2>. QED BY <2>2, <2>3, BillTypes
<1>3. CASE UNCHANGED worker
  <2>1. TypeOK'
    BY <1>1, <1>2, <1>3 DEF IInv, TypeOK
  <2>. QED BY <1>1, <1>3, <2>1, Still
<1>4. CASE StartRewrite(w, B, LAMBDA d : WithStatus(d, Resolved(d)))
  <2>. DEFINE N == [b \in B |-> WithStatus(bills[b], Resolved(bills[b]))]
  <2>1. /\ worker[w] = Idle
        /\ worker' = [worker EXCEPT ![w] =
             [op |-> "rewrite", id |-> NoPayment, pc |-> "save",
              todo |-> B, read |-> [b \in B |-> bills[b]], new |-> N]]
    BY <1>4 DEF StartRewrite
  <2>2. ASSUME NEW b \in Bills
        PROVE  /\ WithStatus(bills[b], Resolved(bills[b])) \in Bill
               /\ WithStatus(bills[b], Resolved(bills[b])).paid = bills[b].paid
    BY BillTypes, ResolvedIs, StatusChange DEF WithStatus
  <2>3. N \in [B -> Bill] /\ \A b \in B : N[b].paid = bills[b].paid
    BY <2>2
  <2>. HIDE DEF N
  <2>. QED BY <1>1, <1>2, <2>1, <2>3, RewriteStarts
<1>. QED BY <1>3, <1>4 DEF OpenCheckout

LEMMA SaveStep ==
    ASSUME IInv, NEW w \in Workers, NEW b \in Bills, Save(w, b) PROVE IInv'
PROOF
<1>0. PICK j : j = worker[w]
  OBVIOUS
<1>1. /\ j.op = "rewrite" /\ b \in j.todo
      /\ bills' = [bills EXCEPT ![b] = Saved(b, j.read[b], j.new[b])]
      /\ worker' = [worker EXCEPT ![w] = IF j.todo = {b} THEN Idle
                                         ELSE [j EXCEPT !.todo = @ \ {b}]]
      /\ UNCHANGED <<today, ledger, session, event>>
  BY <1>0 DEF Save
<1>2. j \in Rewrite /\ RewriteInv(j) /\ j \notin Job
  <2>1. j \in {Idle} \cup Job \cup Rewrite
    BY <1>0, InvParts
  <2>2. j \in Rewrite
    BY <1>1, <2>1, KindsApart DEF Idle
  <2>. QED BY <1>0, <2>2, InvParts, KindsApart
<1>3. PICK D, E \in SUBSET Bills : j.new \in [D -> Bill] /\ j.read \in [E -> Bill]
  BY <1>2 DEF Rewrite
<1>4. j.read[b] \in Bill /\ j.new[b] \in Bill
      /\ j.new[b].paid = j.read[b].paid
  BY <1>1, <1>2, <1>3 DEF RewriteInv
<1> DEFINE s == Saved(b, j.read[b], j.new[b])
           k == IF j.todo = {b} THEN Idle ELSE [j EXCEPT !.todo = @ \ {b}]
<1>5. s \in Bill /\ s.paid = bills[b].paid
  BY <1>4, BillTypes, SavedIs
<1>6. bills' = [bills EXCEPT ![b] = s] /\ worker' = [worker EXCEPT ![w] = k]
  BY <1>1
<1>7. /\ k \in {Idle} \cup Rewrite
      /\ k \in Rewrite => RewriteInv(k)
  <2>1. CASE j.todo = {b}
    BY <2>1, KindsApart
  <2>2. CASE j.todo # {b}
    <3>1. k = [j EXCEPT !.todo = @ \ {b}]
      BY <2>2
    <3>2. k.todo = j.todo \ {b} /\ k.new = j.new /\ k.read = j.read /\ k \in Rewrite
      BY <1>2, <3>1 DEF Rewrite
    <3>. HIDE DEF k
    <3>. QED BY <1>2, <3>2 DEF RewriteInv
  <2>. QED BY <2>1, <2>2
<1>. HIDE DEF s, k
<1>8. k \notin Job /\ ~InCredit(w)
  BY <1>0, <1>2, <1>7, KindsApart DEF InCredit
<1>9. bills' \in [Bills -> Bill]
      /\ \A c \in Bills : bills'[c].paid = bills[c].paid
  BY <1>5, <1>6, BillTypes
<1>10. TypeOK'
  BY <1>1, <1>6, <1>7, <1>9 DEF IInv, TypeOK
<1>11. ledger' = ledger
  BY <1>1
<1>. QED BY <1>6, <1>7, <1>8, <1>9, <1>10, <1>11, Moves

\* What the steps that start a settlement, or go on with one, change.
LEMMA JobMoves ==
    ASSUME IInv, NEW w \in Workers, NEW j, j \in {Idle} \cup Job,
           worker' = [worker EXCEPT ![w] = j],
           event' \in [Payments ->
                         {"none", "processing", "processed", "failed"}],
           UNCHANGED <<today, bills, ledger, session>>,
           ~InCredit(w),
           j \in Job => j.pc # "credit" /\ JobInv(j),
           j \in Job => \A v \in Workers \ {w} :
                           worker[v] \in Job /\ worker[v].id = j.id =>
                              worker[v].op # "manual" /\ j.op # "manual"
    PROVE  IInv'
PROOF
<1>1. TypeOK'
  BY DEF IInv, TypeOK
<1>2. j \notin Rewrite
  BY KindsApart
<1>3. ledger' = ledger /\ \A b \in Bills : bills'[b].paid = bills[b].paid
  OBVIOUS
<1>. QED BY <1>1, <1>2, <1>3, Moves

LEMMA EventType ==
    ASSUME IInv, NEW p \in Payments,
           NEW s \in {"none", "processing", "processed", "failed"}
    PROVE  [event EXCEPT ![p] = s] \in
              [Payments -> {"none", "processing", "processed", "failed"}]
PROOF
BY DEF IInv, TypeOK

LEMMA StartStep ==
    ASSUME IInv, NEW w \in Workers, NEW p \in Payments,
           NEW op \in {"webhook", "poll"}, Start(w, op, p),
           event' = event \/ event' = [event EXCEPT ![p] = "processing"]
    PROVE  IInv'
PROOF
<1>1. worker[w] = Idle /\ UNCHANGED <<today, bills, ledger, session>>
  BY DEF Start
<1>2. PICK b \in session[p].bills :
         worker' = [worker EXCEPT ![w] =
                      [op |-> op, id |-> p, pc |-> "read",
                       todo |-> session[p].bills, bill |-> b,
                       seen |-> bills[b], amount |-> 0]]
  BY DEF Start
<1>3. session[p].bills \in SUBSET Bills
  BY BillTypes DEF Session
<1>4. b \in Bills /\ bills[b] \in Bill
  BY <1>2, <1>3, BillTypes
<1> DEFINE j == [op |-> op, id |-> p, pc |-> "read",
                 todo |-> session[p].bills, bill |-> b,
                 seen |-> bills[b], amount |-> 0]
<1>5. j \in Job
  BY <1>3, <1>4, MaxChargeType DEF Job
<1>6. /\ j.op = op /\ j.id = p /\ j.pc = "read" /\ j.seen = bills[b]
      /\ j.bill = b
  OBVIOUS
<1>7. worker' = [worker EXCEPT ![w] = j]
  BY <1>2
<1>. HIDE DEF j
<1>8. JobInv(j)
  BY <1>4, <1>6 DEF JobInv, IInv, Backed
<1>9. ~InCredit(w)
  BY <1>1, KindsApart DEF InCredit
<1>10. ASSUME NEW v \in Workers \ {w}, worker[v] \in Job, worker[v].id = j.id
       PROVE  worker[v].op # "manual" /\ j.op # "manual"
  <2>1. JobInv(worker[v])
    BY <1>10, InvParts
  <2>2. worker[v].id \notin Receipts
    BY <1>6, <1>10, BillAssumption
  <2>. QED BY <1>6, <2>1, <2>2 DEF JobInv
<1>11. event' \in [Payments -> {"none", "processing", "processed", "failed"}]
  <2>1. event \in [Payments -> {"none", "processing", "processed", "failed"}]
    BY DEF IInv, TypeOK
  <2>. QED BY <2>1, EventType
<1>12. j.pc # "credit" /\ j \in {Idle} \cup Job
  BY <1>5, <1>6
<1>. QED BY <1>1, <1>7, <1>8, <1>9, <1>10, <1>11, <1>12, JobMoves

LEMMA ManualStep ==
    ASSUME IInv, NEW w \in Workers, NEW id \in Receipts, NEW b \in Bills,
           NEW a \in 1..MaxCharge, Manual(w, id, b, a)
    PROVE  IInv'
PROOF
<1> DEFINE j == [op |-> "manual", id |-> id, pc |-> "record", todo |-> {},
                 bill |-> b, seen |-> bills[b], amount |-> a]
<1>1. /\ worker[w] = Idle /\ UNCHANGED <<today, bills, ledger, session, event>>
      /\ ~Recorded(id)
      /\ \A v \in Workers : worker[v] # Idle => worker[v].id # id
      /\ Acceptable(a, bills[b])
      /\ worker' = [worker EXCEPT ![w] = j]
  BY DEF Manual
<1>2. bills[b] \in Bill /\ a \in 0..MaxCharge /\ 1 <= a
  BY BillTypes, MaxChargeType
<1>3. j \in Job
  BY <1>2 DEF Job
<1>4. /\ j.op = "manual" /\ j.id = id /\ j.pc = "record" /\ j.seen = bills[b]
      /\ j.bill = b /\ j.amount = a
  OBVIOUS
<1>. HIDE DEF j
<1>5. JobInv(j)
  BY <1>1, <1>2, <1>4 DEF JobInv, IInv, Backed, Acceptable
<1>6. ~InCredit(w)
  BY <1>1, KindsApart DEF InCredit
<1>7. \A v \in Workers \ {w} : worker[v] \in Job => worker[v].id # j.id
  BY <1>1, <1>4, KindsApart
<1>8. event' \in [Payments -> {"none", "processing", "processed", "failed"}]
  BY <1>1 DEF IInv, TypeOK
<1>9. j.pc # "credit" /\ j \in {Idle} \cup Job
  BY <1>3, <1>4
<1>. QED BY <1>1, <1>5, <1>6, <1>7, <1>8, <1>9, JobMoves

\* A worker that settles a PayMongo payment.
LEMMA Settling ==
    ASSUME IInv, NEW w \in Workers, worker[w].op \in {"webhook", "poll"}
    PROVE  /\ worker[w] \in Job /\ JobInv(worker[w])
           /\ worker[w].id \in Payments /\ worker[w].op # "manual"
           /\ \A v \in Workers \ {w} :
                 worker[v] \in Job /\ worker[v].id = worker[w].id =>
                    worker[v].op # "manual"
PROOF
<1>1. worker[w] \in Job
  BY InvParts, KindsApart DEF Idle
<1>2. JobInv(worker[w]) /\ worker[w].op # "manual"
  BY <1>1, InvParts
<1>3. worker[w].id \in Payments
  BY <1>2 DEF JobInv
<1>4. WorkerInv
  BY DEF IInv
<1>. QED BY <1>1, <1>2, <1>3, <1>4, NoManualBeside

\* A worker that is about to record or to credit something.
LEMMA Booking ==
    ASSUME IInv, NEW w \in Workers, worker[w] # Idle,
           worker[w].pc \in {"record", "credit", "mark"}
    PROVE  worker[w] \in Job /\ JobInv(worker[w])
PROOF
BY InvParts, KindsApart

LEMMA ReadStep ==
    ASSUME IInv, NEW w \in Workers, NEW b \in Bills, Read(w, b) PROVE IInv'
PROOF
<1>0. PICK j : j = worker[w]
  OBVIOUS
<1> DEFINE n == [j EXCEPT !.todo = @ \ {b}, !.bill = b, !.seen = bills[b],
                          !.amount = Applied(j, bills[b]),
                          !.pc = IF Applied(j, bills[b]) = 0 THEN "read"
                                 ELSE "find"]
<1>1. /\ j.op \in {"webhook", "poll"} /\ j.pc = "read"
      /\ worker' = [worker EXCEPT ![w] = n]
      /\ UNCHANGED <<today, bills, ledger, session, event>>
  BY <1>0 DEF Read
<1>2. /\ j \in Job /\ j.id \in Payments /\ JobInv(j)
      /\ \A v \in Workers \ {w} :
            worker[v] \in Job /\ worker[v].id = j.id =>
               worker[v].op # "manual"
  BY <1>0, <1>1, Settling
<1>3. bills[b] \in Bill /\ session[j.id].amount \in Nat
  BY <1>2, BillTypes DEF Session
<1>4. Applied(j, bills[b]) \in 0..MaxCharge
      /\ Applied(j, bills[b]) <= Balance(bills[b])
  BY <1>3, AppliedIs
<1>5. PICK a \in 0..MaxCharge : a = Applied(j, bills[b])
  BY <1>4
<1>6. PICK d \in Bill : d = bills[b]
  BY <1>3
<1>7. n = [j EXCEPT !.todo = @ \ {b}, !.bill = b, !.seen = d,
                    !.amount = a, !.pc = IF a = 0 THEN "read" ELSE "find"]
  BY <1>5, <1>6
<1>. HIDE DEF n
<1>8. n \in Job
  BY <1>2, <1>7 DEF Job
<1>9. /\ n.op = j.op /\ n.id = j.id /\ n.bill = b /\ n.seen = d /\ n.amount = a
      /\ n.pc = IF a = 0 THEN "read" ELSE "find"
  BY <1>2, <1>7 DEF Job
<1>10. JobInv(n)
  <2>1. d.paid <= Backing(b)
    BY <1>6 DEF IInv, Backed
  <2>2. n.pc \in {"find", "record", "credit"} => 1 <= a /\ a <= Balance(d)
    BY <1>4, <1>5, <1>6, <1>9, MaxChargeType
  <2>3. n.op # "manual" /\ n.pc # "credit"
    BY <1>1, <1>9
  <2>. QED BY <1>2, <1>9, <2>1, <2>2, <2>3 DEF JobInv
<1>11. ~InCredit(w) /\ n.pc # "credit" /\ n.op # "manual"
  BY <1>0, <1>1, <1>9 DEF InCredit
<1>12. event' \in [Payments -> {"none", "processing", "processed", "failed"}]
  BY <1>1 DEF IInv, TypeOK
<1>13. \A v \in Workers \ {w} : worker[v] \in Job /\ worker[v].id = n.id =>
          worker[v].op # "manual" /\ n.op # "manual"
  BY <1>2, <1>9, <1>11
<1>14. n \in {Idle} \cup Job
  BY <1>8
<1>. QED BY <1>1, <1>10, <1>11, <1>12, <1>13, <1>14, JobMoves

LEMMA DoneStep == ASSUME IInv, NEW w \in Workers, Done(w) PROVE IInv'
PROOF
<1>1. /\ worker[w].op \in {"webhook", "poll"} /\ worker[w].pc = "read"
      /\ Conclude(worker[w], "processed")
      /\ worker' = [worker EXCEPT ![w] = Idle]
      /\ UNCHANGED <<today, bills, ledger, session>>
  BY DEF Done, End
<1>2. event' \in [Payments -> {"none", "processing", "processed", "failed"}]
  <2>1. worker[w].id \in Payments
    BY <1>1, Settling
  <2>2. event \in [Payments -> {"none", "processing", "processed", "failed"}]
    BY DEF IInv, TypeOK
  <2>. QED BY <1>1, <2>1, <2>2, EventType DEF Conclude
<1>3. ~InCredit(w) /\ Idle \notin Job /\ Idle \in {Idle} \cup Job
  BY <1>1, KindsApart DEF InCredit
<1>. QED BY <1>1, <1>2, <1>3, JobMoves

\* A settlement that goes on with the same payment and bill.
LEMMA Goes ==
    ASSUME IInv, NEW w \in Workers, worker[w] \in Job,
           worker[w].op \in {"webhook", "poll"}, worker[w].pc # "credit",
           NEW pc \in {"read", "record"},
           pc = "record" => worker[w].pc = "find",
           Goto(w, pc), UNCHANGED <<today, bills, ledger, session, event>>
    PROVE  IInv'
PROOF
<1>0. PICK j : j = worker[w]
  OBVIOUS
<1> DEFINE n == [j EXCEPT !.pc = pc]
<1>1. worker' = [worker EXCEPT ![w] = n]
  BY <1>0, Zenon DEF Goto
<1>2. /\ j \in Job /\ j.id \in Payments /\ JobInv(j)
      /\ \A v \in Workers \ {w} :
            worker[v] \in Job /\ worker[v].id = j.id =>
               worker[v].op # "manual"
  BY <1>0, Settling
<1>3. /\ n \in Job /\ n.op = j.op /\ n.id = j.id /\ n.bill = j.bill
      /\ n.seen = j.seen /\ n.amount = j.amount /\ n.pc = pc
  BY <1>2 DEF Job
<1>. HIDE DEF n
<1>4. JobInv(n)
  BY <1>0, <1>2, <1>3 DEF JobInv
<1>5. ~InCredit(w) /\ n.pc # "credit" /\ n.op # "manual"
  BY <1>0, <1>3 DEF InCredit
<1>6. event' \in [Payments -> {"none", "processing", "processed", "failed"}]
  BY DEF IInv, TypeOK
<1>7. \A v \in Workers \ {w} : worker[v] \in Job /\ worker[v].id = n.id =>
          worker[v].op # "manual" /\ n.op # "manual"
  BY <1>2, <1>3, <1>5
<1>8. n \in {Idle} \cup Job
  BY <1>3
<1>9. UNCHANGED <<today, bills, ledger, session>>
  OBVIOUS
<1>. QED BY <1>1, <1>4, <1>5, <1>6, <1>7, <1>8, <1>9, JobMoves

LEMMA FindStep == ASSUME IInv, NEW w \in Workers, Find(w) PROVE IInv'
PROOF
<1>1. /\ worker[w].op \in {"webhook", "poll"} /\ worker[w].pc = "find"
      /\ Goto(w, AfterFind(worker[w].id))
      /\ UNCHANGED <<today, bills, ledger, session, event>>
  BY DEF Find
<1>2. AfterFind(worker[w].id) \in {"read", "record"}
  BY DEF AfterFind
<1>3. worker[w] \in Job
  BY <1>1, Settling
<1>. QED BY <1>1, <1>2, <1>3, Goes

LEMMA MarkStep == ASSUME IInv, NEW w \in Workers, Mark(w) PROVE IInv'
PROOF
<1>0. PICK j : j = worker[w]
  OBVIOUS
<1>1. /\ j # Idle /\ j.pc = "mark"
      /\ bills' = [bills EXCEPT ![j.bill] =
                     [bills[j.bill] EXCEPT !.payment = j.id]]
      /\ Goto(w, "read")
      /\ UNCHANGED <<today, ledger, session, event>>
  BY <1>0, Zenon DEF Mark
<1>2. j \in Job /\ JobInv(j) /\ j.op \in {"webhook", "poll"}
  BY <1>0, <1>1, Booking, KindsApart DEF JobInv
<1>3. /\ j.id \in Payments /\ j.bill \in Bills
      /\ \A v \in Workers \ {w} :
            worker[v] \in Job /\ worker[v].id = j.id =>
               worker[v].op # "manual"
  BY <1>0, <1>2, Settling DEF Job
<1> DEFINE d == [bills[j.bill] EXCEPT !.payment = j.id]
           n == [j EXCEPT !.pc = "read"]
<1>4. d \in Bill /\ d.paid = bills[j.bill].paid
  BY <1>3, BillTypes DEF Bill
<1>5. bills' = [bills EXCEPT ![j.bill] = d]
  BY <1>1
<1>6. worker' = [worker EXCEPT ![w] = n]
  BY <1>0, <1>1, Zenon DEF Goto
<1>7. /\ n \in Job /\ n.op = j.op /\ n.id = j.id /\ n.bill = j.bill
      /\ n.seen = j.seen /\ n.amount = j.amount /\ n.pc = "read"
  BY <1>2 DEF Job
<1>. HIDE DEF d, n
<1>8. bills' \in [Bills -> Bill]
      /\ \A c \in Bills : bills'[c].paid = bills[c].paid
  BY <1>4, <1>5, BillTypes
<1>9. TypeOK'
  BY <1>1, <1>6, <1>7, <1>8 DEF IInv, TypeOK
<1>10. JobInv(n)
  BY <1>2, <1>3, <1>7 DEF JobInv
<1>11. ~InCredit(w) /\ n.pc # "credit" /\ n.op # "manual" /\ n \notin Rewrite
  BY <1>0, <1>1, <1>2, <1>7, KindsApart DEF InCredit
<1>12. \A v \in Workers \ {w} : worker[v] \in Job /\ worker[v].id = n.id =>
          worker[v].op # "manual" /\ n.op # "manual"
  BY <1>3, <1>7, <1>11
<1>13. ledger' = ledger
  BY <1>1
<1>. QED BY <1>6, <1>8, <1>9, <1>10, <1>11, <1>12, <1>13, Moves

-----------------------------------------------------------------------------
(* Steps that write or credit an entry                                     *)

\* The bills stay backed when no bill gets money and no entry is unsettled.
LEMMA StillBacked ==
    ASSUME IInv, \A b \in Bills : bills'[b].paid = bills[b].paid,
           \A b \in Bills : Backing(b) <= Backing(b)' /\ Backing(b)' \in Nat
    PROVE  Backed'
PROOF
<1>1. ASSUME NEW b \in Bills PROVE bills'[b].paid <= Backing(b)'
  <2>1. bills[b].paid \in Nat
    BY BillTypes, BillFields
  <2>2. Backing(b) \in Nat
    BY BillTypes, BackingNat
  <2>3. bills[b].paid <= Backing(b)
    BY DEF IInv, Backed
  <2>. QED BY <2>1, <2>2, <2>3
<1>. QED BY <1>1 DEF Backed

LEMMA CrashStep == ASSUME IInv, NEW w \in Workers, Crash(w) PROVE IInv'
PROOF
<1>1. /\ worker' = [worker EXCEPT ![w] = Idle]
      /\ UNCHANGED <<today, bills, ledger, session, event>>
  BY DEF Crash, End
<1>2. TypeOK' /\ WorkerInv /\ TypeOK
  BY <1>1 DEF IInv, TypeOK
<1>3. LedgerInv'
  BY <1>1 DEF IInv, LedgerInv, OneEntryPerPayment
<1>4. \A v \in Workers : InCredit(v)' =>
         InCredit(v) /\ worker'[v] = worker[v]
  BY <1>1, <1>2, KindsApart DEF InCredit, TypeOK
<1>5. ASSUME NEW b \in Bills
      PROVE  /\ Backing(b) <= Backing(b)'
             /\ Backing(b) \in Nat /\ Backing(b)' \in Nat
  <2>1. Settled(b) \subseteq Settled(b)'
    <3>1. ASSUME NEW e \in Settled(b) PROVE e \in Settled(b)'
      <4>1. e \in ledger' /\ e.bill = b
        BY <1>1 DEF Settled
      <4>2. ~\E v \in Workers : InCredit(v) /\ e = Entry(worker[v])
        BY DEF Settled
      <4>3. ~\E v \in Workers : InCredit(v)' /\ e = Entry(worker'[v])
        BY <1>4, <4>2
      <4>. QED BY <4>1, <4>3 DEF Settled, Entry
    <3>. QED BY <3>1
  <2>2. (ledger \subseteq Payment)' /\ IsFiniteSet(ledger)'
    BY <1>2, <1>3 DEF TypeOK, LedgerInv
  <2>3. Backing(b) <= Backing(b)' /\ Backing(b)' \in Nat
    BY <2>1, <2>2, BackingGrows
  <2>. QED BY <2>3, BillTypes, BackingNat
<1>6. Backed'
  BY <1>1, <1>5, StillBacked
<1>7. ASSUME NEW v \in Workers \ {w}, worker[v] \in Job
      PROVE  /\ worker[v].op = "manual" /\ worker[v].pc = "record" =>
                   ~Recorded(worker[v].id)'
             /\ worker[v].pc = "credit" => Entry(worker[v]) \in ledger'
  <2>1. JobInv(worker[v])
    BY <1>7, InvParts
  <2>2. worker'[v] = worker[v]
    BY <1>1, <1>2 DEF TypeOK
  <2>. QED BY <1>1, <2>1, <2>2 DEF JobInv, Recorded
<1>8. Idle \notin Job /\ Idle \notin Rewrite
  BY KindsApart
<1>9. WorkerInv'
  BY <1>1, <1>2, <1>5, <1>7, <1>8, WorkersKeep
<1>. QED BY <1>2, <1>3, <1>6, <1>9 DEF IInv

\* An entry that is written while its bill is not credited.
LEMMA RecordRefused ==
    ASSUME IInv, NEW w \in Workers, Record(w), Refused(worker[w].id)
    PROVE  IInv'
PROOF
<1>1. /\ worker[w] # Idle /\ worker[w].pc = "record"
      /\ ConcludeFailed(worker[w])
      /\ worker' = [worker EXCEPT ![w] = Idle]
      /\ UNCHANGED <<today, bills, ledger, session>>
  BY DEF Record, End
<1>2. event' \in [Payments -> {"none", "processing", "processed", "failed"}]
  <2>1. worker[w].id \in Payments
    BY DEF Refused
  <2>2. event \in [Payments -> {"none", "processing", "processed", "failed"}]
    BY DEF IInv, TypeOK
  <2>. QED BY <1>1, <2>1, <2>2, EventType DEF ConcludeFailed, Conclude
<1>3. ~InCredit(w) /\ Idle \notin Job /\ Idle \in {Idle} \cup Job
  BY <1>1, KindsApart DEF InCredit
<1>. QED BY <1>1, <1>2, <1>3, JobMoves

\* What a worker that records knows and does.
LEMMA Recording ==
    ASSUME IInv, NEW w \in Workers, Record(w), ~Refused(worker[w].id)
    PROVE  LET j == worker[w]
               n == [j EXCEPT !.pc = "credit"]
           IN  /\ j \in Job /\ JobInv(j) /\ j.pc = "record"
               /\ n \in Job /\ n.pc = "credit" /\ n.op = j.op /\ n.id = j.id
               /\ n.bill = j.bill /\ n.seen = j.seen /\ n.amount = j.amount
               /\ Entry(n) = Entry(j) /\ Entry(j) \in Payment
               /\ Entry(j).id = j.id /\ Entry(j).bill = j.bill
               /\ Entry(j).amount = j.amount
               /\ ~Recorded(j.id) /\ Entry(j) \notin ledger
               /\ ledger' = ledger \cup {Entry(j)}
               /\ worker' = [worker EXCEPT ![w] = n]
               /\ UNCHANGED <<today, bills, session, event>>
PROOF
<1>0. PICK j : j = worker[w]
  OBVIOUS
<1> DEFINE n == [j EXCEPT !.pc = "credit"]
<1>1. /\ j # Idle /\ j.pc = "record"
      /\ ledger' = ledger \cup {Entry(j)}
      /\ Goto(w, "credit")
      /\ UNCHANGED <<today, bills, session, event>>
  BY <1>0 DEF Record
<1>2. worker' = [worker EXCEPT ![w] = n]
  BY <1>0, <1>1, Zenon DEF Goto
<1>3. j \in Job /\ JobInv(j)
  BY <1>0, <1>1, Booking
<1>4. /\ n \in Job /\ n.pc = "credit" /\ n.op = j.op /\ n.id = j.id
      /\ n.bill = j.bill /\ n.seen = j.seen /\ n.amount = j.amount
  BY <1>3 DEF Job
<1>. HIDE DEF n
<1>5. Entry(n) = Entry(j) /\ Entry(j).id = j.id /\ Entry(j).bill = j.bill
      /\ Entry(j).amount = j.amount
  BY <1>4 DEF Entry
<1>6. Entry(j) \in Payment
  <2>1. j.amount \in 0..MaxCharge /\ 1 <= j.amount
    BY <1>1, <1>3 DEF Job, JobInv
  <2>2. j.amount \in 1..MaxCharge
    BY <2>1, MaxChargeType
  <2>3. j.id \in Payments \cup Receipts /\ j.bill \in Bills
    BY <1>3 DEF Job
  <2>. QED BY <2>2, <2>3 DEF Entry, Payment
<1>7. ~Recorded(j.id)
  BY <1>0, <1>1, <1>3 DEF JobInv, Refused
<1>8. Entry(j) \notin ledger
  BY <1>5, <1>7 DEF Recorded
<1>. QED BY <1>0, <1>1, <1>2, <1>3, <1>4, <1>5, <1>6, <1>7, <1>8 DEF n

\* The entry it writes is not settled yet.
LEMMA RecordSettles ==
    ASSUME IInv, NEW w \in Workers, Record(w), ~Refused(worker[w].id), NEW b
    PROVE  Settled(b)' = Settled(b)
PROOF
<1>0. PICK j : j = worker[w]
  OBVIOUS
<1>1. PICK n : n = [j EXCEPT !.pc = "credit"]
  OBVIOUS
<1>2. /\ j \in Job /\ j.pc = "record" /\ n \in Job /\ n.pc = "credit"
      /\ Entry(n) = Entry(j) /\ Entry(j) \notin ledger
      /\ ledger' = ledger \cup {Entry(j)}
      /\ worker' = [worker EXCEPT ![w] = n]
  BY <1>0, <1>1, Recording
<1>3. \A v \in Workers : worker'[v] = IF v = w THEN n ELSE worker[v]
  BY <1>2 DEF IInv, TypeOK
<1>4. \A v \in Workers : InCredit(v)' = (v = w \/ InCredit(v))
  BY <1>2, <1>3 DEF InCredit
<1>5. ~InCredit(w)
  BY <1>0, <1>2 DEF InCredit
<1>6. ASSUME NEW e
      PROVE  e \in Settled(b)' <=> e \in Settled(b)
  <2>1. e \in Settled(b)' <=>
          /\ e \in ledger' /\ e.bill = b
          /\ ~\E v \in Workers : InCredit(v)' /\ e = Entry(worker'[v])
    BY DEF Settled, Entry
  <2>2. (\E v \in Workers : InCredit(v)' /\ e = Entry(worker'[v])) <=>
          (e = Entry(j) \/ \E v \in Workers : InCredit(v) /\ e = Entry(worker[v]))
    BY <1>2, <1>3, <1>4, <1>5
  <2>. QED BY <1>2, <2>1, <2>2 DEF Settled
<1>. QED BY <1>6

LEMMA RecordStep == ASSUME IInv, NEW w \in Workers, Record(w) PROVE IInv'
PROOF
<1>1. CASE Refused(worker[w].id)
  BY <1>1, RecordRefused
<1>2. CASE ~Refused(worker[w].id)
  <2>0. PICK j : j = worker[w]
    OBVIOUS
  <2>1. PICK n : n = [j EXCEPT !.pc = "credit"]
    OBVIOUS
  <2>2. /\ j \in Job /\ JobInv(j) /\ j.pc = "record"
        /\ n \in Job /\ n.pc = "credit" /\ n.op = j.op /\ n.id = j.id
        /\ n.bill = j.bill /\ n.seen = j.seen /\ n.amount = j.amount
        /\ Entry(n) = Entry(j) /\ Entry(j) \in Payment
        /\ Entry(j).id = j.id
        /\ ~Recorded(j.id) /\ Entry(j) \notin ledger
        /\ ledger' = ledger \cup {Entry(j)}
        /\ worker' = [worker EXCEPT ![w] = n]
        /\ UNCHANGED <<today, bills, session, event>>
    BY <1>2, <2>0, <2>1, Recording
  <2>3. TypeOK' /\ TypeOK /\ WorkerInv
    BY <2>2 DEF IInv, TypeOK
  <2>4. LedgerInv'
    <3>1. IsFiniteSet(ledger')
      BY <2>2, FS_AddElement DEF IInv, LedgerInv
    <3>2. \A d, e \in ledger' : d.id = e.id => d = e
      BY <2>2 DEF IInv, LedgerInv, OneEntryPerPayment, Recorded
    <3>. QED BY <3>1, <3>2 DEF LedgerInv, OneEntryPerPayment
  <2>5. \A b : Backing(b)' = Backing(b) /\ Backing(b) \in Nat
    BY <1>2, RecordSettles, BillTypes, BackingNat DEF Backing
  <2>6. Backed'
    BY <2>2, <2>5 DEF IInv, Backed
  <2>7. ASSUME NEW v \in Workers \ {w}, worker[v] \in Job
        PROVE  /\ worker[v].op = "manual" /\ worker[v].pc = "record" =>
                     ~Recorded(worker[v].id)'
               /\ worker[v].pc = "credit" => Entry(worker[v]) \in ledger'
               /\ n \in Job /\ n.id = worker[v].id =>
                     /\ worker[v].op # "manual" /\ n.op # "manual"
                     /\ ~(InCredit(v) /\ n.pc = "credit")
    <3>1. JobInv(worker[v]) /\ worker'[v] = worker[v]
      BY <2>2, <2>3, <2>7, InvParts DEF TypeOK
    <3>2. worker[v].id = j.id => worker[v].op # "manual" /\ j.op # "manual"
      BY <2>0, <2>2, <2>3, <2>7 DEF WorkerInv, Rivals
    <3>3. worker[v].pc = "credit" => Recorded(worker[v].id)
      BY <3>1 DEF JobInv, Recorded, Entry
    <3>4. worker[v].op = "manual" /\ worker[v].pc = "record" =>
             ~Recorded(worker[v].id)'
      <4>1. SUFFICES ASSUME worker[v].op = "manual", worker[v].pc = "record"
                     PROVE  ~Recorded(worker[v].id)'
        OBVIOUS
      <4>2. ~Recorded(worker[v].id) /\ worker[v].id # j.id
        BY <3>1, <3>2, <4>1 DEF JobInv
      <4>. QED BY <2>2, <3>1, <4>2 DEF Recorded
    <3>. QED BY <2>2, <3>1, <3>2, <3>3, <3>4 DEF JobInv, InCredit
  <2>8. JobInv(n)'
    <3>1. n.seen.paid <= Backing(n.bill)'
      BY <2>2, <2>5 DEF JobInv
    <3>. QED BY <2>2, <3>1 DEF JobInv
  <2>9. n \notin Rewrite
    BY <2>2, KindsApart
  <2>10. \A b \in Bills : Backing(b) \in Nat /\ Backing(b)' \in Nat
                          /\ Backing(b) <= Backing(b)'
    BY <2>5
  <2>11. WorkerInv'
    BY <2>2, <2>3, <2>7, <2>8, <2>9, <2>10, WorkersKeep
  <2>. QED BY <2>3, <2>4, <2>6, <2>11 DEF IInv
<1>. QED BY <1>1, <1>2

\* The bill that a worker read, with the payment it books.
LEMMA WithPaymentIs ==
    ASSUME NEW j \in Job, today \in Nat, 1 <= j.amount,
           j.amount <= Balance(j.seen)
    PROVE  /\ j.seen \in Bill /\ WithPayment(j) \in Bill
           /\ WithPayment(j).paid = j.seen.paid + j.amount
           /\ WithPayment(j).paid # j.seen.paid
           /\ WithPayment(j).paid <= Charged(j.seen)
           /\ WithPayment(j).penalty = j.seen.penalty
           /\ j.seen.status = "voided" => WithPayment(j).status = "voided"
           /\ j.seen.status # "voided" =>
                 /\ WithPayment(j).status # "voided"
                 /\ (WithPayment(j).status = "paid")
                       = (Balance(WithPayment(j)) = 0)
PROOF
<1>1. j.seen \in Bill /\ j.amount \in 0..MaxCharge
  BY DEF Job
<1>2. PICK d \in Bill : d = j.seen
  BY <1>1
<1>3. PICK a \in 0..MaxCharge : a = j.amount
  BY <1>1
<1>4. /\ d.paid \in Nat /\ Charged(d) \in Nat /\ Charged(d) <= MaxCharge
      /\ MaxCharge \in Nat
  BY BillFields, MaxChargeType
<1>5. Balance(d) = IF Charged(d) >= d.paid THEN Charged(d) - d.paid ELSE 0
  BY BalanceIs
<1>6. 1 <= a /\ d.paid + a <= Charged(d)
  BY <1>2, <1>3, <1>4, <1>5
<1> DEFINE c == [d EXCEPT !.paid = @ + a]
<1>7. d.paid + a \in 0..MaxCharge
  BY <1>3, <1>4, <1>6
<1>8. /\ c \in Bill /\ c.paid = d.paid + a /\ c.penalty = d.penalty
      /\ c.status = d.status
  BY <1>7 DEF Bill
<1>9. WithPayment(j) = Synced(c)
  BY <1>2, <1>3 DEF WithPayment
<1>. HIDE DEF c
<1>10. /\ Synced(c) \in Bill /\ Synced(c).paid = c.paid
       /\ Synced(c).penalty = c.penalty /\ Balance(Synced(c)) = Balance(c)
       /\ c.status = "voided" => Synced(c).status = "voided"
       /\ c.status # "voided" => Synced(c).status = Resolved(c)
  BY <1>8, SyncedIs
<1>11. Resolved(c) # "voided" /\ (Resolved(c) = "paid") = (Balance(c) = 0)
  BY <1>8, ResolvedIs
<1>12. /\ j.seen.paid = d.paid /\ j.seen.penalty = d.penalty
       /\ Charged(j.seen) = Charged(d) /\ j.seen.status = d.status
       /\ j.amount = a
  BY <1>2, <1>3
<1>13. d.paid + a # d.paid
  BY <1>3, <1>4, <1>6
<1>14. d.status # "voided" =>
           /\ Synced(c).status # "voided"
           /\ (Synced(c).status = "paid") = (Balance(Synced(c)) = 0)
  BY <1>8, <1>10, <1>11
<1>. QED BY <1>1, <1>6, <1>8, <1>9, <1>10, <1>12, <1>13, <1>14

\* What a worker that credits knows and does.
LEMMA Crediting ==
    ASSUME IInv, NEW w \in Workers, Credit(w)
    PROVE  LET j == worker[w]
               s == Saved(j.bill, j.seen, WithPayment(j))
               n == IF j.op = "manual" THEN Idle ELSE [j EXCEPT !.pc = "mark"]
           IN  /\ j \in Job /\ JobInv(j) /\ j.pc = "credit"
               /\ 1 <= j.amount /\ j.amount <= Balance(j.seen)
               /\ j.bill \in Bills /\ Entry(j) \in ledger
               /\ s \in Bill /\ s.paid = j.seen.paid + j.amount
               /\ n \in {Idle} \cup Job
               /\ n # Idle => /\ n.op = j.op /\ n.op # "manual" /\ n.id = j.id
                              /\ n.id \in Payments /\ n.pc = "mark"
                              /\ n.bill = j.bill /\ n.seen = j.seen
               /\ bills' = [bills EXCEPT ![j.bill] = s]
               /\ worker' = [worker EXCEPT ![w] = n]
               /\ UNCHANGED <<today, ledger, session, event>>
PROOF
<1>0. PICK j : j = worker[w]
  OBVIOUS
<1> DEFINE s == Saved(j.bill, j.seen, WithPayment(j))
           m == [j EXCEPT !.pc = "mark"]
           n == IF j.op = "manual" THEN Idle ELSE m
<1>1. /\ j # Idle /\ j.pc = "credit"
      /\ bills' = [bills EXCEPT ![j.bill] = s]
      /\ IF j.op = "manual" THEN End(w) ELSE Goto(w, "mark")
      /\ UNCHANGED <<today, ledger, session, event>>
  BY <1>0 DEF Credit
<1>2. worker' = [worker EXCEPT ![w] = n]
  <2>1. CASE j.op = "manual"
    BY <1>1, <2>1 DEF End
  <2>2. CASE j.op # "manual"
    <3>1. worker' = [worker EXCEPT ![w] = m]
      BY <1>0, <1>1, <2>2, Zenon DEF Goto
    <3>. QED BY <2>2, <3>1
  <2>. QED BY <2>1, <2>2
<1>3. j \in Job /\ JobInv(j)
  BY <1>0, <1>1, Booking
<1>4. 1 <= j.amount /\ j.amount <= Balance(j.seen) /\ Entry(j) \in ledger
  BY <1>1, <1>3 DEF JobInv
<1>5. j.bill \in Bills
  BY <1>3 DEF Job
<1>6. s \in Bill /\ s.paid = j.seen.paid + j.amount
  BY <1>3, <1>4, <1>5, WithPaymentIs, BillTypes, SavedIs
<1>7. /\ m \in Job /\ m.op = j.op /\ m.id = j.id /\ m.bill = j.bill
      /\ m.seen = j.seen /\ m.pc = "mark"
  BY <1>3 DEF Job
<1>8. j.op # "manual" => j.id \in Payments
  BY <1>3 DEF JobInv
<1>. HIDE DEF s, m
<1>9. /\ n \in {Idle} \cup Job
      /\ n # Idle => /\ n.op = j.op /\ n.op # "manual" /\ n.id = j.id
                     /\ n.id \in Payments /\ n.pc = "mark"
                     /\ n.bill = j.bill /\ n.seen = j.seen
  BY <1>7, <1>8
<1>. QED BY <1>0, <1>1, <1>2, <1>3, <1>4, <1>5, <1>6, <1>9 DEF s, m

\* The entry it credits is settled from now on, and no other one.
LEMMA CreditSettles ==
    ASSUME IInv, NEW w \in Workers, Credit(w), NEW b
    PROVE  LET e == Entry(worker[w])
           IN  /\ e \in ledger /\ e \notin Settled(b)
               /\ Settled(b)' = IF e.bill = b THEN Settled(b) \cup {e}
                                ELSE Settled(b)
PROOF
<1>0. PICK j : j = worker[w]
  OBVIOUS
<1>1. PICK n : n = IF j.op = "manual" THEN Idle ELSE [j EXCEPT !.pc = "mark"]
  OBVIOUS
<1>2. /\ j \in Job /\ j.pc = "credit" /\ Entry(j) \in ledger
      /\ n \in {Idle} \cup Job
      /\ n # Idle => n.pc = "mark"
      /\ worker' = [worker EXCEPT ![w] = n]
      /\ ledger' = ledger
  BY <1>0, <1>1, Crediting
<1>3. \A v \in Workers : worker'[v] = IF v = w THEN n ELSE worker[v]
  BY <1>2 DEF IInv, TypeOK
<1>4. \A v \in Workers : InCredit(v)' = (v # w /\ InCredit(v))
  BY <1>2, <1>3, KindsApart DEF InCredit
<1>5. InCredit(w)
  BY <1>0, <1>2 DEF InCredit
<1>6. \A v \in Workers \ {w} : InCredit(v) => Entry(worker[v]) # Entry(j)
  <2>1. ASSUME NEW v \in Workers \ {w}, InCredit(v),
               Entry(worker[v]) = Entry(j)
        PROVE  FALSE
    <3>1. worker[v].id = worker[w].id
      BY <1>0, <2>1 DEF Entry
    <3>2. Rivals(v, w)
      BY <1>5, <2>1, <3>1 DEF Rivals, InCredit
    <3>. QED BY <3>2 DEF IInv, WorkerInv
  <2>. QED BY <2>1
<1>7. Entry(j) \notin Settled(b)
  BY <1>0, <1>5 DEF Settled
<1>8. ASSUME NEW e
      PROVE  e \in Settled(b)' <=>
               (e \in Settled(b) \/ (e = Entry(j) /\ e.bill = b))
  <2>1. e \in Settled(b)' <=>
          /\ e \in ledger' /\ e.bill = b
          /\ ~\E v \in Workers : InCredit(v)' /\ e = Entry(worker'[v])
    BY DEF Settled, Entry
  <2>2. (\E v \in Workers : InCredit(v)' /\ e = Entry(worker'[v])) <=>
          (e # Entry(j) /\ \E v \in Workers : InCredit(v) /\ e = Entry(worker[v]))
    BY <1>0, <1>3, <1>4, <1>5, <1>6
  <2>. QED BY <1>0, <1>2, <1>5, <2>1, <2>2 DEF Settled
<1>9. Settled(b)' = IF Entry(j).bill = b THEN Settled(b) \cup {Entry(j)}
                    ELSE Settled(b)
  BY <1>8
<1>. QED BY <1>0, <1>2, <1>7, <1>9

LEMMA CreditBacks ==
    ASSUME IInv, NEW w \in Workers, Credit(w), NEW b
    PROVE  /\ Backing(b) \in Nat
           /\ b = worker[w].bill => Backing(b)' = Backing(b) + worker[w].amount
           /\ b # worker[w].bill => Backing(b)' = Backing(b)
PROOF
<1>0. PICK j : j = worker[w]
  OBVIOUS
<1>1. Entry(j).bill = j.bill /\ Entry(j).amount = j.amount
  BY DEF Entry
<1>2. /\ Entry(j) \in Payment /\ Entry(j) \notin Settled(b)
      /\ Settled(b)' = IF Entry(j).bill = b THEN Settled(b) \cup {Entry(j)}
                       ELSE Settled(b)
  BY <1>0, CreditSettles, BillTypes
<1>3. Backing(b) \in Nat
  BY BillTypes, BackingNat
<1>4. CASE b = j.bill
  <2>1. Settled(b)' = Settled(b) \cup {Entry(j)}
    BY <1>1, <1>2, <1>4
  <2>2. Backing(b)' = Backing(b) + Entry(j).amount
    BY <1>2, <2>1, BillTypes, BackingAdds
  <2>. QED BY <1>0, <1>1, <1>3, <1>4, <2>2
<1>5. CASE b # j.bill
  <2>1. Settled(b)' = Settled(b)
    BY <1>1, <1>2, <1>5
  <2>. QED BY <1>0, <1>3, <1>5, <2>1 DEF Backing
<1>. QED BY <1>4, <1>5

LEMMA CreditStep == ASSUME IInv, NEW w \in Workers, Credit(w) PROVE IInv'
PROOF
<1>0. PICK j : j = worker[w]
  OBVIOUS
<1>1. PICK s : s = Saved(j.bill, j.seen, WithPayment(j))
  OBVIOUS
<1>2. PICK n : n = IF j.op = "manual" THEN Idle ELSE [j EXCEPT !.pc = "mark"]
  OBVIOUS
<1>3. /\ j \in Job /\ JobInv(j) /\ j.pc = "credit"
      /\ 1 <= j.amount
      /\ j.bill \in Bills /\ Entry(j) \in ledger
      /\ s \in Bill /\ s.paid = j.seen.paid + j.amount
      /\ n \in {Idle} \cup Job
      /\ n # Idle => /\ n.op = j.op /\ n.op # "manual" /\ n.id = j.id
                     /\ n.id \in Payments /\ n.pc = "mark"
                     /\ n.bill = j.bill /\ n.seen = j.seen
      /\ bills' = [bills EXCEPT ![j.bill] = s]
      /\ worker' = [worker EXCEPT ![w] = n]
      /\ UNCHANGED <<today, ledger, session, event>>
  BY <1>0, <1>1, <1>2, Crediting
<1>4. j.seen.paid \in Nat /\ j.amount \in Nat
  <2>1. j.seen \in Bill /\ j.amount \in 0..MaxCharge
    BY <1>3 DEF Job
  <2>. QED BY <2>1, BillFields, MaxChargeType
<1>5. bills' \in [Bills -> Bill]
  BY <1>3, BillTypes
<1>6. TypeOK' /\ TypeOK /\ WorkerInv
  BY <1>3, <1>5 DEF IInv, TypeOK
<1>7. LedgerInv'
  BY <1>3 DEF IInv, LedgerInv, OneEntryPerPayment
<1>8. \A b : /\ Backing(b) \in Nat
             /\ b = j.bill => Backing(b)' = Backing(b) + j.amount
             /\ b # j.bill => Backing(b)' = Backing(b)
  BY <1>0, CreditBacks
<1>9. \A b \in Bills : Backing(b) \in Nat /\ Backing(b)' \in Nat
                       /\ Backing(b) <= Backing(b)'
  <2>1. ASSUME NEW b \in Bills
        PROVE Backing(b)' \in Nat /\ Backing(b) <= Backing(b)'
    BY <1>4, <1>8
  <2>. QED BY <1>8, <2>1
<1>10. j.seen.paid <= Backing(j.bill)
  BY <1>3 DEF JobInv
<1>11. Backed'
  <2>1. ASSUME NEW b \in Bills PROVE bills'[b].paid <= Backing(b)'
    <3>1. CASE b = j.bill
      <4>1. bills'[b].paid = j.seen.paid + j.amount
        BY <1>3, <3>1, BillTypes
      <4>2. Backing(b)' = Backing(b) + j.amount /\ Backing(b) \in Nat
            /\ j.seen.paid <= Backing(b)
        BY <1>8, <1>10, <3>1
      <4>. QED BY <1>4, <4>1, <4>2
    <3>2. CASE b # j.bill
      <4>1. bills'[b] = bills[b]
        BY <1>3, <3>2, BillTypes
      <4>2. Backing(b)' = Backing(b)
        BY <1>8, <3>2
      <4>. QED BY <4>1, <4>2 DEF IInv, Backed
    <3>. QED BY <3>1, <3>2
  <2>. QED BY <2>1 DEF Backed
<1>12. ASSUME NEW v \in Workers \ {w}, worker[v] \in Job
       PROVE  /\ worker[v].op = "manual" /\ worker[v].pc = "record" =>
                    ~Recorded(worker[v].id)'
              /\ worker[v].pc = "credit" => Entry(worker[v]) \in ledger'
              /\ n \in Job /\ n.id = worker[v].id =>
                    /\ worker[v].op # "manual" /\ n.op # "manual"
                    /\ ~(InCredit(v) /\ n.pc = "credit")
  <2>1. JobInv(worker[v]) /\ worker'[v] = worker[v]
    BY <1>3, <1>6, <1>12, InvParts DEF TypeOK
  <2>2. n \in Job => n # Idle
    BY KindsApart
  <2>3. worker[v].id = j.id => worker[v].op # "manual"
    BY <1>0, <1>3, <1>6, <1>12 DEF WorkerInv, Rivals
  <2>. QED BY <1>3, <2>1, <2>2, <2>3 DEF JobInv, Recorded
<1>13. n \in Job => JobInv(n)'
  <2>1. SUFFICES ASSUME n \in Job PROVE JobInv(n)'
    OBVIOUS
  <2>2. n # Idle
    BY <2>1, KindsApart
  <2>3. n.seen.paid <= Backing(n.bill)'
    <3>1. n.seen.paid = j.seen.paid /\ n.bill = j.bill
      BY <1>3, <2>2
    <3>2. Backing(j.bill) \in Nat /\ Backing(j.bill)' = Backing(j.bill) + j.amount
      BY <1>8
    <3>. QED BY <1>4, <1>10, <3>1, <3>2
  <2>. QED BY <1>3, <2>2, <2>3 DEF JobInv
<1>14. n \notin Rewrite
  BY <1>3, KindsApart
<1>15. WorkerInv'
  BY <1>3, <1>6, <1>9, <1>12, <1>13, <1>14, WorkersKeep
<1>. QED BY <1>6, <1>7, <1>11, <1>15 DEF IInv

\* What a worker that cannot save its bill knows and does.
LEMMA Failing ==
    ASSUME IInv, NEW w \in Workers, CreditFails(w)
    PROVE  /\ worker[w] \in Job /\ JobInv(worker[w]) /\ InCredit(w)
           /\ ledger' = ledger \ {Entry(worker[w])}
           /\ worker' = [worker EXCEPT ![w] = Idle]
           /\ event' \in [Payments ->
                            {"none", "processing", "processed", "failed"}]
           /\ UNCHANGED <<today, bills, session>>
PROOF
<1>1. /\ worker[w] # Idle /\ worker[w].pc = "credit"
      /\ ledger' = ledger \ {Entry(worker[w])}
      /\ ConcludeFailed(worker[w])
      /\ worker' = [worker EXCEPT ![w] = Idle]
      /\ UNCHANGED <<today, bills, session>>
  BY DEF CreditFails, Rollback, End
<1>2. worker[w] \in Job /\ JobInv(worker[w]) /\ InCredit(w)
  BY <1>1, Booking DEF InCredit
<1>3. event' \in [Payments -> {"none", "processing", "processed", "failed"}]
  <2>1. event \in [Payments -> {"none", "processing", "processed", "failed"}]
    BY DEF IInv, TypeOK
  <2>2. worker[w].op = "webhook" => worker[w].id \in Payments
    BY <1>2 DEF JobInv
  <2>. QED BY <1>1, <2>1, <2>2, EventType DEF ConcludeFailed, Conclude
<1>. QED BY <1>1, <1>2, <1>3

\* The entry it takes back was not settled.
LEMMA FailSettles ==
    ASSUME IInv, NEW w \in Workers, CreditFails(w), NEW b
    PROVE  Settled(b)' = Settled(b)
PROOF
<1>0. PICK j : j = worker[w]
  OBVIOUS
<1>1. /\ InCredit(w) /\ ledger' = ledger \ {Entry(j)}
      /\ worker' = [worker EXCEPT ![w] = Idle]
  BY <1>0, Failing
<1>2. \A v \in Workers : worker'[v] = IF v = w THEN Idle ELSE worker[v]
  BY <1>1 DEF IInv, TypeOK
<1>3. \A v \in Workers : InCredit(v)' = (v # w /\ InCredit(v))
  BY <1>1, <1>2, KindsApart DEF InCredit
<1>4. ASSUME NEW e
      PROVE  e \in Settled(b)' <=> e \in Settled(b)
  <2>1. e \in Settled(b)' <=>
          /\ e \in ledger' /\ e.bill = b
          /\ ~\E v \in Workers : InCredit(v)' /\ e = Entry(worker'[v])
    BY DEF Settled, Entry
  <2>2. e # Entry(j) =>
          ((\E v \in Workers : InCredit(v)' /\ e = Entry(worker'[v])) <=>
           (\E v \in Workers : InCredit(v) /\ e = Entry(worker[v])))
    BY <1>0, <1>2, <1>3
  <2>. QED BY <1>0, <1>1, <2>1, <2>2 DEF Settled
<1>. QED BY <1>4

LEMMA CreditFailsStep ==
    ASSUME IInv, NEW w \in Workers, CreditFails(w) PROVE IInv'
PROOF
<1>0. PICK j : j = worker[w]
  OBVIOUS
<1>1. /\ j \in Job /\ JobInv(j) /\ InCredit(w)
      /\ ledger' = ledger \ {Entry(j)}
      /\ worker' = [worker EXCEPT ![w] = Idle]
      /\ event' \in [Payments -> {"none", "processing", "processed", "failed"}]
      /\ UNCHANGED <<today, bills, session>>
  BY <1>0, Failing
<1>2. TypeOK' /\ TypeOK /\ WorkerInv
  BY <1>1 DEF IInv, TypeOK
<1>3. LedgerInv'
  <2>1. IsFiniteSet(ledger') /\ ledger' \subseteq ledger
    BY <1>1, BillTypes, FS_Subset
  <2>2. \A d, e \in ledger' : d.id = e.id => d = e
    BY <2>1 DEF IInv, LedgerInv, OneEntryPerPayment
  <2>. QED BY <2>1, <2>2 DEF LedgerInv, OneEntryPerPayment
<1>4. \A b : Backing(b)' = Backing(b) /\ Backing(b) \in Nat
  BY FailSettles, BillTypes, BackingNat DEF Backing
<1>5. Backed'
  BY <1>1, <1>4 DEF IInv, Backed
<1>6. ASSUME NEW v \in Workers \ {w}, worker[v] \in Job
      PROVE  /\ worker[v].op = "manual" /\ worker[v].pc = "record" =>
                   ~Recorded(worker[v].id)'
             /\ worker[v].pc = "credit" => Entry(worker[v]) \in ledger'
  <2>1. JobInv(worker[v]) /\ worker'[v] = worker[v]
    BY <1>1, <1>2, <1>6, InvParts DEF TypeOK
  <2>2. worker[v].pc = "credit" => Entry(worker[v]) # Entry(j)
    <3>1. SUFFICES ASSUME worker[v].pc = "credit", Entry(worker[v]) = Entry(j)
                   PROVE  FALSE
      OBVIOUS
    <3>2. worker[v].id = worker[w].id /\ InCredit(v)
      BY <1>0, <1>6, <3>1 DEF Entry, InCredit
    <3>3. Rivals(v, w)
      BY <1>0, <1>1, <1>6, <3>2 DEF Rivals
    <3>. QED BY <1>2, <3>3 DEF WorkerInv
  <2>. QED BY <1>1, <2>1, <2>2 DEF JobInv, Recorded
<1>7. Idle \notin Job /\ Idle \notin Rewrite
  BY KindsApart
<1>8. \A b \in Bills : Backing(b) \in Nat /\ Backing(b)' \in Nat
                       /\ Backing(b) <= Backing(b)'
  BY <1>4
<1>9. WorkerInv'
  BY <1>1, <1>2, <1>6, <1>7, <1>8, WorkersKeep
<1>. QED BY <1>2, <1>3, <1>5, <1>9 DEF IInv

LEMMA StutterStep == ASSUME IInv, UNCHANGED vars PROVE IInv'
PROOF
<1>1. TypeOK' /\ worker' = worker /\ ledger' = ledger /\ bills' = bills
  BY DEF IInv, TypeOK, vars
<1>. QED BY <1>1, Still

-----------------------------------------------------------------------------
(* The theorems                                                            *)

LEMMA Inductive == IInv /\ [Next]_vars => IInv'
PROOF
<1> SUFFICES ASSUME IInv, [Next]_vars PROVE IInv'
  OBVIOUS
<1>1. CASE UNCHANGED vars
  BY <1>1, StutterStep
<1>2. CASE Tomorrow
  BY <1>2, TomorrowStep
<1>3. ASSUME NEW b \in Bills, VoidUnpaid(b) PROVE IInv'
  BY <1>3, VoidUnpaidStep
<1>4. ASSUME NEW p \in Payments, Pay(p) PROVE IInv'
  BY <1>4, PayStep
<1>5. ASSUME NEW w \in Workers, Proceed(w) PROVE IInv'
  <2>1. ASSUME NEW b \in Bills, Read(w, b) PROVE IInv'
    BY <2>1, ReadStep
  <2>2. ASSUME NEW b \in Bills, Save(w, b) PROVE IInv'
    BY <2>2, SaveStep
  <2>3. CASE Done(w)
    BY <2>3, DoneStep
  <2>4. CASE Find(w)
    BY <2>4, FindStep
  <2>5. CASE Record(w)
    BY <2>5, RecordStep
  <2>6. CASE Credit(w)
    BY <2>6, CreditStep
  <2>7. CASE CreditFails(w)
    BY <2>7, CreditFailsStep
  <2>8. CASE Mark(w)
    BY <2>8, MarkStep
  <2>. QED
    BY <1>5, <2>1, <2>2, <2>3, <2>4, <2>5, <2>6, <2>7, <2>8 DEF Proceed
<1>6. ASSUME NEW w \in Workers, Crash(w) PROVE IInv'
  BY <1>6, CrashStep
<1>7. ASSUME NEW w \in Workers, NEW p \in Payments,
             Deliver(w, p) \/ Poll(w, p)
      PROVE  IInv'
  BY <1>7, StartStep DEF Deliver, Poll
<1>8. ASSUME NEW w \in Workers, NEW p \in Payments, NEW B \in SUBSET Bills,
             OpenCheckout(w, p, B)
      PROVE  IInv'
  BY <1>8, OpenCheckoutStep
<1>9. ASSUME NEW w \in Workers, NEW id \in Receipts, NEW b \in Bills,
             NEW a \in 1..MaxCharge, Manual(w, id, b, a)
      PROVE  IInv'
  BY <1>9, ManualStep
<1>10. ASSUME NEW w \in Workers, MarkOverdue(w) PROVE IInv'
  BY <1>10, MarkOverdueStep
<1>11. ASSUME NEW w \in Workers, ListBills(w) PROVE IInv'
  BY <1>11, ListBillsStep
<1>12. ASSUME NEW w \in Workers, NEW S, ChargeLateFees(w, S) PROVE IInv'
  BY <1>12, ChargeLateFeesStep
<1>13. ASSUME NEW w \in Workers, NEW b \in Bills, Split(w, b) PROVE IInv'
  BY <1>13, SplitStep
<1>. QED
  BY <1>1, <1>2, <1>3, <1>4, <1>5, <1>6, <1>7, <1>8, <1>9, <1>10, <1>11,
     <1>12, <1>13 DEF Next

LEMMA Invariance == Spec => []IInv
PROOF
<1>1. Init => IInv
  BY InitStep
<1>2. IInv /\ [Next]_vars => IInv'
  BY Inductive
<1>. QED BY <1>1, <1>2, PTL DEF Spec

\* Bills, entries, sessions, events and jobs keep their types; in particular
\* no payment takes a bill above the largest charge (finalizeBillPayment).
THEOREM TypeCorrect == Spec => []TypeOK
PROOF
<1>1. IInv => TypeOK
  BY DEF IInv
<1>. QED BY <1>1, Invariance, PTL

\* A payment is in the ledger once, however many webhooks, polls and
\* administrators handle it at the same time (applyBillPayment and the unique
\* index on externalPaymentId).
THEOREM BookedOnce == Spec => []OneEntryPerPayment
PROOF
<1>1. IInv => OneEntryPerPayment
  BY DEF IInv, LedgerInv
<1>. QED BY <1>1, Invariance, PTL

\* A bill never shows more money than its Payment documents hold, whatever
\* overlaps, fails or stops between the ledger and the bill
\* (applyBillPayment, finalizeBillPayment, rollbackCreatedPayment).
THEOREM CreditIsBacked == Spec => []CreditBackedByRecord
PROOF
<1>1. ASSUME IInv PROVE CreditBackedByRecord
  <2>1. ASSUME NEW b \in Bills PROVE bills[b].paid <= Booked(b)
    <3>1. bills[b].paid <= Backing(b) /\ bills[b].paid \in Nat
      BY <1>1, BillTypes, BillFields DEF IInv, Backed
    <3>2. Backing(b) <= Booked(b) /\ Booked(b) \in Nat /\ Backing(b) \in Nat
      BY <1>1, BillTypes, BackingIsBooked, BackingNat
    <3>. QED BY <3>1, <3>2
  <2>. QED BY <2>1 DEF CreditBackedByRecord
<1>2. IInv => CreditBackedByRecord
  BY <1>1
<1>. QED BY <1>2, Invariance, PTL

-----------------------------------------------------------------------------
(* One request at a time                                                   *)

OneAtATime == (\A v, w \in Workers : v = w) /\ "crash" \notin Kinds

\* The stored status of a bill that is not voided says whether it is paid.
StatusTrue(d) ==
    d.status # "voided" => (d.status = "paid") = (Balance(d) = 0)

\* The bill that was read is still the stored one, if not voided meanwhile.
SameBill(d, b) ==
    /\ d.paid = bills[b].paid /\ d.penalty = bills[b].penalty
    /\ bills[b].status \in {d.status, "voided"}

JobExact(j) ==
    j.pc \in {"find", "record", "credit"} => SameBill(j.seen, j.bill)

RewriteExact(j) ==
    \A b \in j.todo :
        /\ SameBill(j.read[b], b)
        /\ j.read[b].penalty <= j.new[b].penalty
        /\ j.new[b].penalty <= LateFee(today)
        /\ StatusTrue(j.new[b])

WorkersExact ==
    \A w \in Workers : /\ worker[w] \in Job => JobExact(worker[w])
                       /\ worker[w] \in Rewrite => RewriteExact(worker[w])

BillsExact ==
    \A b \in Bills : /\ bills[b].paid = Backing(b)
                     /\ bills[b].paid <= Charged(bills[b])
                     /\ bills[b].penalty <= LateFee(today)
                     /\ StatusTrue(bills[b])

Exact == IInv /\ WorkersExact /\ BillsExact

\* The only worker goes on with j.
LEMMA OnlyWorker ==
    ASSUME OneAtATime, TypeOK, NEW w \in Workers, NEW j,
           worker' = [worker EXCEPT ![w] = j],
           j \in Job => JobExact(j)', j \in Rewrite => RewriteExact(j)'
    PROVE  WorkersExact'
PROOF
<1>1. ASSUME NEW v \in Workers
      PROVE  /\ worker'[v] \in Job => JobExact(worker[v])'
             /\ worker'[v] \in Rewrite => RewriteExact(worker[v])'
  <2>1. worker'[v] = j
    BY DEF OneAtATime, TypeOK
  <2>2. j \in Job => JobExact(worker[v])'
    BY <2>1 DEF JobExact, SameBill
  <2>3. j \in Rewrite => RewriteExact(worker[v])'
    BY <2>1 DEF RewriteExact, SameBill, StatusTrue
  <2>. QED BY <2>1, <2>2, <2>3
<1>. QED BY <1>1 DEF WorkersExact

LEMMA BillsStay ==
    ASSUME BillsExact, bills' = bills,
           \A b \in Bills : Backing(b)' = Backing(b),
           LateFee(today)' = LateFee(today)
    PROVE  BillsExact'
PROOF
<1>1. \A b \in Bills : StatusTrue(bills[b])' = StatusTrue(bills[b])
  BY DEF StatusTrue, Balance, Charged
<1>2. \A b \in Bills : Charged(bills[b])' = Charged(bills[b])
  BY DEF Charged
<1>. QED BY <1>1, <1>2 DEF BillsExact

\* A step of the only worker that leaves bills and ledger alone.
LEMMA ExactMoves ==
    ASSUME OneAtATime, Exact, IInv', NEW w \in Workers, NEW j,
           worker' = [worker EXCEPT ![w] = j],
           UNCHANGED <<today, bills, ledger>>,
           ~InCredit(w), ~(j \in Job /\ j.pc = "credit"),
           j \in Job => JobExact(j), j \in Rewrite => RewriteExact(j)
    PROVE  Exact'
PROOF
<1>1. TypeOK /\ IInv /\ BillsExact
  BY DEF Exact, IInv
<1>2. \A b \in Bills : Backing(b)' = Backing(b)
  <2>1. ledger' = ledger
    OBVIOUS
  <2>. QED BY <1>1, <2>1, SettledSame DEF Backing
<1>3. BillsExact'
  <2>1. bills' = bills
    OBVIOUS
  <2>2. LateFee(today)' = LateFee(today)
    BY DEF LateFee
  <2>. QED BY <1>1, <1>2, <2>1, <2>2, BillsStay
<1>4. j \in Job => JobExact(j)'
  BY DEF JobExact, SameBill
<1>5. j \in Rewrite => RewriteExact(j)'
  <2>1. LateFee(today)' = LateFee(today)
    BY DEF LateFee
  <2>. QED BY <2>1 DEF RewriteExact, SameBill, StatusTrue
<1>6. WorkersExact'
  BY <1>1, <1>4, <1>5, OnlyWorker
<1>. QED BY <1>3, <1>6 DEF Exact

\* Reading bills to save them changed.
LEMMA RewriteStartsExact ==
    ASSUME OneAtATime, Exact, IInv', NEW w \in Workers, worker[w] = Idle,
           NEW B \in SUBSET Bills, NEW N \in [B -> Bill],
           \A b \in B : /\ bills[b].penalty <= N[b].penalty
                        /\ N[b].penalty <= LateFee(today)
                        /\ StatusTrue(N[b]),
           worker' = [worker EXCEPT ![w] =
                        [op |-> "rewrite", id |-> NoPayment, pc |-> "save",
                         todo |-> B, read |-> [b \in B |-> bills[b]],
                         new |-> N]],
           UNCHANGED <<today, bills, ledger>>
    PROVE  Exact'
PROOF
<1> DEFINE R == [b \in B |-> bills[b]]
           j == [op |-> "rewrite", id |-> NoPayment, pc |-> "save",
                 todo |-> B, read |-> R, new |-> N]
<1>1. \A b \in B : R[b] = bills[b]
  OBVIOUS
<1>. HIDE DEF R
<1>2. j.todo = B /\ j.read = R /\ j.new = N /\ j.pc = "save"
  OBVIOUS
<1>3. worker' = [worker EXCEPT ![w] = j]
  BY DEF R
<1>. HIDE DEF j
<1>4. RewriteExact(j) /\ JobExact(j)
  BY <1>1, <1>2 DEF RewriteExact, JobExact, SameBill
<1>5. ~InCredit(w) /\ j.pc # "credit"
  BY <1>2, KindsApart DEF InCredit
<1>6. UNCHANGED <<today, bills, ledger>>
  OBVIOUS
<1>. QED BY <1>3, <1>4, <1>5, <1>6, ExactMoves

LEMMA ExactBills ==
    ASSUME Exact
    PROVE  /\ IInv /\ BillsExact /\ TypeOK
           /\ bills \in [Bills -> Bill] /\ today \in Nat /\ today \in 0..MaxDay
           /\ LateFee(today) \in Nat
PROOF
BY BillTypes, FeeOfDay DEF Exact, IInv

\* A bill whose status alone changes.
LEMMA StatusAlone ==
    ASSUME Exact, NEW b \in Bills, NEW s \in Statuses,
           s # "voided" => (s = "paid") = (Balance(bills[b]) = 0)
    PROVE  LET n == WithStatus(bills[b], s)
           IN  /\ n \in Bill /\ bills[b].penalty <= n.penalty
               /\ n.penalty <= LateFee(today) /\ StatusTrue(n)
PROOF
<1>1. PICK d \in Bill : d = bills[b]
  BY ExactBills
<1>2. PICK n : n = [d EXCEPT !.status = s]
  OBVIOUS
<1>3. n \in Bill /\ n.paid = d.paid /\ n.penalty = d.penalty /\ n.status = s
  BY <1>2, StatusChange
<1>4. Balance(n) = Balance(d)
  BY <1>3 DEF Balance, Charged
<1>5. d.penalty <= LateFee(today) /\ d.penalty \in Nat
  BY <1>1, ExactBills, BillFields DEF BillsExact
<1>. QED BY <1>1, <1>2, <1>3, <1>4, <1>5 DEF StatusTrue, WithStatus

LEMMA ResolvedAlone ==
    ASSUME Exact, NEW b \in Bills
    PROVE  LET n == WithStatus(bills[b], Resolved(bills[b]))
           IN  /\ n \in Bill /\ bills[b].penalty <= n.penalty
               /\ n.penalty <= LateFee(today) /\ StatusTrue(n)
PROOF
<1>1. /\ Resolved(bills[b]) \in Statuses
      /\ (Resolved(bills[b]) = "paid") = (Balance(bills[b]) = 0)
  BY ExactBills, ResolvedIs
<1>. QED BY <1>1, StatusAlone

LEMMA MarkOverdueExact ==
    ASSUME OneAtATime, Exact, IInv', NEW w \in Workers, MarkOverdue(w)
    PROVE  Exact'
PROOF
<1> DEFINE B == {b \in Bills : Markable(bills[b])}
           N == [b \in B |-> WithStatus(bills[b], "overdue")]
<1>1. worker[w] = Idle /\ UNCHANGED <<today, bills, ledger>>
  BY DEF MarkOverdue, StartRewrite
<1>2. worker' = [worker EXCEPT ![w] =
                   [op |-> "rewrite", id |-> NoPayment, pc |-> "save",
                    todo |-> B, read |-> [b \in B |-> bills[b]], new |-> N]]
  BY DEF MarkOverdue, StartRewrite
<1>3. ASSUME NEW b \in B
      PROVE  LET n == WithStatus(bills[b], "overdue")
             IN  /\ n \in Bill /\ bills[b].penalty <= n.penalty
                 /\ n.penalty <= LateFee(today) /\ StatusTrue(n)
  <2>1. Balance(bills[b]) # 0
    BY <1>3, ExactBills DEF Markable, BillsExact, StatusTrue
  <2>2. "overdue" \in Statuses
    BY DEF Statuses
  <2>. QED BY <2>1, <2>2, StatusAlone
<1>4. B \in SUBSET Bills
  OBVIOUS
<1>. HIDE DEF B
<1>5. /\ N \in [B -> Bill]
      /\ \A b \in B : /\ bills[b].penalty <= N[b].penalty
                      /\ N[b].penalty <= LateFee(today) /\ StatusTrue(N[b])
  BY <1>3
<1>. HIDE DEF N
<1>. QED BY <1>1, <1>2, <1>4, <1>5, RewriteStartsExact

LEMMA ListBillsExact ==
    ASSUME OneAtATime, Exact, IInv', NEW w \in Workers, ListBills(w)
    PROVE  Exact'
PROOF
<1> DEFINE B == {b \in Bills : bills[b].status # Resolved(bills[b])}
           N == [b \in B |-> WithStatus(bills[b], Resolved(bills[b]))]
<1>1. worker[w] = Idle /\ UNCHANGED <<today, bills, ledger>>
  BY DEF ListBills, StartRewrite
<1>2. worker' = [worker EXCEPT ![w] =
                   [op |-> "rewrite", id |-> NoPayment, pc |-> "save",
                    todo |-> B, read |-> [b \in B |-> bills[b]], new |-> N]]
  BY DEF ListBills, StartRewrite
<1>3. B \in SUBSET Bills
  OBVIOUS
<1>. HIDE DEF B
<1>4. ASSUME NEW b \in B
      PROVE  LET n == WithStatus(bills[b], Resolved(bills[b]))
             IN  /\ n \in Bill /\ bills[b].penalty <= n.penalty
                 /\ n.penalty <= LateFee(today) /\ StatusTrue(n)
  BY <1>3, ResolvedAlone
<1>5. /\ N \in [B -> Bill]
      /\ \A b \in B : /\ bills[b].penalty <= N[b].penalty
                      /\ N[b].penalty <= LateFee(today) /\ StatusTrue(N[b])
  BY <1>4
<1>. HIDE DEF N
<1>. QED BY <1>1, <1>2, <1>3, <1>5, RewriteStartsExact

LEMMA OpenCheckoutExact ==
    ASSUME OneAtATime, Exact, IInv', NEW w \in Workers, NEW p \in Payments,
           NEW B \in SUBSET Bills, OpenCheckout(w, p, B)
    PROVE  Exact'
PROOF
<1>1. UNCHANGED <<today, bills, ledger>> /\ worker[w] = Idle
  BY DEF OpenCheckout
<1>2. CASE UNCHANGED worker
  <2>1. worker' = [worker EXCEPT ![w] = Idle]
    BY <1>1, <1>2, ExactBills DEF TypeOK
  <2>2. Idle \notin Job /\ Idle \notin Rewrite /\ ~InCredit(w)
    BY <1>1, KindsApart DEF InCredit
  <2>. QED BY <1>1, <2>1, <2>2, ExactMoves
<1>3. CASE StartRewrite(w, B, LAMBDA d : WithStatus(d, Resolved(d)))
  <2>. DEFINE N == [b \in B |-> WithStatus(bills[b], Resolved(bills[b]))]
  <2>1. worker' = [worker EXCEPT ![w] =
           [op |-> "rewrite", id |-> NoPayment, pc |-> "save",
            todo |-> B, read |-> [b \in B |-> bills[b]], new |-> N]]
    BY <1>3 DEF StartRewrite
  <2>2. ASSUME NEW b \in B
        PROVE  LET n == WithStatus(bills[b], Resolved(bills[b]))
               IN  /\ n \in Bill /\ bills[b].penalty <= n.penalty
                   /\ n.penalty <= LateFee(today) /\ StatusTrue(n)
    BY ResolvedAlone
  <2>3. /\ N \in [B -> Bill]
        /\ \A b \in B : /\ bills[b].penalty <= N[b].penalty
                        /\ N[b].penalty <= LateFee(today) /\ StatusTrue(N[b])
    BY <2>2
  <2>. HIDE DEF N
  <2>. QED BY <1>1, <2>1, <2>3, RewriteStartsExact
<1>. QED BY <1>2, <1>3 DEF OpenCheckout

LEMMA SplitExact ==
    ASSUME OneAtATime, Exact, IInv', NEW w \in Workers, NEW x \in Bills,
           Split(w, x)
    PROVE  Exact'
PROOF
<1>1. PICK B \in SUBSET Bills : B = {x}
  OBVIOUS
<1>2. PICK N : N = [b \in B |-> WithStatus(bills[b], "voided")]
  OBVIOUS
<1>3. worker[w] = Idle
  BY DEF Split, StartRewrite
<1>4. UNCHANGED <<today, bills, ledger>>
  BY DEF Split
<1>5. worker' = [worker EXCEPT ![w] =
                   [op |-> "rewrite", id |-> NoPayment, pc |-> "save",
                    todo |-> B, read |-> [b \in B |-> bills[b]], new |-> N]]
  BY <1>1, <1>2 DEF Split, StartRewrite
<1>6. ASSUME NEW b \in B
      PROVE  LET n == WithStatus(bills[b], "voided")
             IN  /\ n \in Bill /\ bills[b].penalty <= n.penalty
                 /\ n.penalty <= LateFee(today) /\ StatusTrue(n)
  BY StatusAlone DEF Statuses
<1>7. N \in [B -> Bill]
  BY <1>2, <1>6
<1>8. \A b \in B : /\ bills[b].penalty <= N[b].penalty
                   /\ N[b].penalty <= LateFee(today) /\ StatusTrue(N[b])
  BY <1>2, <1>6
<1>. QED BY <1>3, <1>4, <1>5, <1>7, <1>8, RewriteStartsExact

LEMMA ChargeLateFeesExact ==
    ASSUME OneAtATime, Exact, IInv', NEW w \in Workers,
           NEW S \in {Nightly, Engine, ByHand}, ChargeLateFees(w, S)
    PROVE  Exact'
PROOF
<1> DEFINE B == {b \in Bills : /\ bills[b].status \in S
                               /\ \/ bills[b].penalty # LateFee(today)
                                  \/ S = ByHand}
           C(d) == Synced([d EXCEPT !.penalty = LateFee(today)])
           N == [b \in B |-> C(bills[b])]
<1>1. worker[w] = Idle /\ UNCHANGED <<today, bills, ledger>>
  BY DEF ChargeLateFees, StartRewrite
<1>2. worker' = [worker EXCEPT ![w] =
                   [op |-> "rewrite", id |-> NoPayment, pc |-> "save",
                    todo |-> B, read |-> [b \in B |-> bills[b]], new |-> N]]
  BY DEF ChargeLateFees, StartRewrite
<1>3. ASSUME NEW b \in B
      PROVE  /\ C(bills[b]) \in Bill
             /\ bills[b].penalty <= C(bills[b]).penalty
             /\ C(bills[b]).penalty <= LateFee(today)
             /\ StatusTrue(C(bills[b]))
  <2>1. bills[b].status # "voided" /\ bills[b] \in Bill
    BY <1>3, ExactBills DEF Nightly, Engine, ByHand
  <2>2. bills[b].penalty <= LateFee(today)
    BY ExactBills DEF BillsExact
  <2>3. /\ C(bills[b]) \in Bill /\ C(bills[b]).penalty = LateFee(today)
        /\ (C(bills[b]).status = "paid") = (Balance(C(bills[b])) = 0)
    BY <2>1, ExactBills, ChargedIs
  <2>. HIDE DEF C
  <2>. QED BY <2>2, <2>3, ExactBills DEF StatusTrue
<1>4. B \in SUBSET Bills
  OBVIOUS
<1>. HIDE DEF B, C
<1>5. /\ N \in [B -> Bill]
      /\ \A b \in B : /\ bills[b].penalty <= N[b].penalty
                      /\ N[b].penalty <= LateFee(today) /\ StatusTrue(N[b])
  BY <1>3
<1>. HIDE DEF N
<1>. QED BY <1>1, <1>2, <1>4, <1>5, RewriteStartsExact

\* No worker moves, and bills keep their amounts.
LEMMA ExactStill ==
    ASSUME Exact, IInv', worker' = worker, ledger' = ledger,
           LateFee(today) <= LateFee(today)', LateFee(today)' \in Nat,
           bills' \in [Bills -> Bill],
           \A b \in Bills : /\ bills'[b].paid = bills[b].paid
                            /\ bills'[b].penalty = bills[b].penalty
                            /\ bills'[b].status \in {bills[b].status, "voided"}
    PROVE  Exact'
PROOF
<1>1. \A b : Backing(b)' = Backing(b)
  BY SettledStill
<1>2. ASSUME NEW b \in Bills
      PROVE  /\ Charged(bills'[b]) = Charged(bills[b])
             /\ StatusTrue(bills'[b])
  <2>1. StatusTrue(bills[b])
    BY ExactBills DEF BillsExact
  <2>. QED BY <2>1 DEF StatusTrue, Balance, Charged
<1>3. BillsExact'
  <2>1. ASSUME NEW b \in Bills
        PROVE  /\ bills'[b].paid = Backing(b)'
               /\ bills'[b].paid <= Charged(bills'[b])
               /\ bills'[b].penalty <= LateFee(today)'
               /\ StatusTrue(bills'[b])
    <3>1. /\ bills[b].paid = Backing(b) /\ bills[b].paid <= Charged(bills[b])
          /\ bills[b].penalty <= LateFee(today)
      BY ExactBills DEF BillsExact
    <3>2. bills[b].penalty \in Nat /\ LateFee(today) \in Nat
      BY ExactBills, BillFields
    <3>. QED BY <1>1, <1>2, <3>1, <3>2
  <2>. QED BY <2>1 DEF BillsExact, StatusTrue, Charged, Balance
<1>4. ASSUME NEW w \in Workers, worker'[w] \in Job PROVE JobExact(worker[w])'
  <2>1. PICK j \in Job : j = worker[w]
    BY <1>4
  <2>2. JobExact(j) /\ j.bill \in Bills
    BY <2>1 DEF Exact, WorkersExact, Job
  <2>. QED BY <2>1, <2>2 DEF JobExact, SameBill
<1>5. ASSUME NEW w \in Workers, worker'[w] \in Rewrite
      PROVE  RewriteExact(worker[w])'
  <2>1. PICK j \in Rewrite : j = worker[w]
    BY <1>5
  <2>2. RewriteExact(j) /\ j.todo \subseteq Bills /\ RewriteInv(j)
    BY <2>1, ExactBills, InvParts DEF Exact, WorkersExact, Rewrite
  <2>3. PICK D \in SUBSET Bills : j.new \in [D -> Bill]
    BY <2>1 DEF Rewrite
  <2>4. ASSUME NEW b \in j.todo
        PROVE  /\ SameBill(j.read[b], b)'
               /\ j.read[b].penalty <= j.new[b].penalty
               /\ j.new[b].penalty <= LateFee(today)'
               /\ StatusTrue(j.new[b])
    <3>1. /\ SameBill(j.read[b], b) /\ j.read[b].penalty <= j.new[b].penalty
          /\ j.new[b].penalty <= LateFee(today) /\ StatusTrue(j.new[b])
          /\ b \in Bills
      BY <2>2, <2>4 DEF RewriteExact
    <3>2. j.new[b] \in Bill
      BY <2>2, <2>3, <2>4 DEF RewriteInv
    <3>3. j.new[b].penalty \in Nat /\ LateFee(today) \in Nat
      BY <3>2, ExactBills, BillFields
    <3>4. SameBill(j.read[b], b)'
      BY <3>1 DEF SameBill
    <3>. QED BY <3>1, <3>3, <3>4
  <2>5. RewriteExact(j)'
    BY <2>4 DEF RewriteExact, StatusTrue, Balance, Charged
  <2>6. worker'[w] = j
    BY <2>1
  <2>. QED BY <2>5, <2>6 DEF RewriteExact, SameBill, StatusTrue
<1>6. WorkersExact'
  BY <1>4, <1>5 DEF WorkersExact
<1>. QED BY <1>3, <1>6 DEF Exact

LEMMA TomorrowExact ==
    ASSUME Exact, IInv', Tomorrow PROVE Exact'
PROOF
<1>1. /\ today' = today + 1 /\ worker' = worker /\ ledger' = ledger
      /\ bills' = bills
  BY DEF Tomorrow
<1>2. today \in Nat /\ today' \in Nat /\ today <= today'
  BY <1>1, ExactBills
<1>3. LateFee(today)' \in Nat /\ LateFee(today) <= LateFee(today)'
  <2>1. PICK d \in Nat, e \in Nat : d = today /\ e = today' /\ d <= e
    BY <1>2
  <2>2. LateFee(d) <= LateFee(e) /\ LateFee(e) \in Nat
    BY <2>1, LateFeeGrows
  <2>3. LateFee(today) = LateFee(d) /\ LateFee(today)' = LateFee(e)
    BY <2>1 DEF LateFee
  <2>. QED BY <2>2, <2>3
<1>4. bills' \in [Bills -> Bill]
  BY <1>1, ExactBills
<1>. QED BY <1>1, <1>3, <1>4, ExactStill

LEMMA SameFee ==
    ASSUME Exact, today' = today
    PROVE  LateFee(today)' \in Nat /\ LateFee(today) <= LateFee(today)'
           /\ LateFee(today)' = LateFee(today)
PROOF
<1>1. LateFee(today)' = LateFee(today)
  BY DEF LateFee
<1>. QED BY <1>1, ExactBills

LEMMA VoidUnpaidExact ==
    ASSUME Exact, IInv', NEW b \in Bills, VoidUnpaid(b) PROVE Exact'
PROOF
<1>1. bills' = [bills EXCEPT ![b] = [bills[b] EXCEPT !.status = "voided"]]
  BY Zenon DEF VoidUnpaid
<1>2. today' = today /\ worker' = worker /\ ledger' = ledger
  BY DEF VoidUnpaid
<1> DEFINE d == [bills[b] EXCEPT !.status = "voided"]
<1>3. d \in Bill /\ d.paid = bills[b].paid /\ d.penalty = bills[b].penalty
      /\ d.status = "voided"
  BY ExactBills, StatusChange DEF Statuses
<1>4. bills' = [bills EXCEPT ![b] = d]
  BY <1>1
<1>. HIDE DEF d
<1>5. /\ bills' \in [Bills -> Bill]
      /\ \A c \in Bills : /\ bills'[c].paid = bills[c].paid
                          /\ bills'[c].penalty = bills[c].penalty
                          /\ bills'[c].status \in {bills[c].status, "voided"}
  BY <1>3, <1>4, ExactBills
<1>. QED BY <1>2, <1>5, SameFee, ExactStill

LEMMA PayExact ==
    ASSUME Exact, IInv', NEW p \in Payments, Pay(p) PROVE Exact'
PROOF
<1>1. today' = today /\ worker' = worker /\ ledger' = ledger /\ bills' = bills
  BY DEF Pay
<1>2. bills' \in [Bills -> Bill]
  BY <1>1, ExactBills
<1>. QED BY <1>1, <1>2, SameFee, ExactStill

LEMMA StutterExact ==
    ASSUME Exact, IInv', UNCHANGED vars PROVE Exact'
PROOF
<1>1. today' = today /\ worker' = worker /\ ledger' = ledger /\ bills' = bills
  BY DEF vars
<1>2. bills' \in [Bills -> Bill]
  BY <1>1, ExactBills
<1>. QED BY <1>1, <1>2, SameFee, ExactStill

\* The only worker saves the bill b as s and goes on with j; the other bills
\* and what backs them stay.
LEMMA ExactSaves ==
    ASSUME OneAtATime, Exact, IInv', NEW w \in Workers, NEW b \in Bills,
           NEW s \in Bill, bills' = [bills EXCEPT ![b] = s], today' = today,
           \A c \in Bills \ {b} : Backing(c)' = Backing(c),
           s.paid = Backing(b)', s.paid <= Charged(s),
           s.penalty <= LateFee(today), StatusTrue(s)
    PROVE  BillsExact'
PROOF
<1>1. ASSUME NEW c \in Bills
      PROVE  /\ bills'[c].paid = Backing(c)'
             /\ bills'[c].paid <= Charged(bills'[c])
             /\ bills'[c].penalty <= LateFee(today)'
             /\ StatusTrue(bills'[c])
  <2>1. CASE c = b
    <3>1. bills'[c] = s
      BY <2>1, ExactBills
    <3>. QED BY <2>1, <3>1, SameFee
  <2>2. CASE c # b
    <3>1. bills'[c] = bills[c] /\ Backing(c)' = Backing(c)
      BY <2>2, ExactBills
    <3>. QED BY <3>1, SameFee, ExactBills DEF BillsExact
  <2>. QED BY <2>1, <2>2
<1>. QED BY <1>1 DEF BillsExact, StatusTrue, Charged, Balance

LEMMA SaveExact ==
    ASSUME OneAtATime, Exact, IInv', NEW w \in Workers, NEW b \in Bills,
           Save(w, b)
    PROVE  Exact'
PROOF
<1>0. PICK j : j = worker[w]
  OBVIOUS
<1>1. /\ j.op = "rewrite" /\ b \in j.todo
      /\ bills' = [bills EXCEPT ![b] = Saved(b, j.read[b], j.new[b])]
      /\ worker' = [worker EXCEPT ![w] = IF j.todo = {b} THEN Idle
                                         ELSE [j EXCEPT !.todo = @ \ {b}]]
      /\ today' = today /\ ledger' = ledger
  BY <1>0 DEF Save
<1>2. j \in Rewrite /\ RewriteInv(j) /\ j \notin Job /\ RewriteExact(j)
  <2>1. j \in {Idle} \cup Job \cup Rewrite
    BY <1>0, ExactBills, InvParts
  <2>2. j \in Rewrite
    BY <1>1, <2>1, KindsApart DEF Idle
  <2>. QED BY <1>0, <2>2, ExactBills, InvParts, KindsApart
           DEF Exact, WorkersExact
<1>3. PICK D, E \in SUBSET Bills : j.new \in [D -> Bill] /\ j.read \in [E -> Bill]
  BY <1>2 DEF Rewrite
<1>4. PICK r \in Bill : r = j.read[b]
  BY <1>1, <1>2, <1>3 DEF RewriteInv
<1>5. PICK n \in Bill : n = j.new[b]
  BY <1>1, <1>2, <1>3 DEF RewriteInv
<1>6. /\ n.paid = r.paid /\ SameBill(r, b) /\ r.penalty <= n.penalty
      /\ n.penalty <= LateFee(today) /\ StatusTrue(n)
  BY <1>1, <1>2, <1>4, <1>5 DEF RewriteInv, RewriteExact
<1>7. PICK s \in Bill : s = Saved(b, r, n)
  BY ExactBills, SavedIs
<1>8. /\ s.paid = bills[b].paid /\ s.paid = n.paid /\ s.penalty = n.penalty
      /\ s.status \in {n.status, "voided"}
  BY <1>6, <1>7, ExactBills, SavedIs DEF SameBill
<1>9. StatusTrue(s)
  BY <1>6, <1>8 DEF StatusTrue, Balance, Charged
<1>10. s.paid <= Charged(s)
  <2>1. bills[b].paid <= Charged(bills[b])
    BY ExactBills DEF BillsExact
  <2>2. bills[b].penalty <= s.penalty
    BY <1>6, <1>8 DEF SameBill
  <2>3. /\ s.paid \in Nat /\ s.penalty \in Nat /\ bills[b].penalty \in Nat
        /\ Total \in Nat
    BY ExactBills, BillFields, BillAssumption
  <2>. QED BY <1>8, <2>1, <2>2, <2>3 DEF Charged
<1>11. bills' = [bills EXCEPT ![b] = s]
  BY <1>1, <1>4, <1>5, <1>7
<1>12. PICK k : k = IF j.todo = {b} THEN Idle ELSE [j EXCEPT !.todo = @ \ {b}]
  OBVIOUS
<1>13. worker' = [worker EXCEPT ![w] = k]
  BY <1>1, <1>12
<1>14. /\ k \in {Idle} \cup Rewrite
       /\ k \in Rewrite => /\ k.todo = j.todo \ {b} /\ k.new = j.new
                           /\ k.read = j.read
  <2>1. CASE j.todo = {b}
    BY <1>12, <2>1, KindsApart
  <2>2. CASE j.todo # {b}
    <3>1. k = [j EXCEPT !.todo = @ \ {b}]
      BY <1>12, <2>2
    <3>. QED BY <1>2, <3>1 DEF Rewrite
  <2>. QED BY <2>1, <2>2
<1>15. k \notin Job /\ ~InCredit(w)
  BY <1>0, <1>2, <1>14, KindsApart DEF InCredit
<1>16. \A c : Backing(c)' = Backing(c)
  BY <1>1, <1>13, <1>15, ExactBills, SettledSame DEF Backing
<1>17. BillsExact'
  <2>1. bills[b].paid = Backing(b)
    BY ExactBills DEF BillsExact
  <2>2. s.paid = Backing(b)' /\ s.penalty <= LateFee(today)
    BY <1>6, <1>8, <1>16, <2>1
  <2>. QED BY <1>1, <1>9, <1>10, <1>11, <1>16, <2>2, ExactSaves
<1>18. k \in Rewrite => RewriteExact(k)'
  <2>1. SUFFICES ASSUME k \in Rewrite PROVE RewriteExact(k)'
    OBVIOUS
  <2>2. ASSUME NEW c \in k.todo
        PROVE  /\ SameBill(k.read[c], c)'
               /\ k.read[c].penalty <= k.new[c].penalty
               /\ k.new[c].penalty <= LateFee(today)'
               /\ StatusTrue(k.new[c])
    <3>1. c \in j.todo /\ c # b /\ k.new = j.new /\ k.read = j.read
      BY <1>14, <2>1
    <3>2. /\ SameBill(j.read[c], c) /\ j.read[c].penalty <= j.new[c].penalty
          /\ j.new[c].penalty <= LateFee(today) /\ StatusTrue(j.new[c])
      BY <1>2, <3>1 DEF RewriteExact
    <3>3. bills'[c] = bills[c]
      <4>1. c \in Bills
        BY <1>2, <3>1 DEF Rewrite
      <4>. QED BY <1>11, <3>1, <4>1, ExactBills
    <3>4. SameBill(k.read[c], c)'
      BY <3>1, <3>2, <3>3 DEF SameBill
    <3>. QED BY <1>1, <3>1, <3>2, <3>4, SameFee
  <2>. QED BY <2>2 DEF RewriteExact, StatusTrue, Balance, Charged
<1>19. WorkersExact'
  BY <1>13, <1>15, <1>18, ExactBills, OnlyWorker
<1>. QED BY <1>17, <1>19 DEF Exact

\* A worker that starts a settlement, or reads, has read the stored bill.
LEMMA StartExact ==
    ASSUME OneAtATime, Exact, IInv', NEW w \in Workers, NEW p \in Payments,
           NEW op \in {"webhook", "poll"}, Start(w, op, p)
    PROVE  Exact'
PROOF
<1>1. worker[w] = Idle /\ UNCHANGED <<today, bills, ledger>>
  BY DEF Start
<1>2. PICK b : worker' = [worker EXCEPT ![w] =
                            [op |-> op, id |-> p, pc |-> "read",
                             todo |-> session[p].bills, bill |-> b,
                             seen |-> bills[b], amount |-> 0]]
  BY DEF Start
<1>3. PICK j : j = [op |-> op, id |-> p, pc |-> "read",
                    todo |-> session[p].bills, bill |-> b,
                    seen |-> bills[b], amount |-> 0]
  OBVIOUS
<1>4. worker' = [worker EXCEPT ![w] = j] /\ j.op = op /\ j.pc = "read"
  BY <1>2, <1>3
<1>5. JobExact(j) /\ j \notin Rewrite /\ ~InCredit(w)
  BY <1>1, <1>4, KindsApart DEF JobExact, InCredit
<1>. QED BY <1>1, <1>4, <1>5, ExactMoves

LEMMA ManualExact ==
    ASSUME OneAtATime, Exact, IInv', NEW w \in Workers, NEW id \in Receipts,
           NEW b \in Bills, NEW a \in 1..MaxCharge, Manual(w, id, b, a)
    PROVE  Exact'
PROOF
<1>1. PICK j : j = [op |-> "manual", id |-> id, pc |-> "record", todo |-> {},
                    bill |-> b, seen |-> bills[b], amount |-> a]
  OBVIOUS
<1>2. /\ worker[w] = Idle /\ UNCHANGED <<today, bills, ledger>>
      /\ worker' = [worker EXCEPT ![w] = j]
  BY <1>1 DEF Manual
<1>3. /\ j.op = "manual" /\ j.pc = "record" /\ j.seen = bills[b]
      /\ j.bill = b
  BY <1>1
<1>4. JobExact(j) /\ j \notin Rewrite /\ ~InCredit(w)
  BY <1>2, <1>3, KindsApart DEF JobExact, SameBill, InCredit
<1>. QED BY <1>2, <1>3, <1>4, ExactMoves

LEMMA ReadExact ==
    ASSUME OneAtATime, Exact, IInv', NEW w \in Workers, NEW b \in Bills,
           Read(w, b)
    PROVE  Exact'
PROOF
<1>0. PICK j : j = worker[w]
  OBVIOUS
<1>1. PICK a : a = Applied(j, bills[b])
  OBVIOUS
<1>2. PICK d : d = bills[b]
  OBVIOUS
<1>3. PICK n : n = [j EXCEPT !.todo = @ \ {b}, !.bill = b, !.seen = d,
                             !.amount = a,
                             !.pc = IF a = 0 THEN "read" ELSE "find"]
  OBVIOUS
<1>4. /\ j.op \in {"webhook", "poll"} /\ j.pc = "read"
      /\ worker' = [worker EXCEPT ![w] = n]
      /\ UNCHANGED <<today, bills, ledger>>
  BY <1>0, <1>1, <1>2, <1>3 DEF Read
<1>5. j \in Job
  BY <1>0, <1>4, ExactBills, Settling
<1>6. /\ n.op = j.op /\ n.bill = b /\ n.seen = d
      /\ n.pc = IF a = 0 THEN "read" ELSE "find"
  BY <1>3, <1>5 DEF Job
<1>7. JobExact(n) /\ n \notin Rewrite /\ ~InCredit(w)
  BY <1>0, <1>2, <1>4, <1>6, KindsApart DEF JobExact, SameBill, InCredit
<1>. QED BY <1>4, <1>6, <1>7, ExactMoves

LEMMA DoneExact ==
    ASSUME OneAtATime, Exact, IInv', NEW w \in Workers, Done(w) PROVE Exact'
PROOF
<1>1. /\ worker[w].pc = "read"
      /\ worker' = [worker EXCEPT ![w] = Idle]
      /\ UNCHANGED <<today, bills, ledger>>
  BY DEF Done, End
<1>2. Idle \notin Job /\ Idle \notin Rewrite /\ ~InCredit(w)
  BY <1>1, KindsApart DEF InCredit
<1>. QED BY <1>1, <1>2, ExactMoves

LEMMA FindExact ==
    ASSUME OneAtATime, Exact, IInv', NEW w \in Workers, Find(w) PROVE Exact'
PROOF
<1>0. PICK j : j = worker[w]
  OBVIOUS
<1>1. /\ j.op \in {"webhook", "poll"} /\ j.pc = "find"
      /\ Goto(w, AfterFind(j.id))
      /\ UNCHANGED <<today, bills, ledger>>
  BY <1>0 DEF Find
<1>2. PICK pc : pc = AfterFind(j.id)
  OBVIOUS
<1>3. PICK n : n = [j EXCEPT !.pc = pc]
  OBVIOUS
<1>4. worker' = [worker EXCEPT ![w] = n]
  BY <1>0, <1>1, <1>2, <1>3, Zenon DEF Goto
<1>5. j \in Job
  BY <1>0, <1>1, ExactBills, Settling
<1>6. JobExact(j)
  BY <1>0, <1>5 DEF Exact, WorkersExact
<1>7. /\ n.op = j.op /\ n.bill = j.bill /\ n.seen = j.seen /\ n.pc = pc
      /\ pc \in {"read", "record"}
  BY <1>2, <1>3, <1>5 DEF Job, AfterFind
<1>8. JobExact(n) /\ n \notin Rewrite /\ ~InCredit(w)
  BY <1>0, <1>1, <1>6, <1>7, KindsApart DEF JobExact, InCredit
<1>. QED BY <1>1, <1>4, <1>7, <1>8, ExactMoves

LEMMA MarkExact ==
    ASSUME OneAtATime, Exact, IInv', NEW w \in Workers, Mark(w) PROVE Exact'
PROOF
<1>0. PICK j : j = worker[w]
  OBVIOUS
<1>1. /\ j # Idle /\ j.pc = "mark"
      /\ bills' = [bills EXCEPT ![j.bill] =
                     [bills[j.bill] EXCEPT !.payment = j.id]]
      /\ Goto(w, "read")
      /\ today' = today /\ ledger' = ledger
  BY <1>0, Zenon DEF Mark
<1>2. j \in Job /\ JobInv(j) /\ j.op \in {"webhook", "poll"}
  BY <1>0, <1>1, ExactBills, Booking, KindsApart DEF JobInv
<1>3. PICK b \in Bills : b = j.bill
  BY <1>2 DEF Job
<1>4. PICK s : s = [bills[b] EXCEPT !.payment = j.id]
  OBVIOUS
<1>5. PICK n : n = [j EXCEPT !.pc = "read"]
  OBVIOUS
<1>6. j.id \in Payments
  BY <1>2 DEF JobInv
<1>7. s \in Bill /\ s.paid = bills[b].paid /\ s.penalty = bills[b].penalty
      /\ s.status = bills[b].status
  BY <1>4, <1>6, ExactBills DEF Bill
<1>8. bills' = [bills EXCEPT ![b] = s]
  BY <1>1, <1>3, <1>4
<1>9. worker' = [worker EXCEPT ![w] = n]
  BY <1>0, <1>1, <1>5, Zenon DEF Goto
<1>10. n.op = j.op /\ n.pc = "read"
  BY <1>2, <1>5 DEF Job
<1>11. JobExact(n)' /\ n \notin Rewrite /\ ~InCredit(w)
  BY <1>0, <1>1, <1>2, <1>10, KindsApart DEF JobExact, InCredit
<1>12. \A c : Backing(c)' = Backing(c)
  BY <1>1, <1>9, <1>10, <1>11, ExactBills, SettledSame DEF Backing
<1>13. /\ bills[b].paid = Backing(b) /\ bills[b].paid <= Charged(bills[b])
       /\ bills[b].penalty <= LateFee(today) /\ StatusTrue(bills[b])
  BY ExactBills DEF BillsExact
<1>14. s.paid <= Charged(s) /\ StatusTrue(s)
  BY <1>7, <1>13 DEF Charged, StatusTrue, Balance
<1>15. s.paid = Backing(b)' /\ s.penalty <= LateFee(today)
  BY <1>7, <1>12, <1>13
<1>16. BillsExact'
  BY <1>1, <1>7, <1>8, <1>12, <1>14, <1>15, ExactSaves
<1>17. WorkersExact'
  BY <1>9, <1>11, ExactBills, OnlyWorker
<1>. QED BY <1>16, <1>17 DEF Exact

LEMMA RecordExact ==
    ASSUME OneAtATime, Exact, IInv', NEW w \in Workers, Record(w)
    PROVE  Exact'
PROOF
<1>1. CASE Refused(worker[w].id)
  <2>1. /\ worker[w].pc = "record"
        /\ worker' = [worker EXCEPT ![w] = Idle]
        /\ UNCHANGED <<today, bills, ledger>>
    BY <1>1 DEF Record, End
  <2>2. Idle \notin Job /\ Idle \notin Rewrite /\ ~InCredit(w)
    BY <2>1, KindsApart DEF InCredit
  <2>. QED BY <2>1, <2>2, ExactMoves
<1>2. CASE ~Refused(worker[w].id)
  <2>0. PICK j : j = worker[w]
    OBVIOUS
  <2>1. PICK n : n = [j EXCEPT !.pc = "credit"]
    OBVIOUS
  <2>2. /\ j \in Job /\ j.pc = "record"
        /\ n \in Job /\ n.bill = j.bill /\ n.seen = j.seen
        /\ worker' = [worker EXCEPT ![w] = n]
        /\ today' = today /\ bills' = bills
    BY <1>2, <2>0, <2>1, ExactBills, Recording
  <2>3. SameBill(j.seen, j.bill)
    BY <2>0, <2>2 DEF Exact, WorkersExact, JobExact
  <2>4. JobExact(n)'
    BY <2>2, <2>3 DEF JobExact, SameBill
  <2>5. n \notin Rewrite
    BY <2>2, KindsApart
  <2>6. WorkersExact'
    BY <2>2, <2>4, <2>5, ExactBills, OnlyWorker
  <2>7. \A b \in Bills : Backing(b)' = Backing(b)
    BY <1>2, ExactBills, RecordSettles DEF Backing
  <2>8. BillsExact'
    BY <2>2, <2>7, ExactBills, SameFee, BillsStay
  <2>. QED BY <2>6, <2>8 DEF Exact
<1>. QED BY <1>1, <1>2

LEMMA CreditFailsExact ==
    ASSUME OneAtATime, Exact, IInv', NEW w \in Workers, CreditFails(w)
    PROVE  Exact'
PROOF
<1>1. /\ worker' = [worker EXCEPT ![w] = Idle]
      /\ today' = today /\ bills' = bills
  BY ExactBills, Failing
<1>2. Idle \notin Job /\ Idle \notin Rewrite
  BY KindsApart
<1>3. WorkersExact'
  BY <1>1, <1>2, ExactBills, OnlyWorker
<1>4. \A b \in Bills : Backing(b)' = Backing(b)
  BY ExactBills, FailSettles DEF Backing
<1>5. BillsExact'
  BY <1>1, <1>4, ExactBills, SameFee, BillsStay
<1>. QED BY <1>3, <1>5 DEF Exact

LEMMA CreditExact ==
    ASSUME OneAtATime, Exact, IInv', NEW w \in Workers, Credit(w)
    PROVE  Exact'
PROOF
<1>0. PICK j : j = worker[w]
  OBVIOUS
<1>1. PICK p : p = WithPayment(j)
  OBVIOUS
<1>2. PICK s : s = Saved(j.bill, j.seen, p)
  OBVIOUS
<1>3. PICK n : n = IF j.op = "manual" THEN Idle ELSE [j EXCEPT !.pc = "mark"]
  OBVIOUS
<1>4. /\ j \in Job /\ j.pc = "credit" /\ 1 <= j.amount
      /\ j.amount <= Balance(j.seen) /\ j.bill \in Bills
      /\ s \in Bill /\ s.paid = j.seen.paid + j.amount
      /\ n \in {Idle} \cup Job
      /\ n # Idle => n.pc = "mark"
      /\ bills' = [bills EXCEPT ![j.bill] = s]
      /\ worker' = [worker EXCEPT ![w] = n]
      /\ today' = today
  BY <1>0, <1>1, <1>2, <1>3, ExactBills, Crediting
<1>5. PICK b \in Bills : b = j.bill
  BY <1>4
<1>6. SameBill(j.seen, b)
  BY <1>0, <1>4, <1>5 DEF Exact, WorkersExact, JobExact
<1>7. /\ j.seen \in Bill /\ p \in Bill
      /\ p.paid = j.seen.paid + j.amount /\ p.paid # j.seen.paid
      /\ p.paid <= Charged(j.seen) /\ p.penalty = j.seen.penalty
      /\ j.seen.status = "voided" => p.status = "voided"
      /\ j.seen.status # "voided" =>
            (p.status # "voided" /\ (p.status = "paid") = (Balance(p) = 0))
  BY <1>1, <1>4, ExactBills, WithPaymentIs
<1>8. /\ s.penalty = IF p.penalty # j.seen.penalty THEN p.penalty
                     ELSE bills[b].penalty
      /\ s.status = IF p.status # j.seen.status THEN p.status
                    ELSE bills[b].status
  BY <1>2, <1>5, <1>7, ExactBills, SavedIs
<1>9. /\ s.penalty = p.penalty /\ s.penalty = bills[b].penalty
      /\ s.paid = p.paid /\ s.status \in {p.status, "voided"}
  BY <1>4, <1>6, <1>7, <1>8 DEF SameBill
<1>10. StatusTrue(s)
  BY <1>7, <1>9 DEF StatusTrue, Balance, Charged
<1>11. s.paid <= Charged(s)
  BY <1>7, <1>9 DEF Charged
<1>12. /\ bills[b].paid = Backing(b) /\ bills[b].penalty <= LateFee(today)
  BY ExactBills DEF BillsExact
<1>13. s.paid = Backing(b)' /\ s.penalty <= LateFee(today)
  <2>1. Backing(b)' = Backing(b) + j.amount
    BY <1>0, <1>5, ExactBills, CreditBacks
  <2>. QED BY <1>4, <1>6, <1>9, <1>12, <2>1 DEF SameBill
<1>14. \A c \in Bills \ {b} : Backing(c)' = Backing(c)
  BY <1>0, <1>5, ExactBills, CreditBacks
<1>15. bills' = [bills EXCEPT ![b] = s]
  BY <1>4, <1>5
<1>16. BillsExact'
  BY <1>4, <1>10, <1>11, <1>13, <1>14, <1>15, ExactSaves
<1>17. n \in Job => JobExact(n)'
  <2>1. n \in Job => n.pc = "mark"
    BY <1>4, KindsApart
  <2>. QED BY <2>1 DEF JobExact
<1>18. n \notin Rewrite
  BY <1>4, KindsApart
<1>19. WorkersExact'
  BY <1>4, <1>17, <1>18, ExactBills, OnlyWorker
<1>. QED BY <1>16, <1>19 DEF Exact

LEMMA InitExact == Init => Exact
PROOF
<1> SUFFICES ASSUME Init PROVE Exact
  OBVIOUS
<1>1. IInv
  BY InitStep
<1>2. WorkersExact
  BY KindsApart DEF Init, WorkersExact
<1>3. ASSUME NEW b \in Bills
      PROVE  /\ bills[b].paid = Backing(b)
             /\ bills[b].paid <= Charged(bills[b])
             /\ bills[b].penalty <= LateFee(today)
             /\ StatusTrue(bills[b])
  <2>1. bills[b].paid = 0 /\ bills[b].penalty = 0
        /\ bills[b].status = "pending"
    BY DEF Init
  <2>2. Backing(b) = 0
    <3>1. Settled(b) = {}
      BY DEF Init, Settled
    <3>. QED BY <3>1, SumEmpty DEF Backing
  <2>3. Charged(bills[b]) = Total
    BY <2>1, BillAssumption DEF Charged
  <2>4. Balance(bills[b]) # 0
    <3>1. bills[b] \in Bill
      BY <1>1, BillTypes
    <3>. QED BY <2>1, <2>3, <3>1, BalanceIs, BillAssumption
  <2>5. LateFee(today) \in Nat
    BY <1>1, BillTypes, FeeOfDay
  <2>. QED BY <2>1, <2>2, <2>3, <2>4, <2>5, BillAssumption DEF StatusTrue
<1>. QED BY <1>1, <1>2, <1>3 DEF Exact, BillsExact

LEMMA ExactInductive == OneAtATime /\ Exact /\ [Next]_vars => Exact'
PROOF
<1> SUFFICES ASSUME OneAtATime, Exact, [Next]_vars PROVE Exact'
  OBVIOUS
<1>0. IInv'
  BY Inductive DEF Exact
<1>1. CASE UNCHANGED vars
  BY <1>0, <1>1, StutterExact
<1>2. CASE Tomorrow
  BY <1>0, <1>2, TomorrowExact
<1>3. ASSUME NEW b \in Bills, VoidUnpaid(b) PROVE Exact'
  BY <1>0, <1>3, VoidUnpaidExact
<1>4. ASSUME NEW p \in Payments, Pay(p) PROVE Exact'
  BY <1>0, <1>4, PayExact
<1>5. ASSUME NEW w \in Workers, Proceed(w) PROVE Exact'
  <2>1. ASSUME NEW b \in Bills, Read(w, b) PROVE Exact'
    BY <1>0, <2>1, ReadExact
  <2>2. ASSUME NEW b \in Bills, Save(w, b) PROVE Exact'
    BY <1>0, <2>2, SaveExact
  <2>3. CASE Done(w)
    BY <1>0, <2>3, DoneExact
  <2>4. CASE Find(w)
    BY <1>0, <2>4, FindExact
  <2>5. CASE Record(w)
    BY <1>0, <2>5, RecordExact
  <2>6. CASE Credit(w)
    BY <1>0, <2>6, CreditExact
  <2>7. CASE CreditFails(w)
    BY <1>0, <2>7, CreditFailsExact
  <2>8. CASE Mark(w)
    BY <1>0, <2>8, MarkExact
  <2>. QED
    BY <1>5, <2>1, <2>2, <2>3, <2>4, <2>5, <2>6, <2>7, <2>8 DEF Proceed
<1>6. ASSUME NEW w \in Workers, Crash(w) PROVE FALSE
  BY <1>6 DEF Crash, OneAtATime
<1>7. ASSUME NEW w \in Workers, NEW p \in Payments,
             Deliver(w, p) \/ Poll(w, p)
      PROVE  Exact'
  BY <1>0, <1>7, StartExact DEF Deliver, Poll
<1>8. ASSUME NEW w \in Workers, NEW p \in Payments, NEW B \in SUBSET Bills,
             OpenCheckout(w, p, B)
      PROVE  Exact'
  BY <1>0, <1>8, OpenCheckoutExact
<1>9. ASSUME NEW w \in Workers, NEW id \in Receipts, NEW b \in Bills,
             NEW a \in 1..MaxCharge, Manual(w, id, b, a)
      PROVE  Exact'
  BY <1>0, <1>9, ManualExact
<1>10. ASSUME NEW w \in Workers, MarkOverdue(w) PROVE Exact'
  BY <1>0, <1>10, MarkOverdueExact
<1>11. ASSUME NEW w \in Workers, ListBills(w) PROVE Exact'
  BY <1>0, <1>11, ListBillsExact
<1>12. ASSUME NEW w \in Workers, NEW S \in {Nightly, Engine, ByHand},
              ChargeLateFees(w, S)
       PROVE  Exact'
  BY <1>0, <1>12, ChargeLateFeesExact
<1>13. ASSUME NEW w \in Workers, NEW b \in Bills, Split(w, b) PROVE Exact'
  BY <1>0, <1>13, SplitExact
<1>. QED
  BY <1>1, <1>2, <1>3, <1>4, <1>5, <1>6, <1>7, <1>8, <1>9, <1>10, <1>11,
     <1>12, <1>13 DEF Next

LEMMA ExactAlways == ASSUME OneAtATime PROVE Spec => []Exact
PROOF
<1>1. Init => Exact
  BY InitExact
<1>2. Exact /\ [Next]_vars => Exact'
  BY ExactInductive
<1>. QED BY <1>1, <1>2, PTL DEF Spec

\* When requests come one at a time and the process does not stop in one, a
\* bill shows between two requests exactly what the ledger holds for it, also
\* after saves that failed and were rolled back, and its stored status is
\* paid exactly when it has no balance (applyBillPayment, syncBillAmounts,
\* computePenalty and the late-fee and overdue jobs).
THEOREM LedgerMatches ==
    ASSUME OneAtATime
    PROVE  Spec => []LedgerMatchesBill
PROOF
<1>1. ASSUME Exact PROVE LedgerMatchesBill
  <2>1. SUFFICES ASSUME Quiet, NEW b \in Bills
                 PROVE  /\ bills[b].paid = Booked(b)
                        /\ bills[b].status # "voided" =>
                             (bills[b].status = "paid") = (Balance(bills[b]) = 0)
    BY DEF LedgerMatchesBill
  <2>2. Settled(b) = {e \in ledger : e.bill = b}
    BY <2>1, KindsApart DEF Quiet, Settled, InCredit
  <2>3. Backing(b) = Booked(b)
    BY <1>1, <2>2, ExactBills, BillTypes, BookedIs DEF Backing
  <2>. QED BY <1>1, <2>3, ExactBills DEF BillsExact, StatusTrue
<1>2. Exact => LedgerMatchesBill
  BY <1>1
<1>. QED BY <1>2, ExactAlways, PTL

\* Then the ledger also never holds more than a bill asks for, not even
\* between the entry and the bill (finalizeBillPayment rejects what exceeds
\* the balance, settlePaymongoBill cuts it).
THEOREM NeverOverpaid ==
    ASSUME OneAtATime
    PROVE  Spec => []NoOverpayment
PROOF
<1>1. ASSUME Exact PROVE NoOverpayment
  <2>1. SUFFICES ASSUME NEW b \in Bills
                 PROVE  Booked(b) <= Charged(bills[b])
    BY DEF NoOverpayment
  <2>. DEFINE S == {e \in ledger : e.bill = b}
  <2>2. Booked(b) = SumOf(S, AmountOf)
    BY <1>1, ExactBills, BillTypes, BookedIs
  <2>3. bills[b].paid = Backing(b) /\ bills[b].paid <= Charged(bills[b])
    BY <1>1, ExactBills DEF BillsExact
  <2>4. CASE \E w \in Workers : InCredit(w) /\ worker[w].bill = b
    <3>1. PICK w \in Workers : InCredit(w) /\ worker[w].bill = b
      BY <2>4
    <3>2. PICK j \in Job : j = worker[w] /\ j.pc = "credit" /\ j.bill = b
      BY <3>1 DEF InCredit
    <3>3. JobInv(j) /\ JobExact(j)
      BY <1>1, <3>2, ExactBills, InvParts DEF Exact, WorkersExact
    <3>4. /\ Entry(j) \in ledger /\ 1 <= j.amount /\ j.amount <= Balance(j.seen)
          /\ SameBill(j.seen, b)
      BY <3>2, <3>3 DEF JobInv, JobExact
    <3>5. Entry(j).bill = b /\ Entry(j).amount = j.amount
      BY <3>2 DEF Entry
    <3>6. \A v \in Workers : v = w
      BY DEF OneAtATime
    <3>7. S = Settled(b) \cup {Entry(j)} /\ Entry(j) \notin Settled(b)
      BY <3>1, <3>2, <3>4, <3>5, <3>6 DEF Settled
    <3>8. ledger \subseteq Payment /\ IsFiniteSet(Settled(b))
      BY <1>1, ExactBills, BillTypes, BackingNat
    <3>9. \A y \in Settled(b) \cup {Entry(j)} :
             AmountOf[y] = y.amount /\ AmountOf[y] \in Nat
      BY <3>4, <3>8, AmountNat DEF Settled
    <3>10. SumOf(Settled(b) \cup {Entry(j)}, AmountOf)
             = SumOf(Settled(b), AmountOf) + AmountOf[Entry(j)]
      <4>1. PICK T, x : T = Settled(b) /\ x = Entry(j)
        OBVIOUS
      <4>2. IsFiniteSet(T) /\ x \notin T
        BY <3>7, <3>8, <4>1
      <4>3. \A y \in T \cup {x} : AmountOf[y] \in Nat
        BY <3>9, <4>1
      <4>. QED BY <4>1, <4>2, <4>3, SumAdd
    <3>11. Booked(b) = Backing(b) + j.amount
      BY <2>2, <3>5, <3>7, <3>9, <3>10 DEF Backing
    <3>12. j.seen \in Bill /\ j.amount \in Nat
      <4>1. j.seen \in Bill /\ j.amount \in 0..MaxCharge
        BY DEF Job
      <4>. QED BY <4>1, MaxChargeType
    <3>13. j.seen.paid + j.amount <= Charged(j.seen)
      <4>1. /\ Balance(j.seen) = IF Charged(j.seen) >= j.seen.paid
                                 THEN Charged(j.seen) - j.seen.paid ELSE 0
            /\ j.seen.paid \in Nat /\ Charged(j.seen) \in Nat
        BY <3>12, BalanceIs, BillFields
      <4>. QED BY <3>4, <3>12, <4>1
    <3>14. Charged(j.seen) = Charged(bills[b]) /\ j.seen.paid = bills[b].paid
      BY <3>4 DEF SameBill, Charged
    <3>. QED BY <2>3, <3>11, <3>13, <3>14
  <2>5. CASE ~\E w \in Workers : InCredit(w) /\ worker[w].bill = b
    <3>1. S = Settled(b)
      BY <2>5 DEF Settled, Entry
    <3>2. Booked(b) = Backing(b)
      BY <2>2, <3>1 DEF Backing
    <3>. QED BY <2>3, <3>2
  <2>. QED BY <2>4, <2>5
<1>2. Exact => NoOverpayment
  BY <1>1
<1>. QED BY <1>2, ExactAlways, PTL
=============================================================================
