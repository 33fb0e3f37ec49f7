--------------------------- MODULE BillSettlement ---------------------------
(***************************************************************************)
(* How payments reach the bills.  A tenant opens a PayMongo checkout for   *)
(* one bill or for several, pays it, and the payment arrives by a webhook, *)
(* by polling, or both; an administrator records cash.  Every payment      *)
(* becomes a Payment document (the ledger) and is added to the paidAmount  *)
(* of its bill.                                                            *)
(*                                                                         *)
(* The ledger is written before the bill and outside any transaction, from *)
(* the bill a handler read earlier.  Handlers overlap, a save may fail and *)
(* the process may stop between two writes.                                *)
(*                                                                         *)
(* A bill that is not paid when it is due becomes overdue and is charged a *)
(* late fee for every day; an arrangement or a cancelled transfer voids    *)
(* it.  Whoever changes a bill saves the fields that differ from the ones  *)
(* it read, so that two writers of different fields both succeed.          *)
(*                                                                         *)
(* Amounts are whole units; every bill has the same total without its late *)
(* fee and the same due date.  The total and the remaining amount are      *)
(* functions of the other fields, the status is stored.                    *)
(***************************************************************************)
EXTENDS Naturals, FiniteSetsExt

CONSTANTS
    Bills,      \* published bills of one tenant
    Payments,   \* PayMongo payments, each with a checkout session of its own
    Receipts,   \* payments an administrator records by hand (a bound)
    Workers,    \* requests the server runs at a time (a bound)
    Kinds,      \* what a run exercises (a bound)
    Total,      \* the total of a bill, without the late fee
    Grace,      \* days after the due date that cost nothing
    MaxDay,     \* the last day of the model (a bound)
    NoPayment   \* no paymongoPaymentId

ASSUME BillAssumption ==
    /\ IsFiniteSet(Bills)
    /\ Payments \cap Receipts = {}
    /\ NoPayment \notin Payments
    /\ Total \in Nat \ {0}
    /\ Grace \in Nat /\ MaxDay \in Nat

VARIABLES
    today,      \* days after the due date
    bills,      \* the bill documents
    ledger,     \* the Payment documents
    session,    \* the checkout sessions at PayMongo
    event,      \* the PaymongoWebhookEvent of every payment
    worker      \* what every worker is in the middle of

vars == <<today, bills, ledger, session, event, worker>>

-----------------------------------------------------------------------------
(* Documents                                                               *)

\* computePenalty: one unit for every day after the grace period.
LateFee(d) == IF d > Grace THEN d - Grace ELSE 0

MaxCharge == Total + LateFee(MaxDay)

Bill == [paid: 0..MaxCharge, payment: Payments \cup {NoPayment},
         penalty: 0..LateFee(MaxDay),
         status: {"pending", "partially-paid", "overdue", "paid", "voided"}]

Payment == [id: Payments \cup Receipts, bill: Bills, amount: 1..MaxCharge]

Session == [state: {"none", "open", "paid"}, bills: SUBSET Bills, amount: Nat]

\* A job settles payment "id" on the bills "todo".  It is about to read a
\* bill, look the payment up, create the Payment, save the bill, or save it
\* once more with the reference of the payment.
Job == [op: {"webhook", "poll", "manual"}, id: Payments \cup Receipts,
        pc: {"read", "find", "record", "credit", "mark"},
        todo: SUBSET Bills, bill: Bills, seen: Bill, amount: 0..MaxCharge]

\* A job that read some bills and saves them changed, one after the other.
Rewrite == [op: {"rewrite"}, id: {NoPayment}, pc: {"save"},
            todo: SUBSET Bills, new: UNION {[B -> Bill] : B \in SUBSET Bills},
            read: UNION {[B -> Bill] : B \in SUBSET Bills}]

Idle == [op |-> "idle"]

Charged(d) == Total + d.penalty

\* getBillRemainingAmount, which does not know voided bills
Balance(d) == Max({Charged(d) - d.paid, 0})

\* The remaining amount of getVisibleBillSnapshot
Remaining(d) == IF d.status = "voided" THEN 0 ELSE Balance(d)

\* resolveBillStatus
Resolved(d) ==
    CASE Balance(d) = 0 -> "paid"
      [] Balance(d) > 0 /\ today > 0 -> "overdue"
      [] Balance(d) > 0 /\ today = 0 /\ d.paid > 0 -> "partially-paid"
      [] OTHER -> "pending"

\* syncBillAmounts: a voided bill stays voided.
Synced(d) ==
    IF d.status = "voided" THEN d ELSE [d EXCEPT !.status = Resolved(d)]

Due(B) == MapThenSumSet(LAMBDA b : Remaining(bills[b]), B)

\* What save() writes: the fields that differ from the document it read.
Saved(b, read, new) ==
    [f \in DOMAIN new |-> IF new[f] # read[f] THEN new[f] ELSE bills[b][f]]

Recorded(id) == \E e \in ledger : e.id = id

\* Mutation: the Payment books what the gateway took, not what the bill got.
EntryOfSession(j) ==
    [id |-> j.id, bill |-> j.bill,
     amount |-> IF j.op = "manual" THEN j.amount ELSE session[j.id].amount]

Entry(j) == [id |-> j.id, bill |-> j.bill, amount |-> j.amount]

-----------------------------------------------------------------------------
(* What changes a bill without a payment                                   *)

\* Reads the bills B and goes on to save what New makes of them.
StartRewrite(w, B, New(_)) ==
    /\ worker[w] = Idle
    /\ B # {}
    /\ worker' = [worker EXCEPT ![w] =
            [op |-> "rewrite", id |-> NoPayment, pc |-> "save", todo |-> B,
             read |-> [b \in B |-> bills[b]],
             new |-> [b \in B |-> New(bills[b])]]]

Save(w, b) ==
    LET j == worker[w] IN
    /\ j.op = "rewrite" /\ b \in j.todo
    /\ bills' = [bills EXCEPT ![b] = Saved(b, j.read[b], j.new[b])]
    /\ worker' = [worker EXCEPT ![w] = IF j.todo = {b} THEN Idle
                                       ELSE [j EXCEPT !.todo = @ \ {b}]]
    /\ UNCHANGED <<today, ledger, session, event>>

WithStatus(d, status) == [d EXCEPT !.status = status]

\* Mutation: a bill that was paid in part is not looked at.
MarkablePending(d) == d.status = "pending"

Markable(d) == d.status \in {"pending", "partially-paid"}

\* markOverdueBills of the scheduler
MarkOverdue(w) ==
    /\ "late" \in Kinds
    /\ today > 0
    /\ StartRewrite(w, {b \in Bills : Markable(bills[b])},
                    LAMBDA d : WithStatus(d, "overdue"))
    /\ UNCHANGED <<today, bills, ledger, session, event>>

\* The statuses that computeOverduePenalties, executeLatePenaltyCron and
\* applyPenalties ask for.
Nightly == {"overdue"}

Engine == {"pending", "overdue"}

ByHand == {"pending", "overdue", "partially-paid"}

\* Each charges the fee of today; only applyPenalties also saves a bill with
\* the same fee as before.
ChargeLateFees(w, statuses) ==
    /\ "late" \in Kinds
    /\ today > 0
    /\ StartRewrite(w, {b \in Bills :
                          /\ bills[b].status \in statuses
                          /\ \/ bills[b].penalty # LateFee(today)
                             \/ statuses = ByHand},
          LAMBDA d : Synced([d EXCEPT !.penalty = LateFee(today)]))
    /\ UNCHANGED <<today, bills, ledger, session, event>>

\* fetchBills: an administrator lists the bills, and what the list shows is
\* saved (markOverdueBills).
ListBills(w) ==
    /\ "list" \in Kinds
    /\ StartRewrite(w, {b \in Bills : bills[b].status # Resolved(bills[b])},
                    LAMBDA d : WithStatus(d, Resolved(d)))
    /\ UNCHANGED <<today, bills, ledger, session, event>>

\* createMilestoneSubInvoices; the new invoices are other bills.
Split(w, b) ==
    /\ "void" \in Kinds
    /\ bills[b].status \notin {"paid", "voided"}
    /\ StartRewrite(w, {b}, LAMBDA d : WithStatus(d, "voided"))
    /\ UNCHANGED <<today, bills, ledger, session, event>>

\* voidUnpaidBalanceBill, in the transaction that cancels a transfer
VoidUnpaid(b) ==
    /\ "void" \in Kinds
    /\ bills[b].status # "voided" /\ bills[b].paid = 0
    /\ bills' = [bills EXCEPT ![b].status = "voided"]
    /\ UNCHANGED <<today, ledger, session, event, worker>>

Tomorrow ==
    /\ "late" \in Kinds
    /\ today < MaxDay
    /\ today' = today + 1
    /\ UNCHANGED <<bills, ledger, session, event, worker>>

-----------------------------------------------------------------------------
(* The tenant and PayMongo                                                 *)

Balances(B) == MapThenSumSet(LAMBDA b : Balance(bills[b]), B)

\* createBillCheckout, createMultiBillCheckout: for the balance the bills
\* have now.  The idempotency key returns an open session for the same bills
\* and the same balance.  The checkout of one bill saves the status it
\* resolved, also of a voided bill.
OpenCheckout(w, p, B) ==
    /\ worker[w] = Idle
    /\ session[p].state = "none"
    /\ B # {}
    /\ \A b \in B : Balance(bills[b]) > 0
    /\ \A q \in Payments :
          session[q] # [state |-> "open", bills |-> B, amount |-> Balances(B)]
    /\ session' = [session EXCEPT ![p] = [state |-> "open", bills |-> B,
                                          amount |-> Balances(B)]]
    /\ \/ /\ \E b \in B : /\ B = {b}
                           /\ bills[b].status # Resolved(bills[b])
          /\ StartRewrite(w, B, LAMBDA d : WithStatus(d, Resolved(d)))
       \/ /\ ~\E b \in B : /\ B = {b}
                            /\ bills[b].status # Resolved(bills[b])
          /\ UNCHANGED worker
    /\ UNCHANGED <<today, bills, ledger, event>>

Pay(p) ==
    /\ session[p].state = "open"
    /\ session' = [session EXCEPT ![p].state = "paid"]
    /\ UNCHANGED <<today, bills, ledger, event, worker>>

-----------------------------------------------------------------------------
(* Settlement                                                              *)

Start(w, op, p) ==
    /\ op \in Kinds
    /\ worker[w] = Idle
    /\ session[p].state = "paid"
    /\ \E b \in session[p].bills :
          worker' = [worker EXCEPT ![w] =
                        [op |-> op, id |-> p, pc |-> "read",
                         todo |-> session[p].bills, bill |-> b,
                         seen |-> bills[b], amount |-> 0]]
    /\ UNCHANGED <<today, bills, ledger, session>>

\* handlePaymongoWebhook and beginWebhookEvent: a delivery is a duplicate
\* only once an earlier one was processed.
Deliver(w, p) ==
    /\ event[p] # "processed"
    /\ Start(w, "webhook", p)
    /\ event' = [event EXCEPT ![p] = "processing"]

\* checkSessionStatus, and the status route of the mobile app
Poll(w, p) == Start(w, "poll", p) /\ UNCHANGED event

\* applyBillPayment refuses an overpayment instead of cutting it.  It takes
\* money for a voided bill.
Acceptable(a, d) == a <= Balance(d)

\* markBillAsPaid
Manual(w, id, b, a) ==
    /\ "manual" \in Kinds
    /\ worker[w] = Idle
    /\ ~Recorded(id)
    /\ \A v \in Workers : worker[v] # Idle => worker[v].id # id
    /\ Acceptable(a, bills[b])
    /\ worker' = [worker EXCEPT ![w] =
                    [op |-> "manual", id |-> id, pc |-> "record", todo |-> {},
                     bill |-> b, seen |-> bills[b], amount |-> a]]
    /\ UNCHANGED <<today, bills, ledger, session, event>>

\* finishWebhookEvent
Conclude(j, outcome) ==
    event' = IF j.op = "webhook" THEN [event EXCEPT ![j.id] = outcome]
             ELSE event

\* Mutation: a handler that throws leaves the event as it is.
ForgetFailure(j) == event' = event

\* The catch block of the webhook.
ConcludeFailed(j) == Conclude(j, "failed")

End(w) == worker' = [worker EXCEPT ![w] = Idle]

Goto(w, pc) == worker' = [worker EXCEPT ![w].pc = pc]

\* settlePaymongoBill: nothing to do for a bill that carries this payment or
\* has no balance; else what fits into the balance it read.  A payment of
\* several bills brings every bill what it needs.
Applied(j, d) ==
    IF d.payment = j.id \/ Remaining(d) = 0 THEN 0
    ELSE IF Cardinality(session[j.id].bills) > 1 THEN Remaining(d)
    ELSE Min({Remaining(d), session[j.id].amount})

Read(w, b) ==
    LET j == worker[w] IN
    /\ j.op \in {"webhook", "poll"}
    /\ j.pc = "read"
    /\ b \in j.todo
    /\ worker' = [worker EXCEPT ![w] =
            [j EXCEPT !.todo = @ \ {b},
                      !.bill = b,
                      !.seen = bills[b],
                      !.amount = Applied(j, bills[b]),
                      !.pc = IF Applied(j, bills[b]) = 0 THEN "read"
                             ELSE "find"]]
    /\ UNCHANGED <<today, bills, ledger, session, event>>

Done(w) ==
    LET j == worker[w] IN
    /\ j.op \in {"webhook", "poll"}
    /\ j.pc = "read"
    /\ j.todo = {}
    /\ Conclude(j, "processed")
    /\ End(w)
    /\ UNCHANGED <<today, bills, ledger, session>>

\* Mutation: a payment found in the ledger is credited (again).
CreditReused(id) == IF Recorded(id) THEN "credit" ELSE "record"

\* applyBillPayment: a payment found in the ledger is not applied again, on
\* whatever bill it was.
AfterFind(id) == IF Recorded(id) THEN "read" ELSE "record"

Find(w) ==
    LET j == worker[w] IN
    /\ j.op \in {"webhook", "poll"}
    /\ j.pc = "find"
    /\ Goto(w, AfterFind(j.id))
    /\ UNCHANGED <<today, bills, ledger, session, event>>

\* Mutation: no unique index on externalPaymentId.
NeverRefused(id) == FALSE

\* The unique index on externalPaymentId.
Refused(id) == id \in Payments /\ Recorded(id)

Record(w) ==
    LET j == worker[w] IN
    /\ worker[w] # Idle
    /\ j.pc = "record"
    /\ IF Refused(j.id)
       THEN /\ ConcludeFailed(j)
            /\ End(w)
            /\ UNCHANGED ledger
       ELSE /\ ledger' = ledger \cup {Entry(j)}
            /\ Goto(w, "credit")
            /\ UNCHANGED event
    /\ UNCHANGED <<today, bills, session>>

\* finalizeBillPayment adds to the bill it read.
WithPayment(j) == Synced([j.seen EXCEPT !.paid = @ + j.amount])

Credit(w) ==
    LET j == worker[w] IN
    /\ worker[w] # Idle
    /\ j.pc = "credit"
    /\ bills' = [bills EXCEPT ![j.bill] = Saved(j.bill, j.seen, WithPayment(j))]
    /\ IF j.op = "manual" THEN End(w) ELSE Goto(w, "mark")
    /\ UNCHANGED <<today, ledger, session, event>>

\* Mutation: the Payment of a bill that was not saved stays.
KeepEntry(j) == ledger

\* rollbackCreatedPayment
Rollback(j) == ledger \ {Entry(j)}

\* The bill cannot be saved.
CreditFails(w) ==
    LET j == worker[w] IN
    /\ "fail" \in Kinds
    /\ worker[w] # Idle
    /\ j.pc = "credit"
    /\ ledger' = Rollback(j)
    /\ ConcludeFailed(j)
    /\ End(w)
    /\ UNCHANGED <<today, bills, session>>

Mark(w) ==
    LET j == worker[w] IN
    /\ worker[w] # Idle
    /\ j.pc = "mark"
    /\ bills' = [bills EXCEPT ![j.bill].payment = j.id]
    /\ Goto(w, "read")
    /\ UNCHANGED <<today, ledger, session, event>>

\* The process stops.
Crash(w) ==
    /\ "crash" \in Kinds
    /\ worker[w] # Idle
    /\ End(w)
    /\ UNCHANGED <<today, bills, ledger, session, event>>

-----------------------------------------------------------------------------

Init ==
    /\ today = 0
    /\ bills = [b \in Bills |-> [paid |-> 0, payment |-> NoPayment,
                                 penalty |-> 0, status |-> "pending"]]
    /\ ledger = {}
    /\ session = [p \in Payments |->
                    [state |-> "none", bills |-> {}, amount |-> 0]]
    /\ event = [p \in Payments |-> "none"]
    /\ worker = [w \in Workers |-> Idle]

Proceed(w) ==
    \/ \E b \in Bills : Read(w, b) \/ Save(w, b)
    \/ Done(w)
    \/ Find(w)
    \/ Record(w)
    \/ Credit(w)
    \/ CreditFails(w)
    \/ Mark(w)

Next ==
    \/ Tomorrow
    \/ \E b \in Bills : VoidUnpaid(b)
    \/ \E p \in Payments : Pay(p)
    \/ \E w \in Workers :
          \/ Proceed(w)
          \/ Crash(w)
          \/ \E p \in Payments :
                \/ Deliver(w, p) \/ Poll(w, p)
                \/ \E B \in SUBSET Bills : OpenCheckout(w, p, B)
          \/ \E id \in Receipts, b \in Bills, a \in 1..MaxCharge :
                Manual(w, id, b, a)
          \/ MarkOverdue(w) \/ ListBills(w)
          \/ \E S \in {Nightly, Engine, ByHand} : ChargeLateFees(w, S)
          \/ \E b \in Bills : Split(w, b)

Spec == Init /\ [][Next]_vars

\* A handler that started goes on, and the two nightly jobs run however busy
\* the server is.  Nobody has to pay, to list bills or to charge by hand.
FairSpec ==
    /\ Spec
    /\ \A w \in Workers : WF_vars(Proceed(w))
    /\ SF_vars(\E w \in Workers : MarkOverdue(w))
    /\ SF_vars(\E w \in Workers : ChargeLateFees(w, Nightly))

-----------------------------------------------------------------------------
(* Properties                                                              *)

TypeOK ==
    /\ today \in 0..MaxDay
    /\ bills \in [Bills -> Bill]
    /\ ledger \subseteq Payment
    /\ session \in [Payments -> Session]
    /\ event \in [Payments -> {"none", "processing", "processed", "failed"}]
    /\ worker \in [Workers -> {Idle} \cup Job \cup Rewrite]

Booked(b) ==
    MapThenSumSet(LAMBDA e : e.amount, {e \in ledger : e.bill = b})

Quiet == \A w \in Workers : worker[w] = Idle

\* A PayMongo payment enters the ledger once, however often and on however
\* many ways it arrives at the same time.
OneEntryPerPayment ==
    \A d, e \in ledger : d.id = e.id => d = e

\* No bill shows money that no Payment document accounts for, also when
\* handlers overlap, saves fail and the process stops.
CreditBackedByRecord ==
    \A b \in Bills : bills[b].paid <= Booked(b)

\* One request at a time, a bill shows exactly what the ledger holds for it,
\* also after saves that failed; and its stored status, which the jobs go by,
\* is paid exactly when that covers the total with the late fee.
LedgerMatchesBill ==
    Quiet => \A b \in Bills :
        /\ bills[b].paid = Booked(b)
        /\ bills[b].status # "voided" =>
              (bills[b].status = "paid") = (Balance(bills[b]) = 0)

\* A webhook that was answered with 200 comes to an end: the payment is in
\* the ledger, its bills need no money, or the event is left as failed.
AcceptedIsConcluded ==
    \A p \in Payments :
        event[p] = "processing" ~>
            \/ event[p] = "failed"
            \/ event[p] = "processed" /\ (\/ Recorded(p)
                                          \/ Due(session[p].bills) = 0)

\* One request at a time, a payment above the balance is rejected, so the
\* ledger never holds more than a bill asks for.  Requests that overlap pass
\* the same balance twice.
NoOverpayment ==
    \A b \in Bills : Booked(b) <= Charged(bills[b])

\* One request at a time, nobody gets away with paying late: a bill that has
\* a balance after the grace period is charged the late fee of a day that
\* came, also when it was paid in part before it was due.
UnpaidIsCharged ==
    \A b \in Bills :
        []<>(Remaining(bills[b]) = 0 \/ bills[b].penalty = LateFee(today))
=============================================================================
