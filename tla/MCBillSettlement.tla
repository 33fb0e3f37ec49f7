-------------------------- MODULE MCBillSettlement --------------------------
(* What a run of BillSettlement exercises.                                 *)
EXTENDS BillSettlement, TLC

Alike == Permutations(Bills) \cup Permutations(Payments)
            \cup Permutations(Workers)

\* One request at a time over the days; saves may fail.
SerialKinds == {"webhook", "manual", "fail", "late"}

\* Everything at once, on the day the bills are due.
RaceKinds ==
    {"webhook", "poll", "manual", "fail", "crash", "list", "void"}
=============================================================================
