------------------------- MODULE MCTransferRequests -------------------------
(* What a run of TransferRequests exercises.                               *)
EXTENDS TransferRequests

\* Overlapping requests, failed links and copies, crashes.
RaceKinds == {"unasked", "reschedule", "fail", "crash"}
=============================================================================
