--------------------------- MODULE MCStayChanges ---------------------------
(* What the runs of StayChanges exercise.                                  *)
EXTENDS StayChanges, TLC

\* Clearances, beside the other plans.
PlanKinds == {"clearance"}

\* Preparations that outlive their lock.
StallKinds == {"stall"}

\* Sound for invariants: no action tells two workers apart.
WorkerSymmetry == Permutations(Workers)
=============================================================================
