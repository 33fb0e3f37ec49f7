------------------------- MODULE MCRoomReservations -------------------------
(* Which operations and which decisions of an administrator a run of       *)
(* RoomReservations exercises.                                             *)
EXTENDS RoomReservations, TLC

Alike == Permutations(Reservations) \cup Permutations(Beds)

AlikeWorkers == Alike \cup Permutations(Workers)

\* One request at a time, everything that does not archive.
SerialKinds ==
    {"create", "submit", "admin", "checkout", "settle",
     "requestCancellation", "approveCancellation", "rejectCancellation",
     "releaseSlot", "softDelete", "expire", "noShow", "flag", "moveOut",
     "abandon", "reconcile", "recalculate", "fail"}

\* Requests, jobs and callbacks that overlap.
RaceKinds ==
    {"create", "admin", "checkout", "proof", "settle", "expire",
     "recalculate"}

RaceDecisions ==
    {"approved_for_payment", "reserved", "moveIn", "moveOut", "cancelled"}

\* Bed releases that get lost, and the nightly job.
RepairKinds ==
    {"create", "admin", "checkout", "settle", "userCancel",
     "requestCancellation", "withdrawCancellation", "approveCancellation",
     "archive", "restore", "maintenance", "reconcile", "fail"}

RepairDecisions == {"approved_for_payment", "moveIn", "moveOut", "archived"}

\* A scheduler job and a payment at the same time.
ExpiryKinds == {"create", "admin", "checkout", "settle", "expire"}

ApproveOnly == {"approved_for_payment"}
=============================================================================
