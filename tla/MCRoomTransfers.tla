-------------------------- MODULE MCRoomTransfers --------------------------
(* What a run of RoomTransfers exercises.                                  *)
EXTENDS RoomTransfers, TLC

CONSTANTS b1, b2, b3, r1, r2

\* Two beds in the first room, one in the second.
OneAcross == b1 :> r1 @@ b2 :> r1 @@ b3 :> r2

Alike == Permutations(Tenants) \cup Permutations(Transfers)
            \cup Permutations(Workers)

\* Requests that overlap, stall, fail and stop.
RaceKinds == {"complete", "cancel", "reschedule", "depart", "pay",
              "acknowledge", "crash", "fail"}

\* One request at a time, with the nightly sweep.
NightKinds == {"complete", "cancel", "depart", "pay", "acknowledge",
               "discard", "sweep"}
=============================================================================
