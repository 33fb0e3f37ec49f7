------------------------------ MODULE BedClaims ------------------------------
(***************************************************************************)
(* What the reservation code promises about beds: a reservation claims at  *)
(* most one bed, it claims only a bed nobody else claims, and claims change *)
(* one at a time.                                                          *)
(***************************************************************************)
CONSTANTS
    Reservations,
    Beds,
    NoBed

VARIABLE claim      \* the bed every reservation claims

Init == claim = [r \in Reservations |-> NoBed]

\* The first claim, or the change to another bed.
Claim(r, b) ==
    /\ \A q \in Reservations \ {r} : claim[q] # b
    /\ claim' = [claim EXCEPT ![r] = b]

Release(r) == claim' = [claim EXCEPT ![r] = NoBed]

Next ==
    \E r \in Reservations : Release(r) \/ \E b \in Beds : Claim(r, b)

Spec == Init /\ [][Next]_claim

=============================================================================
