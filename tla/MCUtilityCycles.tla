--------------------------- MODULE MCUtilityCycles ---------------------------
(* Small instances of UtilityCycles for TLC.                                *)
EXTENDS UtilityCycles

\* A night without use and one whose cost two tenants cannot halve.
TwoUses == {0, 3}

AllKinds == {"open", "leave", "transfer", "return", "replace", "revise"}
=============================================================================
