---------------------------- MODULE TenancyLine ----------------------------
(***************************************************************************)
(* What a tenancy promises whoever renews, transfers or ends it: one stay  *)
(* is in force, at most one further stay is planned, the planned stay      *)
(* takes over in one step when it is ready, and a departure ends both.     *)
(***************************************************************************)
EXTENDS Naturals

CONSTANT MaxStays   \* stays of the tenancy (a bound)

VARIABLES
    inForce,    \* the stay in force, none after the departure
    planned,    \* the stay that is to follow
    ready       \* stays that may take over: signed, and their first day came

lineVars == <<inForce, planned, ready>>

LineInit == inForce = {1} /\ planned = {} /\ ready = {}

Prepare == /\ ready' \in SUBSET (1..MaxStays) /\ ready \subseteq ready'
           /\ UNCHANGED <<inForce, planned>>

Plan == /\ inForce # {} /\ planned = {}
        /\ \E s \in 1..MaxStays :
              /\ \A t \in inForce : t < s
              /\ planned' = {s}
        /\ UNCHANGED <<inForce, ready>>

TakeOver == /\ planned # {} /\ planned \subseteq ready
            /\ inForce' = planned /\ planned' = {}
            /\ UNCHANGED ready

Depart == /\ inForce # {}
          /\ inForce' = {} /\ planned' = {}
          /\ UNCHANGED ready

LineNext == Prepare \/ Plan \/ TakeOver \/ Depart

LineSpec == LineInit /\ [][LineNext]_lineVars
=============================================================================
