------------------------- MODULE TransferLifecycle -------------------------
(***************************************************************************)
(* What a scheduled room transfer promises, whoever works on it and        *)
(* however the requests overlap: the destination bed is kept for one       *)
(* transfer, the tenant moves in the step that ends the transfer and uses  *)
(* the hold up, and a transfer ends once.                                  *)
(***************************************************************************)
EXTENDS Naturals

CONSTANTS
    Tenants,    \* the tenants of the dormitory
    Beds,       \* their beds
    Transfers,  \* scheduled transfers
    None        \* no bed, no tenant

VARIABLES
    home,       \* the bed every tenant sleeps in
    transfer    \* phase, tenant, destination and hold of every transfer

vars == <<home, transfer>>

Promised(b) ==
    \/ \E t \in Tenants : home[t] = b
    \/ \E x \in Transfers : transfer[x].held /\ transfer[x].bed = b

Init ==
    /\ home \in [Tenants -> Beds]
    /\ \A t, u \in Tenants : home[t] = home[u] => t = u
    /\ transfer = [x \in Transfers |-> [phase |-> "none", tenant |-> None,
                                        bed |-> None, held |-> FALSE]]

\* A tenant opens one transfer at a time, to a bed nobody was promised.
Open(x, t, b) ==
    /\ transfer[x].phase = "none"
    /\ home[t] # None
    /\ ~Promised(b)
    /\ \A y \in Transfers :
          ~(transfer[y].phase = "open" /\ transfer[y].tenant = t)
    /\ transfer' = [transfer EXCEPT ![x] = [phase |-> "open", tenant |-> t,
                                            bed |-> b, held |-> TRUE]]
    /\ UNCHANGED home

\* The transfer goes on, or ends, in a phase without its hold.
WithoutHold(x, phase) ==
    transfer' = [transfer EXCEPT ![x] = [phase |-> phase,
                                         tenant |-> transfer[x].tenant,
                                         bed |-> transfer[x].bed,
                                         held |-> FALSE]]

\* The move and the end of the transfer are one step.
Execute(x) ==
    /\ transfer[x].phase = "open"
    /\ transfer[x].held
    /\ home[transfer[x].tenant] # None
    /\ home' = [home EXCEPT ![transfer[x].tenant] = transfer[x].bed]
    /\ WithoutHold(x, "executed")

Cancel(x) ==
    /\ transfer[x].phase = "open"
    /\ WithoutHold(x, "cancelled")
    /\ UNCHANGED home

\* Only for a tenant who left; his transfer can never be executed.
Release(x) ==
    /\ transfer[x].phase = "open"
    /\ transfer[x].held
    /\ home[transfer[x].tenant] = None
    /\ WithoutHold(x, "open")
    /\ UNCHANGED home

Leave(t) ==
    /\ home[t] # None
    /\ home' = [home EXCEPT ![t] = None]
    /\ UNCHANGED transfer

Next ==
    \/ \E x \in Transfers, t \in Tenants, b \in Beds : Open(x, t, b)
    \/ \E x \in Transfers : Execute(x) \/ Cancel(x) \/ Release(x)
    \/ \E t \in Tenants : Leave(t)

Spec == Init /\ [][Next]_vars
=============================================================================
