------------------------------ MODULE Occupancy ------------------------------
(***************************************************************************)
(* What the registry promises the rest of the server about a device, with  *)
(* PINs, connections and session ids left out: a host is offline, free,    *)
(* held by one client, or detached -- busy with a session that it reported *)
(* itself and that the server knows no client of (slice 3.2a/D35).  One    *)
(* critical section changes one host, a client gets a host only when that  *)
(* host is free and the client holds none, and a detached or held host     *)
(* becomes free without going offline.                                     *)
(***************************************************************************)
CONSTANTS Host, Client, None

VARIABLES
    status,     \* Host -> "offline" | "free" | "held" | "detached"
    holder      \* Host -> the client that holds it, or None

occVars == <<status, holder>>

OccInit ==
    /\ status = [h \in Host |-> "offline"]
    /\ holder = [h \in Host |-> None]

Becomes(h, st, who) ==
    /\ status' = [status EXCEPT ![h] = st]
    /\ holder' = [holder EXCEPT ![h] = who]

(* A registration, first or repeated, without a session to re-attach: the   *)
(* host starts free, or detached.                                           *)
ComesOnline(h) == \E st \in {"free", "detached"} : Becomes(h, st, None)

GoesOffline(h) ==
    /\ status[h] # "offline"
    /\ Becomes(h, "offline", None)

Occupies(h, c) ==
    /\ status[h] = "free"
    /\ \A g \in Host : holder[g] # c
    /\ Becomes(h, "held", c)

Leaves(h) ==
    /\ status[h] \in {"held", "detached"}
    /\ Becomes(h, "free", None)

OccNext ==
    \E h \in Host :
        \/ ComesOnline(h)
        \/ GoesOffline(h)
        \/ Leaves(h)
        \/ \E c \in Client : Occupies(h, c)

OccSpec == OccInit /\ [][OccNext]_occVars
=============================================================================
