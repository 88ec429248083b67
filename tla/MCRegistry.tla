----------------------------- MODULE MCRegistry -----------------------------
(* The registry for TLC, under either kind of caller.  Without connection   *)
(* tasks it is called by the most general one of Registry; with them, by    *)
(* those of Signaling, of which one connection and one client stay away,    *)
(* and by the PIN rotation task.                                           *)
EXTENDS Signaling, TLC

(* A join of each client and one tick of the rotation task; hosts send       *)
(* nothing.                                                                *)
PinsBurst == [a \in Actor |-> IF a \in HostConn THEN 0 ELSE 1]

Absent(away) ==
    /\ phase = [x \in Conn |-> IF x \in away THEN "absent"
                               ELSE IF x \in Client THEN "serving" ELSE "new"]
    /\ budget = [a \in Actor |-> IF a \in away THEN 0 ELSE Burst[a]]

mcInit ==
    /\ \/ Absent(Actor)
       \/ \E k \in HostConn, c \in Client : Absent({k, c})
    /\ RegInit
    /\ regOf = [x \in HostConn |-> None] /\ cur = [x \in HostConn |-> None]
    /\ todo = [a \in Actor |-> <<>>] /\ out = [x \in Conn |-> <<>>]
    /\ gate = [x \in Conn |-> "open"] /\ link = [x \in HostConn |-> "none"]
    /\ known = [x \in Conn |-> {}] /\ pins = [x \in HostConn |-> <<>>]
    /\ issued = [s \in Sid |-> NotIssued]

AnyCall ==
    /\ \A x \in Conn : phase[x] = "absent"
    /\ RegNext
    /\ UNCHANGED <<connVars, todo, out, gate, agentVars, issued>>

mcNext == AnyCall \/ SigNext

(* With connection tasks one device is online at a time.                    *)
OneDevice ==
    (\A x \in Conn : phase[x] = "absent") \/ Cardinality({h \in Host : Online(h)}) <= 1

mcSpec == mcInit /\ [][mcNext]_sigVars

Symmetry == Permutations(Host) \cup Permutations(HostConn) \cup Permutations(Client)
            \cup Permutations(Sid) \cup Permutations(Pin)
=============================================================================
