---------------------------- MODULE MCSignaling ----------------------------
(* Signaling for TLC: small sets of interchangeable model values.  The two  *)
(* clients of the safety run have different bursts and are told apart.      *)
EXTENDS Signaling, TLC

CONSTANT c1

(* One client that may connect and then relay or say Bye (or connect again), *)
(* a second one that may connect once, one message per host connection.     *)
SafetyBurst == [a \in Actor |-> IF a = c1 THEN 2 ELSE IF a = Rotator THEN 0 ELSE 1]

(* A client may send twice, a host once; the rotation task does not run.    *)
LiveBurst == [a \in Actor |-> IF a \in Client THEN 2 ELSE IF a = Rotator THEN 0 ELSE 1]

SafetySymmetry == Permutations(Host) \cup Permutations(HostConn) \cup Permutations(Sid)
                  \cup Permutations(Pin)
=============================================================================
