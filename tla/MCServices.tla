---------------------------- MODULE MCServices ----------------------------
(* Confirmation codes, limiters and waking on the server, uploads and       *)
(* session recovery, for TLC.  They share no state, so one run looks at     *)
(* them one at a time: `service` says which one, the others stay where      *)
(* they start.                                                              *)
EXTENDS EmailCodes, Limiter, Wake, Uploads, Recovery, TLC

CONSTANTS g1, g2, i1, m1, m2, r1, u1, u2

(* Two connections of one address.                                         *)
mcIpOf == (g1 :> i1) @@ (g2 :> i1)
mcBurst == (i1 :> 2) @@ (Everyone :> 3)
mcRefill == (i1 :> 2) @@ (Everyone :> 1)

(* Both machines are in the router's network, and each in the other's.     *)
mcSameNet == (m1 :> {m2, r1}) @@ (m2 :> {m1, r1})

(* Two files of one chunk.                                                 *)
mcSize == (u1 :> 1) @@ (u2 :> 1)

VARIABLE service
mcVars == <<service, codeVars, limVars, wakeVars, uplVars, recVars>>

mcInit ==
    /\ service \in {"codes", "limiters", "wake", "uploads", "recovery"}
    /\ CodesInit /\ LimInit /\ WakeInit /\ UplInit /\ RecInit
    /\ service # "limiters" => since = 0 /\ limited = "pin"
    /\ service # "wake" => awake = {}

mcNext ==
    /\ UNCHANGED service
    /\ \/ /\ service = "codes" /\ CodesNext
          /\ UNCHANGED <<limVars, wakeVars, uplVars, recVars>>
       \/ /\ service = "limiters" /\ LimNext
          /\ UNCHANGED <<codeVars, wakeVars, uplVars, recVars>>
       \/ /\ service = "wake" /\ WakeNext
          /\ UNCHANGED <<codeVars, limVars, uplVars, recVars>>
       \/ /\ service = "uploads" /\ UplNext
          /\ UNCHANGED <<codeVars, limVars, wakeVars, recVars>>
       \/ /\ service = "recovery" /\ RecNext
          /\ UNCHANGED <<codeVars, limVars, wakeVars, uplVars>>

mcSpec == mcInit /\ [][mcNext]_mcVars

(* Sessions with uploads, uploads and the computers a tab may be connected  *)
(* to are interchangeable.                                                 *)
ServicesSymmetry ==
    Permutations(Session) \cup Permutations(Upload) \cup Permutations(Computer)
=============================================================================
