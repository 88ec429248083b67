----------------------------- MODULE MCSession ------------------------------
(* What a session is for, for TLC: the picture, its rate and the input.     *)
(* They share no state, so the run looks at them one at a time: `part` says *)
(* at which, the others are at rest (fairness asks nothing of them).        *)
EXTENDS Video, Input, Adapt, TLC

VARIABLE part
mcVars == <<part, vidVars, inputVars, rateVars>>

NoPicture ==
    /\ inPicture = FALSE /\ current = 1 /\ generation = 0 /\ keyframe = FALSE
    /\ pipe = [p \in Pipe |-> NoPipe] /\ building = NoBuild
    /\ geometry = [d \in Display |-> 0] /\ polled = NoBuild /\ pollId = 0
    /\ curtain = 0 /\ excluded = 0 /\ recoveries = 0 /\ failures = 0 /\ changes = 0
    /\ connected = FALSE /\ negotiated = FALSE /\ picture = NoBuild /\ trouble = 0

mcInit ==
    /\ InputInit /\ RateInit
    /\ \/ part = "picture" /\ VidInit
       \/ part \in {"input", "rate"} /\ NoPicture

mcNext ==
    /\ UNCHANGED part
    /\ \/ part = "picture" /\ VidNext /\ UNCHANGED <<inputVars, rateVars>>
       \/ part = "input" /\ InputNext /\ UNCHANGED <<vidVars, rateVars>>
       \/ part = "rate" /\ RateNext /\ UNCHANGED <<vidVars, inputVars>>

mcSpec == mcInit /\ [][mcNext]_mcVars /\ VidFairness /\ InputFairness /\ RateFairness
=============================================================================
