----------------------------- MODULE MCHostAgent -----------------------------
(* HostAgent for TLC, under fairness, with two bounds on what goes on around *)
(* the agent: "long", sessions with two disconnect grace windows and a      *)
(* password that stays; "wide", every password and peers that fail, with    *)
(* one window.                                                             *)
EXTENDS HostAgent, TLC

VARIABLE bound
mcVars == <<bound, agentVars>>

Within ==
    \/ /\ bound = "long" /\ password = "present"
       /\ \A i \in DOMAIN events : events[i].type # "Over"
    \/ /\ bound = "wide" /\ Windows <= 1
       /\ \A i \in DOMAIN events : events[i].type \notin {"Ice", "Connected"}

mcInit == bound \in {"long", "wide"} /\ AgentInit /\ Within
mcNext == UNCHANGED bound /\ AgentNext /\ Within'

mcSpec == mcInit /\ [][mcNext]_mcVars /\ AgentFairness
=============================================================================
