--------------------------- MODULE MCDeliveries ----------------------------
(* What has to reach a browser, or who sits at the computer, in the end, for *)
(* TLC: device lists, the files of a download, the status of a helper.      *)
(* They share no state, so the run looks at them one at a time: `delivery`  *)
(* says at which, the others stay where they start.                        *)
EXTENDS Presence, Downloads, Machine, TLC

(* One file, or two.                                                       *)
mcOffers == {<<1>>, <<1, 1>>}

VARIABLE delivery
mcVars == <<delivery, preVars, dlVars, machineVars>>

mcInit ==
    /\ PreInit /\ DlInit /\ MachineInit
    /\ \/ delivery \in {"lists", "downloads"} /\ loggedIn = {}
       \/ delivery = "statuses"

mcNext ==
    /\ UNCHANGED delivery
    /\ \/ delivery = "lists" /\ PreNext /\ UNCHANGED <<dlVars, machineVars>>
       \/ delivery = "downloads" /\ DlNext /\ UNCHANGED <<preVars, machineVars>>
       \/ delivery = "statuses" /\ MachineNext /\ UNCHANGED <<preVars, dlVars>>

mcSpec == mcInit /\ [][mcNext]_mcVars /\ PreFairness /\ DlFairness /\ MachineFairness
=============================================================================
