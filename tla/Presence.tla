------------------------------ MODULE Presence ------------------------------
(***************************************************************************)
(* The list of devices that a browser shows, and the pushes that keep it   *)
(* right (notify_device_owners of ws.rs, the watchers of registry.rs).  A  *)
(* list says of each device what it says of no other, so one device is     *)
(* followed: its entry in the list of an owner is its presence, or absent. *)
(*                                                                         *)
(* Finding the owners, finding the watchers of one, building its list and  *)
(* each send are separate steps of a handler; other handlers run between   *)
(* them.  Queues have room here (module Signaling has full ones).          *)
(***************************************************************************)
EXTENDS Naturals, FiniteSets

CONSTANTS Person, Link, Browser,   \* owners, host connections, client connections
          Nobody,
          MaxNews                  \* bound: changes of what lists say

ASSUME PresenceAssumption == Nobody \notin Person \cup Link \cup Browser /\ MaxNews \in Nat

VARIABLES
    hostLink,   \* connection of the device in `hosts`, or Nobody
    heldBy,     \* `session_id` of its entry: a client, Link for a session that no
                \* client here holds, or Nobody
    linkedTo,   \* `ownership`: the owners of the device
    person,     \* `session` of a client connection: its owner, or Nobody
    watches,    \* `watchers`: the owner a connection watches, or Nobody
    task,       \* what a handler has still to do
    news,       \* changes so far
    shown,      \* the entry in the last list sent to a client
    \* what the properties remember:
    builtAt,    \* `news` when the newest list sent to a client was built
    watchedAt,  \* `news` when a client began to watch
    pushedAt    \* `news` at the last change that is to be pushed

world   == <<hostLink, heldBy, linkedTo, pushedAt>>
preVars == <<world, person, watches, task, news, shown, builtAt, watchedAt>>

Handler == Link \cup Browser

Presence == IF hostLink = Nobody THEN "offline" ELSE IF heldBy = Nobody THEN "free" ELSE "busy"
Entry(p) == IF p \in linkedTo THEN Presence ELSE "absent"

NoTask == [at |-> "idle", owners |-> {}, owner |-> Nobody, to |-> {}, entry |-> "absent",
           built |-> 0]
Reading(h) == task[h].at = "idle"

PreInit ==
    /\ hostLink = Nobody /\ heldBy = Nobody
    /\ linkedTo = {}
    /\ person = [c \in Browser |-> Nobody]
    /\ watches = [c \in Browser |-> Nobody]
    /\ task = [h \in Handler |-> NoTask]
    /\ news = 0
    /\ shown = [c \in Browser |-> "absent"]
    /\ builtAt = [c \in Browser |-> 0]
    /\ watchedAt = [c \in Browser |-> 0]
    /\ pushedAt = 0
-----------------------------------------------------------------------------
(* Every change is counted; one that the handler is about to push is        *)
(* remembered as such.                                                     *)
Change(pushed) ==
    /\ news < MaxNews /\ news' = news + 1
    /\ pushedAt' = IF pushed THEN news + 1 ELSE pushedAt

Then(h, at) == task' = [task EXCEPT ![h] = [NoTask EXCEPT !.at = at]]

(* A handler that has one list to send, to its own connection.             *)
Lists(c, p, at) == [NoTask EXCEPT !.at = at, !.owner = p, !.to = {c}]

unseen == <<watches, shown, builtAt, watchedAt>>
-----------------------------------------------------------------------------
(* Host connections: run_host                                              *)

(* register_host displaces whoever was registered; a session the agent     *)
(* reports is kept, known here or not.                                     *)
HostRegisters(l) ==
    /\ Reading(l) /\ hostLink # l /\ Change(TRUE)
    /\ hostLink' = l
    /\ heldBy' \in {Nobody, "detached"} \cup (IF heldBy \in Browser THEN {heldBy} ELSE {})
    /\ Then(l, "owners")
    /\ UNCHANGED <<linkedTo, person, unseen>>

HostEndsSession(l) ==
    /\ Reading(l) /\ hostLink = l /\ heldBy # Nobody /\ Change(TRUE)
    /\ heldBy' = Nobody
    /\ Then(l, "owners")
    /\ UNCHANGED <<hostLink, linkedTo, person, unseen>>

HostLeaves(l) ==
    /\ Reading(l) /\ hostLink = l /\ Change(TRUE)
    /\ hostLink' = Nobody /\ heldBy' = Nobody
    /\ Then(l, "owners")
    /\ UNCHANGED <<linkedTo, person, unseen>>
-----------------------------------------------------------------------------
(* Client connections: run_client                                          *)

(* ClientAuth: announce_owner lists, and only then the loop turns.          *)
SignsIn(c, p) ==
    /\ Reading(c) /\ person[c] # p /\ Change(FALSE)
    /\ person' = [person EXCEPT ![c] = p]
    /\ task' = [task EXCEPT ![c] = Lists(c, p, "build")]
    /\ UNCHANGED <<hostLink, heldBy, linkedTo, unseen>>

SignsOut(c) ==
    /\ Reading(c) /\ person[c] # Nobody /\ Change(FALSE)
    /\ person' = [person EXCEPT ![c] = Nobody]
    /\ Then(c, "turn")
    /\ UNCHANGED <<hostLink, heldBy, linkedTo, unseen>>

(* ListDevices, which the browser sends every minute.                      *)
AsksList_Unanswered(c) ==
    /\ Reading(c) /\ person[c] # Nobody
    /\ Then(c, "turn")
    /\ UNCHANGED <<world, person, news, unseen>>

AsksList(c) ==
    /\ Reading(c) /\ person[c] # Nobody
    /\ task' = [task EXCEPT ![c] = Lists(c, person[c], "build")]
    /\ UNCHANGED <<world, person, news, unseen>>

(* ConnectDevice, and Join with the PIN, which makes an owner if there is  *)
(* none, links it and only then pushes.                                    *)
ConnectsDevice(c) ==
    /\ Reading(c) /\ person[c] \in linkedTo
    /\ Presence = "free" /\ Change(TRUE)
    /\ heldBy' = c
    /\ Then(c, "owners")
    /\ UNCHANGED <<hostLink, linkedTo, person, unseen>>

JoinsByPin(c) ==
    /\ Reading(c) /\ Presence = "free" /\ Change(TRUE)
    /\ heldBy' = c
    /\ \E p \in IF person[c] = Nobody THEN Person ELSE {person[c]} :
         /\ person' = [person EXCEPT ![c] = p]
         /\ task' = [task EXCEPT ![c] = Lists(c, p, IF person[c] = Nobody THEN "linkNew"
                                                    ELSE "link")]
    /\ UNCHANGED <<hostLink, linkedTo, unseen>>

LinksDevice(c) ==
    /\ task[c].at \in {"link", "linkNew"}
    /\ linkedTo' = linkedTo \cup {task[c].owner}
    /\ pushedAt' = news
    /\ IF task[c].at = "linkNew"
         THEN task' = [task EXCEPT ![c].at = "buildFirst"]
         ELSE Then(c, "owners")
    /\ UNCHANGED <<hostLink, heldBy, person, news, unseen>>

ClientEndsSession_Quietly(c) ==
    /\ Reading(c) /\ heldBy = c /\ Change(TRUE)
    /\ heldBy' = Nobody
    /\ Then(c, "turn")
    /\ UNCHANGED <<hostLink, linkedTo, person, unseen>>

ClientEndsSession(c) ==
    /\ Reading(c) /\ heldBy = c /\ Change(TRUE)
    /\ heldBy' = Nobody
    /\ Then(c, "owners")
    /\ UNCHANGED <<hostLink, linkedTo, person, unseen>>

(* ForgetDevice lists to the connection that asked, and to no other.       *)
ForgetsDevice(c) ==
    /\ Reading(c) /\ person[c] \in linkedTo /\ Change(FALSE)
    /\ linkedTo' = linkedTo \ {person[c]}
    /\ task' = [task EXCEPT ![c] = Lists(c, person[c], "build")]
    /\ UNCHANGED <<hostLink, heldBy, person, unseen>>

(* The socket is gone: the session is freed, the watcher is forgotten, and *)
(* then the owners of the device hear.                                     *)
ClientLeaves(c) ==
    /\ Reading(c) /\ (person[c] # Nobody \/ heldBy = c) /\ Change(heldBy = c)
    /\ person' = [person EXCEPT ![c] = Nobody]
    /\ heldBy' = IF heldBy = c THEN Nobody ELSE heldBy
    /\ Then(c, IF heldBy = c THEN "leave" ELSE "turn")
    /\ UNCHANGED <<hostLink, linkedTo, unseen>>
-----------------------------------------------------------------------------
(* notify_device_owners, notify_owner, announce_owner                      *)

undisturbed == <<world, person, news>>

FindsOwners(h) ==
    /\ task[h].at = "owners"
    /\ task' = [task EXCEPT ![h].at = "next", ![h].owners = linkedTo]
    /\ UNCHANGED <<undisturbed, unseen>>

(* owner_watchers of the next owner; none left, the handler is done.       *)
FindsWatchers(h) ==
    /\ task[h].at = "next"
    /\ IF task[h].owners = {}
         THEN Then(h, IF h \in Browser THEN "turn" ELSE "idle")
         ELSE \E p \in task[h].owners :
                task' = [task EXCEPT ![h].owners = @ \ {p}, ![h].owner = p,
                                     ![h].to = {c \in Browser : watches[c] = p},
                                     ![h].at = IF \E c \in Browser : watches[c] = p
                                               THEN "build" ELSE "next"]
    /\ UNCHANGED <<undisturbed, unseen>>

(* device_entries_for_owner                                                *)
BuildsList(h) ==
    /\ task[h].at \in {"build", "buildFirst"}
    /\ task' = [task EXCEPT ![h].at = IF @ = "build" THEN "send" ELSE "sendFirst",
                            ![h].entry = Entry(task[h].owner), ![h].built = news]
    /\ UNCHANGED <<undisturbed, unseen>>

(* The first list of a new owner is followed by the push; a list that the  *)
(* handler sent to its own connection ends it.                             *)
Sends(h, c) ==
    /\ task[h].at \in {"send", "sendFirst"} /\ c \in task[h].to
    /\ shown' = [shown EXCEPT ![c] = task[h].entry]
    /\ builtAt' = [builtAt EXCEPT ![c] = IF @ < task[h].built THEN task[h].built ELSE @]
    /\ IF task[h].to # {c} THEN task' = [task EXCEPT ![h].to = @ \ {c}]
       ELSE IF task[h].at = "sendFirst" THEN Then(h, "owners")
       ELSE task' = [task EXCEPT ![h] = [NoTask EXCEPT !.at = "next", !.owners = task[h].owners]]
    /\ UNCHANGED <<undisturbed, watches, watchedAt>>

(* The top of the read loop, or the end of run_client: watch_owner.         *)
Turns(c) ==
    /\ task[c].at \in {"turn", "leave"}
    /\ watches' = [watches EXCEPT ![c] = person[c]]
    /\ watchedAt' = [watchedAt EXCEPT ![c] = IF watches[c] = person[c] THEN @ ELSE news]
    /\ Then(c, IF task[c].at = "leave" THEN "owners" ELSE "idle")
    /\ UNCHANGED <<undisturbed, shown, builtAt>>

Continues(h) ==
    \/ h \in Browser /\ (LinksDevice(h) \/ Turns(h))
    \/ FindsOwners(h) \/ FindsWatchers(h) \/ BuildsList(h)
    \/ \E c \in Browser : Sends(h, c)

PreNext ==
    \/ \E l \in Link : HostRegisters(l) \/ HostEndsSession(l) \/ HostLeaves(l)
    \/ \E c \in Browser :
         \/ \E p \in Person : SignsIn(c, p)
         \/ SignsOut(c) \/ AsksList(c) \/ ConnectsDevice(c) \/ JoinsByPin(c)
         \/ ClientEndsSession(c) \/ ForgetsDevice(c) \/ ClientLeaves(c)
    \/ \E h \in Handler : Continues(h)

(* A handler goes on; a browser asks for the list from time to time.        *)
PreFairness ==
    /\ \A h \in Handler : WF_preVars(Continues(h))
    /\ \A c \in Browser : WF_preVars(AsksList(c))

PreSpec == PreInit /\ [][PreNext]_preVars /\ PreFairness
-----------------------------------------------------------------------------
(* Properties *)

Quiet == \A h \in Handler : Reading(h)

(* No change goes untold: once every handler is done, whoever watched an   *)
(* owner of the device before it last changed was sent a list that was     *)
(* built after the change (ws.rs:911).                                     *)
ChangeIsTold ==
    Quiet => \A c \in Browser :
               watches[c] \in linkedTo /\ watchedAt[c] < pushedAt => pushedAt <= builtAt[c]

(* Lists may arrive in the wrong order and changes fall between a list and *)
(* the watching that follows it, but the list a browser shows is right in  *)
(* the end, once nothing changes any more (app.ts:329).                    *)
ListsConverge ==
    \A c \in Browser : <>[](watches[c] # Nobody => shown[c] = Entry(watches[c]))
=============================================================================
