------------------------------ MODULE Machine ------------------------------
(* Full mode on Windows: the service and its supervisor (service.rs,        *)
(* platform/windows/service.rs), the helper that is the agent in the        *)
(* console session (main.rs, run_serve), the status.json it leaves for the  *)
(* users (status_file.rs), and the icon that shows it (agent_main.rs).      *)
(*                                                                         *)
(* A console session is a number, 0 when there is none; its user, once      *)
(* logged in, has the same one.  A status is the PIN, or 0 without one      *)
(* (Connecting, Reconnecting); Registered and InSession are not told apart. *)
(*                                                                         *)
(* Left out: the length of the pauses, the service's setup and its other    *)
(* threads, how a process is given its token, desktop and job.             *)
(***************************************************************************)
EXTENDS Naturals

CONSTANTS Consoles,  \* console sessions are 1..Consoles
          PinNos,    \* PINs are 1..PinNos
          MaxMishap, \* bound: changes of the console, logins, stops, failures
          Hasty      \* the console may change back before a check of the user

ASSUME MachineAssumption ==
    /\ Consoles \in Nat \ {0} /\ {PinNos, MaxMishap} \subseteq Nat /\ Hasty \in BOOLEAN

VARIABLES
    service,   \* "stopped" | "runs" | "joins": waits for the hub's thread
    stopAsked, \* STOP_REQUESTED
    hub,       \* the hub's thread: "none" | "runs" | "over"
    console,   \* WTSGetActiveConsoleSessionId
    loggedIn,  \* the sessions with a user
    helper,    \* the session of the Helper that the supervisor holds, or 0
    launching, \* the session a helper is being launched in, or 0
    waiting,   \* not_before lies ahead
    proc,      \* the helper's process, or NoProc
    file,      \* status.json: [status, reader]
    failed,    \* a write failed, and the status then was not written since
    icon,      \* what each user's icon shows
    mishaps

superVars == <<service, stopAsked, hub, helper, launching, waiting>>
osVars == <<console, loggedIn>>
machineVars == <<superVars, osVars, proc, file, failed, icon, mishaps>>

ConsoleNo == 1..Consoles
Unset == PinNos + 1  \* no status, no user: nothing written, read or wanted

(* console_user_sid: 0 without a session, or with nobody logged in.         *)
ConsoleUser == IF console \in loggedIn THEN console ELSE 0

(* The status task of run_serve: the user it saw last (last_sid), what it   *)
(* wrote last, what it is writing and for whom.                            *)
NoProc == [status |-> 0, news |-> FALSE, sid |-> 0, last |-> Unset, writes |-> Unset, dacl |-> Unset]
Running == proc # NoProc
Boots == [NoProc EXCEPT !.sid = ConsoleUser, !.writes = 0]

MachineInit ==
    /\ service = "stopped" /\ stopAsked = FALSE /\ hub = "none"
    /\ console = 1 /\ loggedIn \in {{}, {1}}
    /\ helper = 0 /\ launching = 0 /\ waiting = FALSE
    /\ proc = NoProc
    /\ file = [status |-> 0, reader |-> 0] /\ failed = FALSE
    /\ icon = [u \in ConsoleNo |-> 0]
    /\ mishaps = 0

Mishap == mishaps < MaxMishap /\ mishaps' = mishaps + 1
-----------------------------------------------------------------------------
(* The service *)

(* The manager starts it, at boot, on request or after a failure; the hub's  *)
(* thread, if the settings ask for one, may not start.                     *)
StartService ==
    /\ service = "stopped"
    /\ \/ \E mode \in {"none", "runs"} : service' = "runs" /\ hub' = mode /\ UNCHANGED mishaps
       \/ Mishap /\ UNCHANGED <<service, hub>>
    /\ stopAsked' = FALSE /\ waiting' = FALSE
    /\ UNCHANGED <<helper, launching, osVars, proc, file, failed, icon>>

(* control_handler, and the hub's own end: its shutdown or a fault.         *)
StopService ==
    /\ service = "runs" /\ ~stopAsked /\ Mishap
    /\ stopAsked' = TRUE
    /\ UNCHANGED <<service, hub, helper, launching, waiting, osVars, proc, file, failed, icon>>

HubEnds ==
    /\ hub = "runs" /\ hub' = "over"
    /\ \/ stopAsked /\ UNCHANGED mishaps
       \/ Mishap
    /\ UNCHANGED <<service, stopAsked, helper, launching, waiting, osVars, proc, file, failed, icon>>

(* The loop of supervise goes on.                                           *)
Supervises == service = "runs" /\ ~stopAsked /\ hub # "over" /\ launching = 0

(* tick_once, with Supervisor::tick.  A helper that has exited is noticed   *)
(* and forgotten, one outside the console session killed, and one launched  *)
(* there once the pause is over.                                           *)
HelperExited == helper # 0 /\ ~Running

NoticesExit ==
    /\ HelperExited
    /\ helper' = 0 /\ waiting' = TRUE
    /\ UNCHANGED <<launching, proc>>

KillsStray ==
    /\ helper \notin {0, console} /\ console # 0 /\ ~HelperExited
    /\ helper' = 0 /\ proc' = NoProc
    /\ UNCHANGED <<launching, waiting>>

Decides ==
    /\ helper = 0 /\ console # 0 /\ ~waiting
    /\ launching' = console
    /\ UNCHANGED <<helper, waiting, proc>>

Tick ==
    /\ Supervises
    /\ NoticesExit \/ KillsStray \/ Decides
    /\ UNCHANGED <<service, stopAsked, hub, osVars, file, failed, icon, mishaps>>

(* Helper::launch; a failure counts as an exit (launch_failed).  By now the *)
(* console may show another session.                                       *)
Launches ==
    /\ launching # 0 /\ launching' = 0
    /\ \/ helper' = launching /\ proc' = Boots /\ UNCHANGED <<waiting, mishaps>>
       \/ Mishap /\ waiting' = TRUE /\ UNCHANGED <<helper, proc>>
    /\ UNCHANGED <<service, stopAsked, hub, osVars, file, failed, icon>>

PauseEnds ==
    /\ waiting /\ waiting' = FALSE
    /\ UNCHANGED <<service, stopAsked, hub, helper, launching, osVars, proc, file, failed, icon, mishaps>>

(* The end of supervise, then of service_main.                              *)
SuperviseEnds ==
    /\ service = "runs" /\ launching = 0 /\ (stopAsked \/ hub = "over")
    /\ service' = "joins" /\ helper' = 0 /\ proc' = NoProc
    /\ UNCHANGED <<stopAsked, hub, launching, waiting, osVars, file, failed, icon, mishaps>>

ServiceStops ==
    /\ service = "joins" /\ hub # "runs"
    /\ service' = "stopped"
    /\ UNCHANGED <<stopAsked, hub, helper, launching, waiting, osVars, proc, file, failed, icon, mishaps>>

(* The process of the service dies: its job takes the helper along.         *)
ServiceCrashes ==
    /\ service # "stopped" /\ Mishap
    /\ service' = "stopped" /\ hub' = "none"
    /\ helper' = 0 /\ launching' = 0 /\ proc' = NoProc
    /\ UNCHANGED <<stopAsked, waiting, osVars, file, failed, icon>>
-----------------------------------------------------------------------------
(* The computer *)

(* ~Hasty: the helper has seen the user before he is gone again.            *)
Unhurried == Hasty \/ ~Running \/ proc.sid = ConsoleUser

ConsoleChanges ==
    /\ Unhurried /\ Mishap
    /\ console' \in 0..Consoles \ {console}
    /\ UNCHANGED <<superVars, loggedIn, proc, file, failed, icon>>

UserLogsIn ==
    /\ console \in ConsoleNo \ loggedIn /\ Mishap
    /\ loggedIn' = loggedIn \cup {console}
    /\ UNCHANGED <<superVars, console, proc, file, failed, icon>>

HelperDies ==
    /\ Running /\ Mishap
    /\ proc' = NoProc
    /\ UNCHANGED <<superVars, osVars, file, failed, icon>>
-----------------------------------------------------------------------------
(* The helper's status *)

(* run_agent reports: Registered, a new PIN, Reconnecting.                  *)
StatusChanges(status) ==
    /\ Running /\ status # proc.status /\ Mishap
    /\ proc' = [proc EXCEPT !.status = status, !.news = TRUE]
    /\ UNCHANGED <<superVars, osVars, file, failed, icon>>

(* persist_status writes what it has not written already.                   *)
Persists(p) == [p EXCEPT !.writes = IF p.last = p.status THEN Unset ELSE p.status]

HearsStatus ==
    /\ proc.news /\ proc.writes = Unset
    /\ proc' = Persists([proc EXCEPT !.news = FALSE])

(* A mutant: the check of the user only takes note of a new one.            *)
ChecksUser_Only ==
    /\ Running /\ proc.writes = Unset /\ proc.sid # ConsoleUser
    /\ proc' = [proc EXCEPT !.sid = ConsoleUser]

(* sid_tick: the file is written again for another user.                    *)
ChecksUser ==
    /\ Running /\ proc.writes = Unset /\ proc.sid # ConsoleUser
    /\ proc' = [proc EXCEPT !.sid = ConsoleUser, !.writes = proc.last, !.last = Unset]

(* write_status_file: a new file readable by the user of that moment, then   *)
(* the rename.                                                             *)
SetsReader ==
    /\ proc.writes # Unset /\ proc.dacl = Unset
    /\ proc' = [proc EXCEPT !.dacl = ConsoleUser]

ReplacesFile ==
    /\ proc.dacl # Unset
    /\ \/ /\ file' = [status |-> proc.writes, reader |-> proc.dacl]
          /\ proc' = [proc EXCEPT !.last = proc.writes, !.writes = Unset, !.dacl = Unset]
          /\ failed' = (failed /\ proc.writes # proc.status) /\ UNCHANGED mishaps
       \/ /\ Mishap
          /\ proc' = [proc EXCEPT !.writes = Unset, !.dacl = Unset]
          /\ failed' = TRUE /\ UNCHANGED file

HelperWrites ==
    /\ \/ (HearsStatus \/ ChecksUser \/ SetsReader) /\ UNCHANGED <<file, failed, mishaps>>
       \/ ReplacesFile
    /\ UNCHANGED <<superVars, osVars, icon>>

(* run_pin_viewer of user u; a file he may not read has no PIN for him.     *)
ViewerStatus(u) == IF file.reader = u THEN file.status ELSE 0

IconPolls(u) ==
    /\ icon[u] # ViewerStatus(u)
    /\ icon' = [icon EXCEPT ![u] = ViewerStatus(u)]
    /\ UNCHANGED <<superVars, osVars, proc, file, failed, mishaps>>
-----------------------------------------------------------------------------
MachineNext ==
    \/ StartService \/ StopService \/ HubEnds
    \/ Tick \/ Launches \/ PauseEnds \/ SuperviseEnds \/ ServiceStops \/ ServiceCrashes
    \/ ConsoleChanges \/ UserLogsIn \/ HelperDies
    \/ \E status \in 0..PinNos : StatusChanges(status)
    \/ HelperWrites
    \/ \E u \in ConsoleNo : IconPolls(u)

(* The loop of the service, the pause, the helper's task and the icons go    *)
(* on; nothing is assumed of the manager, the users and the agent.          *)
MachineFairness ==
    /\ WF_machineVars(Tick \/ Launches) /\ WF_machineVars(PauseEnds)
    /\ WF_machineVars(HelperWrites)
    /\ \A u \in ConsoleNo : WF_machineVars(IconPolls(u))

MachineSpec == MachineInit /\ [][MachineNext]_machineVars /\ MachineFairness
-----------------------------------------------------------------------------
(* Properties *)

(* Whoever sits at the computer while the service runs comes to see the      *)
(* status of the agent that runs in his session, and of no other: helpers    *)
(* that die, sessions that change while one is launched, users that log in   *)
(* after the status was written, a PIN left in the file by a helper killed   *)
(* before (service.rs:195, main.rs:1012).  A write that failed is only made    *)
(* up for by the next change of the status.                                *)
PinIsSeen ==
    []<>(\/ service # "runs" \/ stopAsked \/ hub = "over" \/ failed
         \/ ConsoleUser = 0
         \/ Running /\ helper = console /\ icon[ConsoleUser] = proc.status)
=============================================================================
