------------------------------ MODULE HostAgent ------------------------------
(***************************************************************************)
(* The agent's session slot (host/src/signaling/mod.rs, app.rs): the one   *)
(* active peer-to-peer session, the OPAQUE login a newcomer may be in the  *)
(* middle of, the throttle on logins, and how all three live through the   *)
(* loss of the signaling connection.                                       *)
(*                                                                         *)
(* One task owns the slot.  Online it takes the next server message        *)
(* (handle_signal_message), session event (handle_session_event) or owner's *)
(* command (handle_agent_command); offline (run_while_offline) only the    *)
(* last two, with nowhere to send to.  Each handler is one action: what it *)
(* awaits inside touches nothing of the slot.  Session events come through *)
(* a bounded queue from the peers' own tasks and from timers, so they may  *)
(* be older than the session they are handled in.                          *)
(*                                                                         *)
(* The server is here as far as it concerns one device: what Registry      *)
(* holds for it.  ServerKeepsOccupancy ties this to what Registry promises. *)
(***************************************************************************)
EXTENDS Naturals, Sequences, FiniteSets

CONSTANTS
    Sid,            \* session ids; the server issues each once
    Knows,          \* the sessions whose client knows the access password
    None,
    MaxAttempts,    \* MAX_AUTH_ATTEMPTS
    QueueCap,       \* the bound of the slot's event channel
    WireCap,        \* bound: messages on the way, in both directions together
    MaxWindows,     \* bound: disconnect grace windows of one session
    PeerEvents,     \* bound: what peers report, of Ice, Connected, Disconnected, Over
    Passwords       \* bound: what the access store holds, of missing, present, unusable

ASSUME AgentConstants ==
    /\ Knows \subseteq Sid
    /\ None \notin Sid \cup Nat \cup [sid : Sid, login : BOOLEAN, gen : Nat]
    /\ Passwords \subseteq {"missing", "present", "unusable"}
    /\ {MaxAttempts, QueueCap, WireCap, MaxWindows} \subseteq Nat

VARIABLES
    active,     \* SessionSlot.active: the tag of its PeerSession, or None
    current,    \* SessionSlot.current_session_id
    grace,      \* ActiveSession.disconnect_grace
    pending,    \* SessionSlot.pending_auth
    failures,   \* SessionSlot.auth_failures, no further than it is compared
    locked,     \* auth_locked_until is in the future
    gens,       \* NEXT_AUTH_GENERATION: the last one handed out
    peers,      \* the PeerSessions by tag: their session, and whether open
    events,     \* the slot's event channel
    timers,     \* the spawned sleeps, each as the event it will send
    password,   \* what access_store.load() would return
    link,       \* run_agent: where it stands with the server
    claim,      \* live_session_id, read before connect
    status,     \* AgentStatus
    reg,        \* the server holds a registration of this device
    busy,       \* ... and this is its HostEntry.session_id
    held,       \* ... and that session has a client
    fresh,      \* session ids the server has not issued yet
    inbox,      \* server messages on their way to the agent
    outbox,     \* agent messages on their way to the server
    told        \* what the client of a session was last told

slotVars == <<active, current, grace, peers>>
loginVars == <<pending, failures, locked, gens>>
linkVars == <<link, claim>>
serverVars == <<reg, busy, held, fresh>>
agentVars == <<slotVars, loginVars, events, timers, password, linkVars, status,
               serverVars, inbox, outbox, told>>

NoGrace == [epoch |-> 0, pending |-> 0]     \* no window is numbered 0
Msg(type, s) == [type |-> type, sid |-> s]
PeerEvent(type, t) == [type |-> type, tag |-> t, sid |-> None, gen |-> 0]
TimerEvent(type, s, g) == [type |-> type, tag |-> None, sid |-> s, gen |-> g]

AgentInit ==
    /\ active = None /\ current = None /\ grace = NoGrace /\ peers = <<>>
    /\ pending = None /\ failures = 0 /\ locked = FALSE /\ gens = 0
    /\ events = <<>> /\ timers = {}
    /\ password \in Passwords
    /\ link = "offline" /\ claim = None /\ status = "offline"
    /\ reg = FALSE /\ busy = None /\ held = FALSE /\ fresh = Sid
    /\ inbox = <<>> /\ outbox = <<>>
    /\ told = [s \in Sid |-> "nothing"]

-----------------------------------------------------------------------------
(* The slot.                                                                *)
Online == link = "up"

(* out_tx: offline it is a stand-in whose receiver is gone.                 *)
Says(msgs) == outbox' = IF Online THEN outbox \o msgs ELSE outbox

Shows(st) == status' = IF Online THEN st ELSE status

Shut(t) == [u \in DOMAIN peers |-> IF u = t THEN [peers[u] EXCEPT !.open = FALSE] ELSE peers[u]]

(* active.take(), shutdown, AgentStatus::Registered, no current session.    *)
CloseActive ==
    /\ active' = None /\ current' = None /\ grace' = NoGrace
    /\ peers' = Shut(active)
    /\ IF active = None THEN UNCHANGED status ELSE Shows("registered")

(* Mutant (before D35): a session that ended here is not reported.          *)
EndHere_Silently(s) == CloseActive /\ Says(<<>>)

(* The session ends on this side: the server is told.                       *)
EndHere(s) == CloseActive /\ Says(<<Msg("Bye", s)>>)

(* Mutant: the old session's PeerConnection is dropped without close().     *)
Takeover_Leaks(s) ==
    /\ peers' = Append(peers, [sid |-> s, open |-> TRUE])
    /\ active' = Len(peers) + 1 /\ current' = s /\ grace' = NoGrace
    /\ UNCHANGED status
    /\ Says(<<Msg("Offer", s)>>)

(* supersede_active_session, then begin_session: it may fail, and then the  *)
(* peer it may have started is closed again (abort).                        *)
Takeover(s) ==
    \/ /\ peers' = Append(Shut(active), [sid |-> s, open |-> TRUE])
       /\ active' = Len(peers) + 1 /\ current' = s /\ grace' = NoGrace
       /\ IF active = None THEN UNCHANGED status ELSE Shows("registered")
       /\ Says(<<Msg("Offer", s)>>)
    \/ EndHere(s)

NoWait == pending' = None /\ UNCHANGED <<failures, locked, gens>>
Waiting(s) == pending # None /\ pending.sid = s

-----------------------------------------------------------------------------
(* handle_signal_message.                                                   *)

(* Mutant: an unreadable access record counts as no password.               *)
ReadsPeerJoined_FailsOpen(s) ==
    \/ /\ password = "present"
       /\ gens' = gens + 1
       /\ pending' = [sid |-> s, login |-> FALSE, gen |-> gens + 1]
       /\ timers' = timers \cup {TimerEvent("AuthTimeout", s, gens + 1)}
       /\ Says(<<Msg("AuthRequired", s)>>)
       /\ UNCHANGED <<slotVars, status, failures, locked>>
    \/ /\ password # "present"
       /\ NoWait /\ Takeover(s)
       /\ UNCHANGED timers

(* Mutant: the wait is not given a timer.                                   *)
ReadsPeerJoined_Untimed(s) ==
    \/ /\ password = "unusable"
       /\ NoWait /\ Says(<<Msg("Bye", s)>>)
       /\ UNCHANGED <<slotVars, status, timers>>
    \/ /\ password = "present"
       /\ gens' = gens + 1
       /\ pending' = [sid |-> s, login |-> FALSE, gen |-> gens + 1]
       /\ Says(<<Msg("AuthRequired", s)>>)
       /\ UNCHANGED <<slotVars, status, failures, locked, timers>>
    \/ /\ password = "missing"
       /\ NoWait /\ Takeover(s)
       /\ UNCHANGED timers

(* A newcomer replaces a login in progress; without a password also the     *)
(* running session, with one it has to log in first.                        *)
ReadsPeerJoined(s) ==
    \/ /\ password = "unusable"
       /\ NoWait /\ Says(<<Msg("Bye", s)>>)
       /\ UNCHANGED <<slotVars, status, timers>>
    \/ /\ password = "present"
       /\ gens' = gens + 1
       /\ pending' = [sid |-> s, login |-> FALSE, gen |-> gens + 1]
       /\ timers' = timers \cup {TimerEvent("AuthTimeout", s, gens + 1)}
       /\ Says(<<Msg("AuthRequired", s)>>)
       /\ UNCHANGED <<slotVars, status, failures, locked>>
    \/ /\ password = "missing"
       /\ NoWait /\ Takeover(s)
       /\ UNCHANGED timers

(* An Answer whose binding tag or SDP does not hold; a good one, like the   *)
(* client's candidates, concerns the peer connection only.                  *)
ReadsBadAnswer(s) ==
    /\ IF s = current THEN EndHere(s) ELSE UNCHANGED <<slotVars, status, outbox>>
    /\ UNCHANGED <<loginVars, timers>>

(* Mutant (before the fix of 3.2c): beyond MaxAttempts the attempt that     *)
(* arms the pause is itself refused.                                        *)
RunsAttempt_HardLockout(s) ==
    LET counted == IF failures > MaxAttempts THEN failures ELSE failures + 1
        runs == password = "present" /\ counted <= MaxAttempts
    IN  /\ failures' = counted
        /\ locked' = (counted > MaxAttempts)
        /\ \/ runs /\ pending' = [pending EXCEPT !.login = TRUE] /\ Says(<<Msg("PakeResponse", s)>>)
           \/ (~runs \/ s \notin Knows) /\ UNCHANGED pending /\ Says(<<Msg("AuthFailed", s)>>)

(* An attempt counts, and beyond MaxAttempts arms the pause for the next    *)
(* one; it runs itself, if there is a record and its payload makes sense.   *)
RunsAttempt(s) ==
    LET counted == IF failures > MaxAttempts THEN failures ELSE failures + 1
    IN  /\ failures' = counted
        /\ locked' = (counted > MaxAttempts)
        /\ \/ /\ password = "present"
              /\ pending' = [pending EXCEPT !.login = TRUE]
              /\ Says(<<Msg("PakeResponse", s)>>)
           \/ /\ password # "present" \/ s \notin Knows
              /\ UNCHANGED pending
              /\ Says(<<Msg("AuthFailed", s)>>)

ReadsPakeStart(s) ==
    /\ \/ ~Waiting(s) /\ UNCHANGED <<loginVars, outbox>>
       \/ Waiting(s) /\ locked /\ Says(<<Msg("AuthFailed", s)>>) /\ UNCHANGED loginVars
       \/ Waiting(s) /\ ~locked /\ RunsAttempt(s) /\ UNCHANGED gens
    /\ UNCHANGED <<slotVars, status, timers>>

(* login_finish consumes the login; only the right password completes it.   *)
ReadsPakeFinish(s) ==
    /\ \/ /\ ~(Waiting(s) /\ pending.login)
          /\ UNCHANGED <<slotVars, status, loginVars, outbox>>
       \/ /\ Waiting(s) /\ pending.login /\ s \in Knows
          /\ pending' = None /\ failures' = 0 /\ locked' = FALSE
          /\ Takeover(s)
          /\ UNCHANGED gens
       \/ /\ Waiting(s) /\ pending.login /\ s \notin Knows
          /\ pending' = [pending EXCEPT !.login = FALSE]
          /\ Says(<<Msg("AuthFailed", s)>>)
          /\ UNCHANGED <<slotVars, status, failures, locked, gens>>
    /\ UNCHANGED timers

ReadsBye(s) ==
    /\ \/ current = s /\ CloseActive /\ UNCHANGED loginVars
       \/ current # s /\ Waiting(s) /\ NoWait /\ UNCHANGED <<slotVars, status>>
       \/ current # s /\ ~Waiting(s) /\ UNCHANGED <<slotVars, status, loginVars>>
    /\ UNCHANGED <<timers, outbox>>

AgentReads ==
    LET m == Head(inbox) IN
    /\ Online /\ inbox # <<>>
    /\ inbox' = Tail(inbox)
    /\ \/ m.type = "PeerJoined" /\ ReadsPeerJoined(m.sid)
       \/ m.type = "BadAnswer" /\ ReadsBadAnswer(m.sid)
       \/ m.type = "PakeStart" /\ ReadsPakeStart(m.sid)
       \/ m.type = "PakeFinish" /\ ReadsPakeFinish(m.sid)
       \/ m.type = "Bye" /\ ReadsBye(m.sid)
    /\ UNCHANGED <<events, password, linkVars, serverVars, told>>

-----------------------------------------------------------------------------
(* handle_session_event, also offline.                                      *)

(* A candidate carries no tag: it goes out under the current session.       *)
OnIce(e) ==
    /\ Says(IF current = None THEN <<>> ELSE <<[type |-> "Ice", sid |-> current, of |-> e.tag]>>)
    /\ UNCHANGED <<slotVars, status, loginVars, timers>>

OnConnected(e) ==
    /\ IF e.tag = active
       THEN grace' = [grace EXCEPT !.pending = 0] /\ Shows("in_session")
       ELSE UNCHANGED <<grace, status>>
    /\ UNCHANGED <<active, current, peers, loginVars, timers, outbox>>

(* Mutant: the timer is armed with the number of the window before.         *)
OnDisconnected_StaleTimer(e) ==
    /\ IF e.tag = active /\ grace.pending = 0
       THEN /\ grace' = [epoch |-> grace.epoch + 1, pending |-> grace.epoch + 1]
            /\ timers' = timers \cup {TimerEvent("DisconnectTimeout", current, grace.epoch)}
       ELSE UNCHANGED <<grace, timers>>
    /\ UNCHANGED <<active, current, peers, status, loginVars, outbox>>

(* DISCONNECT_GRACE starts, unless it is running already.                   *)
OnDisconnected(e) ==
    /\ IF e.tag = active /\ grace.pending = 0
       THEN /\ grace' = [epoch |-> grace.epoch + 1, pending |-> grace.epoch + 1]
            /\ timers' = timers \cup {TimerEvent("DisconnectTimeout", current, grace.epoch + 1)}
       ELSE UNCHANGED <<grace, timers>>
    /\ UNCHANGED <<active, current, peers, status, loginVars, outbox>>

(* Mutant (before 3.5b's fix): the tag is not looked at.                    *)
OnOver_AnyTag(e) ==
    /\ IF active # None THEN EndHere(current) ELSE UNCHANGED <<slotVars, status, outbox>>
    /\ UNCHANGED <<loginVars, timers>>

(* Mutant: the tray goes on showing a session.                              *)
OnOver_KeepsStatus(e) ==
    /\ IF e.tag = active
       THEN /\ active' = None /\ current' = None /\ grace' = NoGrace /\ peers' = Shut(active)
            /\ Says(<<Msg("Bye", current)>>)
            /\ UNCHANGED status
       ELSE UNCHANGED <<slotVars, status, outbox>>
    /\ UNCHANGED <<loginVars, timers>>

(* Failed or Closed, the control channel closed, or the video failed and    *)
(* recover_pipeline could not help.                                         *)
OnOver(e) ==
    /\ IF e.tag = active THEN EndHere(current) ELSE UNCHANGED <<slotVars, status, outbox>>
    /\ UNCHANGED <<loginVars, timers>>

(* Mutant: any running window will do.                                      *)
OnDisconnectTimeout_AnyWindow(e) ==
    /\ IF e.sid = current /\ active # None /\ grace.pending # 0
       THEN EndHere(current)
       ELSE UNCHANGED <<slotVars, status, outbox>>
    /\ UNCHANGED <<loginVars, timers>>

OnDisconnectTimeout(e) ==
    /\ IF e.sid = current /\ active # None /\ grace.pending = e.gen
       THEN EndHere(current)
       ELSE UNCHANGED <<slotVars, status, outbox>>
    /\ UNCHANGED <<loginVars, timers>>

OnAuthTimeout(e) ==
    /\ IF Waiting(e.sid) /\ pending.gen = e.gen
       THEN NoWait /\ Says(<<Msg("Bye", e.sid)>>)
       ELSE UNCHANGED <<loginVars, outbox>>
    /\ UNCHANGED <<slotVars, status, timers>>

AgentHandlesEvent ==
    LET e == Head(events) IN
    /\ events # <<>>
    /\ events' = Tail(events)
    /\ \/ e.type = "Ice" /\ OnIce(e)
       \/ e.type = "Connected" /\ OnConnected(e)
       \/ e.type = "Disconnected" /\ OnDisconnected(e)
       \/ e.type = "Over" /\ OnOver(e)
       \/ e.type = "DisconnectTimeout" /\ OnDisconnectTimeout(e)
       \/ e.type = "AuthTimeout" /\ OnAuthTimeout(e)
    /\ UNCHANGED <<password, linkVars, serverVars, inbox, told>>

(* handle_agent_command: the session, or else the login in progress.        *)
OwnerEndsSession ==
    /\ \/ active # None /\ EndHere(current) /\ UNCHANGED loginVars
       \/ /\ active = None /\ pending # None
          /\ NoWait /\ Says(<<Msg("Bye", pending.sid)>>)
          /\ UNCHANGED <<slotVars, status>>
    /\ UNCHANGED <<events, timers, password, linkVars, serverVars, inbox, told>>

-----------------------------------------------------------------------------
(* The session's own tasks and timers.  A full channel makes them wait.     *)
Windows == grace.epoch + Cardinality({i \in DOMAIN events : events[i].type = "Disconnected"})

(* A peer that was closed still reports so, its control channel too.        *)
PeerEmits(t, type) ==
    /\ Len(events) < QueueCap
    /\ type = "Over" \/ peers[t].open
    /\ type = "Disconnected" => Windows < MaxWindows
    /\ type = "Ice" => Len(inbox) + Len(outbox) < WireCap
    /\ events' = Append(events, PeerEvent(type, t))
    /\ UNCHANGED <<slotVars, loginVars, timers, password, linkVars, status,
                   serverVars, inbox, outbox, told>>

(* Mutant: the timer does not wait for room in the channel.                 *)
TimerFires_Unbounded(e) ==
    /\ e \in timers
    /\ timers' = timers \ {e}
    /\ events' = Append(events, e)
    /\ UNCHANGED <<slotVars, loginVars, password, linkVars, status,
                   serverVars, inbox, outbox, told>>

TimerFires(e) ==
    /\ e \in timers /\ Len(events) < QueueCap
    /\ timers' = timers \ {e}
    /\ events' = Append(events, e)
    /\ UNCHANGED <<slotVars, loginVars, password, linkVars, status,
                   serverVars, inbox, outbox, told>>

PauseLapses ==
    /\ locked /\ locked' = FALSE
    /\ UNCHANGED <<slotVars, pending, failures, gens, events, timers, password, linkVars,
                   status, serverVars, inbox, outbox, told>>

(* `password set` and `password clear`, or a record that cannot be read.    *)
PasswordChanges(p) ==
    /\ p # password /\ password' = p
    /\ UNCHANGED <<slotVars, loginVars, events, timers, linkVars, status,
                   serverVars, inbox, outbox, told>>

-----------------------------------------------------------------------------
(* run_agent: connect, run, reconnect.                                      *)
Connects ==
    /\ link = "offline"
    /\ link' = "connecting" /\ claim' = current
    /\ UNCHANGED <<slotVars, loginVars, events, timers, password, status,
                   serverVars, inbox, outbox, told>>

(* Mutant: the server keeps the session it had, whatever the agent claims.  *)
Registers_Keeps ==
    /\ link = "connecting" /\ link' = "registering"
    /\ reg' = TRUE /\ busy' = claim
    /\ UNCHANGED <<held, fresh, claim, slotVars, loginVars, events, timers, password,
                   status, inbox, outbox, told>>

(* register_host at the server: the claimed session is re-attached, or, if  *)
(* the server knows it no longer, makes the device busy without a client.   *)
Registers ==
    /\ link = "connecting" /\ link' = "registering"
    /\ reg' = TRUE /\ busy' = claim
    /\ held' = (held /\ busy = claim)
    /\ UNCHANGED <<fresh, claim, slotVars, loginVars, events, timers, password,
                   status, inbox, outbox, told>>

(* Registered arrives and run() starts.                                     *)
HandshakeEnds ==
    /\ link = "registering" /\ link' = "up"
    /\ status' = IF active = None THEN "registered" ELSE "in_session"
    /\ UNCHANGED <<claim, slotVars, loginVars, events, timers, password,
                   serverVars, inbox, outbox, told>>

(* The attempt fails or run() returns: what was on the way is lost, a login *)
(* is given up, the session goes on.                                        *)
LinkLost ==
    /\ link # "offline" /\ link' = "offline" /\ claim' = None
    /\ pending' = None /\ status' = "offline"
    /\ inbox' = <<>> /\ outbox' = <<>>
    /\ UNCHANGED <<slotVars, failures, locked, gens, events, timers, password,
                   serverVars, told>>

-----------------------------------------------------------------------------
(* The server and the client.                                               *)
Reaches(m) ==
    /\ Len(inbox) + Len(outbox) < WireCap
    /\ inbox' = IF link \in {"registering", "up"} THEN Append(inbox, m) ELSE inbox

Elsewhere == UNCHANGED <<slotVars, loginVars, events, timers, password, linkVars, status>>

(* unregister_host of a lost connection, or the server restarts.            *)
ServerNoticesLoss ==
    /\ reg /\ link \in {"offline", "connecting"}
    /\ reg' = FALSE /\ busy' = None /\ held' = FALSE
    /\ Elsewhere /\ UNCHANGED <<fresh, inbox, outbox, told>>

ClientJoins(s) ==
    /\ reg /\ busy = None /\ s \in fresh
    /\ busy' = s /\ held' = TRUE /\ fresh' = fresh \ {s}
    /\ Reaches(Msg("PeerJoined", s))
    /\ Elsewhere /\ UNCHANGED <<reg, outbox, told>>

(* A client that knows the password follows the protocol; any other sends   *)
(* what it likes.  The server relays only for the session's own client.     *)
NextOf(s) ==
    IF s \notin Knows THEN {"PakeStart", "PakeFinish", "BadAnswer"}
    ELSE CASE told[s] \in {"AuthRequired", "AuthFailed"} -> {"PakeStart"}
           [] told[s] = "PakeResponse" -> {"PakeFinish"}
           [] told[s] = "Offer" -> {"BadAnswer"}
           [] OTHER -> {}

ClientSays(s) ==
    /\ held /\ busy = s
    /\ \E type \in NextOf(s) : Reaches(Msg(type, s))
    /\ told' = [told EXCEPT ![s] = "nothing"]
    /\ Elsewhere /\ UNCHANGED <<serverVars, outbox>>

(* Bye ends the session for both; a client that is merely gone leaves the   *)
(* agent untold, since the session itself is peer-to-peer.                  *)
ClientLeaves(s) ==
    /\ held /\ busy = s
    /\ busy' = None /\ held' = FALSE
    /\ Reaches(Msg("Bye", s)) \/ UNCHANGED inbox
    /\ Elsewhere /\ UNCHANGED <<reg, fresh, outbox, told>>

ServerReads ==
    LET m == Head(outbox) IN
    /\ outbox # <<>> /\ outbox' = Tail(outbox)
    /\ \/ /\ m.type = "Bye" /\ busy = m.sid
          /\ busy' = None /\ held' = FALSE
          /\ UNCHANGED <<reg, fresh, told>>
       \/ /\ m.type = "Bye" /\ busy # m.sid
          /\ UNCHANGED <<serverVars, told>>
       \/ /\ m.type # "Bye"
          /\ told' = IF m.type # "Ice" /\ held /\ busy = m.sid /\ m.sid \in Knows
                     THEN [told EXCEPT ![m.sid] = m.type] ELSE told
          /\ UNCHANGED serverVars
    /\ Elsewhere /\ UNCHANGED inbox

-----------------------------------------------------------------------------
ServerStep ==
    \/ ServerNoticesLoss \/ ServerReads
    \/ \E s \in Sid : ClientJoins(s) \/ ClientSays(s) \/ ClientLeaves(s)

LinkStep == Connects \/ Registers \/ HandshakeEnds \/ LinkLost

Surroundings ==
    \/ \E t \in DOMAIN peers, type \in PeerEvents : PeerEmits(t, type)
    \/ \E e \in timers : TimerFires(e)
    \/ PauseLapses
    \/ \E p \in Passwords : PasswordChanges(p)

AgentNext == AgentReads \/ AgentHandlesEvent \/ OwnerEndsSession \/ LinkStep \/ ServerStep \/ Surroundings

AgentSpec == AgentInit /\ [][AgentNext]_agentVars

GraceTimerFires == \E e \in timers : e.type = "DisconnectTimeout" /\ TimerFires(e)

(* Fairness.  run()'s select! polls its branches in random order; server,   *)
(* writer and a client that knows the password go on; a mutual exclusion of *)
(* senders on the full event channel is first come, first served; the pause *)
(* and DISCONNECT_GRACE end.  AUTH_TIMEOUT is longer than any pause, and no *)
(* fairness makes its timer fire: a login must not need it to end.          *)
AgentFairness ==
    /\ WF_agentVars(AgentReads) /\ WF_agentVars(AgentHandlesEvent)
    /\ WF_agentVars(ServerReads) /\ WF_agentVars(PauseLapses)
    /\ \A s \in Knows : SF_agentVars(ClientSays(s))
    /\ SF_agentVars(GraceTimerFires)

FairAgentSpec == AgentSpec /\ AgentFairness

-----------------------------------------------------------------------------
Wait == [sid : Sid, login : BOOLEAN, gen : Nat \ {0}]

(* Every variable keeps its type; the event channel keeps its bound, and    *)
(* nothing of a login outlives the connection it runs over.                 *)
AgentTypeOK ==
    /\ active \in DOMAIN peers \cup {None} /\ current \in Sid \cup {None}
    /\ grace \in [epoch : Nat, pending : Nat]
    /\ peers \in Seq([sid : Sid, open : BOOLEAN])
    /\ pending \in Wait \cup {None} /\ (pending # None => Online)
    /\ failures \in 0 .. MaxAttempts + 1 /\ locked \in BOOLEAN /\ gens \in Nat
    /\ Len(events) <= QueueCap
    /\ password \in {"missing", "present", "unusable"}
    /\ link \in {"offline", "connecting", "registering", "up"}
    /\ claim \in Sid \cup {None}
    /\ status \in {"offline", "registered", "in_session"}
    /\ reg \in BOOLEAN /\ held \in BOOLEAN /\ busy \in Sid \cup {None}
    /\ fresh \subseteq Sid

(* The slot is whole: a session has its id, and of all peer connections     *)
(* ever started only the active one is open -- they are not closed by being *)
(* dropped (M-2), so one left open would hold its socket for good.          *)
SlotWhole ==
    /\ active = None <=> current = None
    /\ active # None => peers[active].sid = current
    /\ \A t \in DOMAIN peers : peers[t].open <=> t = active

(* 3.2c, M-11: while a password is set, or cannot be told not to be, a      *)
(* session begins only for a client that knows it.                          *)
NoSessionWithoutPassword ==
    [][active' # active /\ active' # None =>
          password = "missing" \/ peers'[active'].sid \in Knows]_agentVars

(* 3.5b: what is still queued or timed for a session that was replaced does *)
(* not end the one that replaced it, nor does the timer of a disconnect     *)
(* that was recovered from.                                                 *)
OnlyItsOwnEventsEndIt ==
    [][LET e == Head(events) IN
       active # None /\ active' = None /\ Len(events') < Len(events)
       => e.tag = active \/ (e.sid = current /\ e.gen = grace.pending)]_agentVars

Due(e) == e \in timers \/ \E i \in DOMAIN events : events[i] = e

(* No wait without an end: a login in progress, and a connection in its     *)
(* grace, always have their own timer running or its event queued --        *)
(* through reconnects, newcomers and repeated Disconnected.                 *)
WaitsAreTimed ==
    /\ pending # None => Due(TimerEvent("AuthTimeout", pending.sid, pending.gen))
    /\ grace.pending # 0 => Due(TimerEvent("DisconnectTimeout", current, grace.pending))

Underway(queue, type, s) == \E i \in DOMAIN queue : queue[i] = Msg(type, s)

Explained(s) ==
    \/ s = current \/ Waiting(s)
    \/ Underway(inbox, "PeerJoined", s) \/ Underway(outbox, "Bye", s)

(* D35: the server holds the device busy only with a session the agent is   *)
(* in, is asked for, is about to hear of or has ended -- or with the one    *)
(* it claimed when it registered.                                           *)
BusyIsExplained ==
    Online /\ busy # None => busy = claim \/ Explained(busy)

(* The same without the exception ("tell the server so it doesn't keep the  *)
(* device marked busy for a session that's actually over").  The code does  *)
(* not keep this: see the findings.                                         *)
NeverBusyForNothing ==
    Online /\ busy # None => Explained(busy)

(* The tray shows a session only when there is one, through every end of a  *)
(* session, online or not, and every reconnect.                             *)
StatusIsTrue == status = "in_session" => active # None

(* The throttle paces, it does not lock out: a client that knows the        *)
(* password and keeps trying is let in, however often others failed before, *)
(* unless it leaves or its wait is ended otherwise.                         *)
OwnerGetsIn ==
    \A s \in Knows : Waiting(s) ~> (~Waiting(s) \/ busy # s \/ password # "present")

(* A connection that stays lost ends its session.                           *)
GraceEnds == grace.pending # 0 ~> grace.pending = 0

(* The server's side of this module is what Registry implements.            *)
Occ == INSTANCE Occupancy WITH
    Host <- {"device"},
    Client <- Sid,
    status <- [h \in {"device"} |-> IF ~reg THEN "offline" ELSE IF busy = None THEN "free"
                                    ELSE IF held THEN "held" ELSE "detached"],
    holder <- [h \in {"device"} |-> IF held THEN busy ELSE None]

ServerKeepsOccupancy == Occ!OccSpec
=============================================================================
