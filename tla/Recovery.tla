------------------------------ MODULE Recovery ------------------------------
(***************************************************************************)
(* A browser tab that loses its session and gets it back: the session part *)
(* of app.ts with sessionRecovery.ts, connectGuard.ts and signaling.ts,    *)
(* against the server as one tab sees it.                                  *)
(*                                                                         *)
(* The socket and the peer connection fail independently.  The server      *)
(* answers requests in order; why it refuses one (busy, offline, not       *)
(* linked) is left open, except that a tab is in one session at a time.    *)
(* The tab is the only state machine here: messages of other features,     *)
(* wake, accounts and the login dialog, and pagehide are left out.         *)
(***************************************************************************)
EXTENDS Integers, Sequences

CONSTANTS Computer, NoComputer,
          MaxAttempts,   \* MAX_RECOVERY_ATTEMPTS
          MaxSid,        \* sessions the server makes
          MaxUp, MaxDown \* messages to and from the server under way

ASSUME RecoveryAssumption ==
    /\ NoComputer \notin Computer
    /\ MaxAttempts \in Nat \ {0} /\ MaxSid \in Nat
    /\ MaxUp \in Nat /\ MaxDown \in Nat

VARIABLES
    \* the tab
    sid,              \* sessionId and session: 0 is null
    deviceId,
    guard,            \* ConnectGuard
    timers,           \* armed: grace, retry, response, connect
    recovering, attempt,
    waiting,          \* recoveryWaitingForSocket
    connectionLost,
    \* the socket and the server
    socket,           \* open
    toServer, toTab,
    inSession,        \* the tab's session in the registry, or 0
    issuedSid

tabVars == <<sid, deviceId, guard, timers, recovering, attempt, waiting, connectionLost>>
netVars == <<socket, toServer, toTab, inSession, issuedSid>>
recVars == <<tabVars, netVars>>

NoRequest == [waiting |-> FALSE, expected |-> NoComputer]

RecInit ==
    /\ sid = 0 /\ deviceId = NoComputer /\ guard = NoRequest /\ timers = {}
    /\ recovering = FALSE /\ attempt = 0 /\ waiting = FALSE
    /\ connectionLost = FALSE
    /\ socket = TRUE /\ toServer = <<[t |-> "client_auth"]>> /\ toTab = <<>>
    /\ inSession = 0 /\ issuedSid = 0
-----------------------------------------------------------------------------
(* Pieces of the tab's handlers *)

TabSends(msgs) == toServer' = IF socket THEN toServer \o msgs ELSE toServer
Bye(s) == [t |-> "bye", sid |-> s]

Teardown ==
    /\ sid' = 0 /\ deviceId' = NoComputer /\ guard' = NoRequest /\ timers' = {}
    /\ recovering' = FALSE /\ attempt' = 0 /\ waiting' = FALSE

(* scheduleRecoveryAttempt after `failed` attempts.                        *)
ScheduleAttempt(failed) ==
    IF failed = MaxAttempts
    THEN Teardown
    ELSE /\ sid' = 0 /\ recovering' = TRUE /\ attempt' = failed + 1
         /\ timers' = (timers \ {"grace", "response"}) \cup {"retry"}
         /\ UNCHANGED <<deviceId, waiting>>

(* handleSessionLost: a new session by itself, if the device is known.     *)
SessionLost ==
    /\ TabSends(IF sid # 0 /\ ~connectionLost THEN <<Bye(sid)>> ELSE <<>>)
    /\ IF deviceId = NoComputer THEN Teardown
       ELSE ScheduleAttempt(0) /\ UNCHANGED guard

(* performRecoveryAttempt: asks for the device, or waits for the socket.    *)
AsksAgain_StaysWaiting ==
    /\ guard' = [waiting |-> TRUE, expected |-> deviceId]
    /\ TabSends(<<[t |-> "connect", device |-> deviceId]>>)
    /\ timers' = (timers \ {"retry"}) \cup {"response"}
    /\ UNCHANGED waiting

AsksAgain ==
    /\ guard' = [waiting |-> TRUE, expected |-> deviceId]
    /\ TabSends(<<[t |-> "connect", device |-> deviceId]>>)
    /\ timers' = (timers \ {"retry"}) \cup {"response"}
    /\ waiting' = FALSE

WaitsForSocket ==
    /\ waiting' = TRUE
    /\ timers' = timers \ {"retry"}
    /\ UNCHANGED <<guard, toServer>>
-----------------------------------------------------------------------------
(* The user *)

(* beginSession: a device's row, or a PIN, which Enter sends at any time   *)
(* the first screen is shown.                                              *)
BeginSession(d) ==
    /\ sid = 0 /\ ~recovering /\ Len(toServer) < MaxUp
    /\ d # NoComputer => ~connectionLost /\ ~guard.waiting
    /\ guard' = [waiting |-> TRUE, expected |-> d]
    /\ timers' = timers \cup {"connect"}
    /\ TabSends(<<[t |-> "connect", device |-> d]>>)
    /\ UNCHANGED <<sid, deviceId, recovering, attempt, waiting, connectionLost,
                   socket, toTab, inSession, issuedSid>>

DisconnectButton ==
    /\ sid # 0 \/ recovering
    /\ TabSends(IF sid # 0 THEN <<Bye(sid)>> ELSE <<>>)
    /\ Teardown
    /\ UNCHANGED <<connectionLost, socket, toTab, inSession, issuedSid>>
-----------------------------------------------------------------------------
(* The peer connection *)

Connected ==
    /\ sid # 0 /\ "grace" \in timers
    /\ timers' = timers \ {"grace"}
    /\ UNCHANGED <<sid, deviceId, guard, recovering, attempt, waiting, connectionLost, netVars>>

Disconnected ==
    /\ sid # 0 /\ "grace" \notin timers
    /\ timers' = timers \cup {"grace"}
    /\ UNCHANGED <<sid, deviceId, guard, recovering, attempt, waiting, connectionLost, netVars>>

(* failed, closed, or closed by the browser itself.                        *)
PeerFails ==
    /\ sid # 0
    /\ SessionLost
    /\ UNCHANGED <<connectionLost, socket, toTab, inSession, issuedSid>>

SendsIce ==
    /\ sid # 0 /\ Len(toServer) < MaxUp
    /\ TabSends(<<[t |-> "ice", sid |-> sid]>>)
    /\ UNCHANGED <<tabVars, socket, toTab, inSession, issuedSid>>

(* An offer that is not to be trusted is answered with bye; one that       *)
(* cannot be applied is not answered.                                      *)
NegotiationFails ==
    /\ sid # 0
    /\ \/ TabSends(<<Bye(sid)>>) \/ UNCHANGED toServer
    /\ Teardown
    /\ UNCHANGED <<connectionLost, socket, toTab, inSession, issuedSid>>
-----------------------------------------------------------------------------
(* Timers *)

GraceEnds ==
    /\ "grace" \in timers
    /\ SessionLost
    /\ UNCHANGED <<connectionLost, socket, toTab, inSession, issuedSid>>

RetryFires ==
    /\ "retry" \in timers
    /\ IF connectionLost THEN WaitsForSocket ELSE AsksAgain
    /\ UNCHANGED <<sid, deviceId, recovering, attempt, connectionLost,
                   socket, toTab, inSession, issuedSid>>

(* No answer in time: the attempt has failed, but its answer may come.     *)
ResponseTimesOut ==
    /\ "response" \in timers
    /\ ScheduleAttempt(attempt)
    /\ attempt # MaxAttempts => UNCHANGED guard
    /\ UNCHANGED <<connectionLost, netVars>>

ConnectTimesOut ==
    /\ "connect" \in timers
    /\ timers' = timers \ {"connect"}
    /\ guard' = NoRequest
    /\ UNCHANGED <<sid, deviceId, recovering, attempt, waiting, connectionLost, netVars>>
-----------------------------------------------------------------------------
(* Messages of the server *)

TabTakes(t) ==
    /\ socket /\ toTab # <<>> /\ Head(toTab).t = t
    /\ toTab' = Tail(toTab)
    /\ UNCHANGED <<socket, inSession, issuedSid>>

OnAuthenticated ==
    /\ TabTakes("authenticated")
    /\ connectionLost' = FALSE
    /\ IF recovering /\ waiting THEN AsksAgain
       ELSE UNCHANGED <<guard, toServer, timers, waiting>>
    /\ UNCHANGED <<sid, deviceId, recovering, attempt>>

Verdict_AnyDevice(d) == IF guard.waiting THEN "accept" ELSE "unexpected"
Verdict(d) ==
    IF ~guard.waiting THEN "unexpected"
    ELSE IF guard.expected \notin {NoComputer, d} THEN "mismatch" ELSE "accept"

(* joined is judged by what was asked for; a session that is still live    *)
(* gives way to it.                                                        *)
OnJoined ==
    /\ TabTakes("joined")
    /\ LET m == Head(toTab)
           refuses == TabSends(<<Bye(m.sid)>>)
       IN \/ /\ Verdict(m.device) = "unexpected"
             /\ refuses
             /\ guard' = NoRequest
             /\ UNCHANGED <<sid, deviceId, timers, recovering, attempt, waiting>>
          \/ /\ Verdict(m.device) = "mismatch" /\ recovering
             /\ refuses
             /\ Teardown
          \/ /\ Verdict(m.device) = "mismatch" /\ ~recovering
             /\ refuses
             /\ guard' = NoRequest
             /\ timers' = timers \ {"connect"}
             /\ UNCHANGED <<sid, deviceId, recovering, attempt, waiting>>
          \/ /\ Verdict(m.device) = "accept"
             /\ guard' = NoRequest /\ timers' = {}
             /\ sid' = m.sid /\ deviceId' = m.device
             /\ recovering' = FALSE /\ attempt' = 0 /\ waiting' = FALSE
             /\ UNCHANGED toServer
    /\ UNCHANGED connectionLost

OnBye ==
    /\ TabTakes("bye")
    /\ LET m == Head(toTab)
       IN \/ /\ m.sid # sid
             /\ UNCHANGED <<sid, deviceId, guard, timers, recovering, attempt, waiting, toServer>>
          \/ /\ m.sid = sid /\ ~m.final /\ "grace" \in timers
             /\ SessionLost
          \/ /\ m.sid = sid /\ (m.final \/ "grace" \notin timers)
             /\ Teardown
             /\ UNCHANGED toServer
    /\ UNCHANGED connectionLost

(* Whatever an error answers: a recovery takes it for its own, the first   *)
(* screen for its request, and a session for its end.                      *)
OnError ==
    /\ TabTakes("error")
    /\ \/ /\ recovering
          /\ ScheduleAttempt(attempt)
          /\ guard' = NoRequest
       \/ /\ ~recovering /\ sid = 0
          /\ LET stale == Head(toTab).about = "ice"
             IN /\ guard' = IF stale THEN guard ELSE NoRequest
                /\ timers' = IF stale THEN timers ELSE timers \ {"connect"}
          /\ UNCHANGED <<sid, deviceId, recovering, attempt, waiting>>
       \/ ~recovering /\ sid # 0 /\ Teardown
    /\ UNCHANGED <<connectionLost, toServer>>
-----------------------------------------------------------------------------
(* The socket *)

SocketCloses ==
    /\ socket /\ socket' = FALSE
    /\ connectionLost' = TRUE
    /\ toServer' = <<>> /\ toTab' = <<>>
    /\ inSession' = 0
    /\ UNCHANGED <<sid, deviceId, guard, timers, recovering, attempt, waiting, issuedSid>>

ReconnectSignaling ==
    /\ ~socket /\ socket' = TRUE
    /\ toServer' = <<[t |-> "client_auth"]>>
    /\ UNCHANGED <<tabVars, toTab, inSession, issuedSid>>

(* The server and, behind it, the host *)

ServerTakes(t, answers) ==
    /\ toServer # <<>> /\ Head(toServer).t = t /\ Len(toTab) < MaxDown
    /\ toServer' = Tail(toServer)
    /\ toTab' = toTab \o answers
    /\ UNCHANGED <<tabVars, socket>>

Authenticates ==
    /\ ServerTakes("client_auth", <<[t |-> "authenticated"]>>)
    /\ UNCHANGED <<inSession, issuedSid>>

Connects(d) ==
    /\ inSession = 0 /\ issuedSid < MaxSid
    /\ ServerTakes("connect", <<[t |-> "joined", sid |-> issuedSid + 1, device |-> d]>>)
    /\ Head(toServer).device \in {NoComputer, d}
    /\ issuedSid' = issuedSid + 1
    /\ inSession' = issuedSid'

Refuses ==
    /\ ServerTakes("connect", <<[t |-> "error", about |-> "connect"]>>)
    /\ UNCHANGED <<inSession, issuedSid>>

ServerHearsBye ==
    /\ ServerTakes("bye", <<>>)
    /\ inSession' = IF Head(toServer).sid = inSession THEN 0 ELSE inSession
    /\ UNCHANGED issuedSid

ServerHearsIce ==
    /\ ServerTakes("ice", IF toServer # <<>> /\ Head(toServer).t = "ice" /\ Head(toServer).sid = inSession
                          THEN <<>> ELSE <<[t |-> "error", about |-> "ice"]>>)
    /\ UNCHANGED <<inSession, issuedSid>>

HostSaysBye(final) ==
    /\ inSession # 0 /\ Len(toTab) < MaxDown
    /\ toTab' = Append(toTab, [t |-> "bye", sid |-> inSession, final |-> final])
    /\ inSession' = 0
    /\ UNCHANGED <<tabVars, socket, toServer, issuedSid>>

(* The host's connection is gone: the registry forgets the session.        *)
HostUnregisters ==
    /\ inSession # 0 /\ inSession' = 0
    /\ UNCHANGED <<tabVars, socket, toServer, toTab, issuedSid>>
-----------------------------------------------------------------------------
TabHears == OnAuthenticated \/ OnJoined \/ OnBye \/ OnError
TimerFires == GraceEnds \/ RetryFires \/ ResponseTimesOut \/ ConnectTimesOut
PeerReports == Connected \/ Disconnected \/ PeerFails \/ SendsIce \/ NegotiationFails
ServerActs == \/ Authenticates \/ Refuses \/ ServerHearsBye \/ ServerHearsIce
              \/ \E d \in Computer : Connects(d)

RecNext ==
    \/ \E d \in Computer \cup {NoComputer} : BeginSession(d)
    \/ DisconnectButton \/ PeerReports \/ TimerFires \/ TabHears
    \/ SocketCloses \/ ReconnectSignaling \/ ServerActs
    \/ \E final \in BOOLEAN : HostSaysBye(final)
    \/ HostUnregisters

RecSpec == RecInit /\ [][RecNext]_recVars
-----------------------------------------------------------------------------
(* Properties *)

(* A recovery always waits for exactly one thing that will take it on: the *)
(* delay before an attempt, the answer to one, or the socket; outside a    *)
(* recovery nothing of it is left that could act on another session        *)
(* (sessionRecovery.ts:24, app.ts:1282).                                   *)
NeverStalls ==
    LET armed == timers \cap {"retry", "response"}
    IN /\ recovering => /\ sid = 0 /\ deviceId \in Computer
                        /\ \/ armed \in {{"retry"}, {"response"}} /\ ~waiting
                           \/ armed = {} /\ waiting /\ connectionLost
       /\ ~recovering => armed = {} /\ ~waiting
       /\ "grace" \in timers => sid # 0

(* A recovery that succeeds leads to the device whose session was lost,    *)
(* whichever answers to earlier requests are still to come                 *)
(* (connectGuard.ts:1).                                                    *)
RecoversSameDevice ==
    [][recovering /\ sid' # 0 => deviceId' = deviceId]_recVars
=============================================================================
