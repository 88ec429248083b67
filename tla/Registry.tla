------------------------------ MODULE Registry ------------------------------
(***************************************************************************)
(* The signaling server's in-memory registry (server/src/registry.rs):     *)
(* which host is online through which connection, which PIN leads to which *)
(* host, and which session joins a host to a client.                       *)
(*                                                                         *)
(* `Registry` is one `Mutex<Inner>`; every method is one critical section  *)
(* and so one action here, except `join`, which takes the lock three times *)
(* and is three actions (JoinResolve, JoinEnter, JoinRotate) between which *)
(* any other connection's call may run.  A `Tx` is compared only with      *)
(* `same_channel`, so it is the identity of its connection.                *)
(*                                                                         *)
(* Time enters through PIN expiry only: hosts[h].expired says that         *)
(* pin_issued_at is at least pin_ttl ago.                                  *)
(***************************************************************************)
EXTENDS Naturals, FiniteSets

CONSTANTS
    Host,       \* persistent device ids (`host_id`)
    HostConn,   \* connections that said Hello{role: Host}
    Client,     \* connections that said Hello{role: Client}
    Sid,        \* session ids
    Pin,        \* six-digit PINs
    None        \* Rust's `None`, an absent map entry

ASSUME NoneIsNoValue == None \notin Host \cup HostConn \cup Client \cup Sid \cup Pin

VARIABLES
    hosts,      \* Inner.hosts: Host -> HostEntry, NoHost where there is none
    pinToHost,  \* Inner.pin_to_host: Pin -> Host, None where there is none
    sessions,   \* Inner.sessions: Sid -> SessionEntry, NoSession where none
    joining     \* the local variables of a client's `join` between its locks

regVars == <<hosts, pinToHost, sessions, joining>>

NoHost == [tx |-> None, pin |-> None, sid |-> None, rotates |-> FALSE, expired |-> FALSE]
NoSession == [host |-> None, hostTx |-> None, client |-> None]
NotJoining == [step |-> "idle", host |-> None, tx |-> None, sid |-> None]

HostEntry == [tx : HostConn, pin : Pin, sid : Sid \cup {None},
              rotates : BOOLEAN, expired : BOOLEAN]
SessionEntry == [host : Host, hostTx : HostConn, client : Client]
JoinLocals ==
    {NotJoining}
    \cup [step : {"resolved"}, host : Host, tx : {None}, sid : {None}]
    \cup [step : {"entered"}, host : Host, tx : HostConn, sid : Sid]

RegInit ==
    /\ hosts = [h \in Host |-> NoHost]
    /\ pinToHost = [p \in Pin |-> None]
    /\ sessions = [s \in Sid |-> NoSession]
    /\ joining = [c \in Client |-> NotJoining]

-----------------------------------------------------------------------------
Online(h) == hosts[h].tx # None
Live(s) == sessions[s].host # None

(* Mutant: any live session counts as the host's own.                       *)
Owns_AnyHost(h, s) == s \in Sid /\ Live(s)

(* "only remove what this host_id owns": a host's session id may be         *)
(* detached (no entry) or name another host's session.                      *)
Owns(h, s) == s \in Sid /\ sessions[s].host = h

InSession(c) == \E s \in Sid : sessions[s].client = c

(* Mutant: an ended session's entry is only half cleared.                   *)
Without_ClientOnly(S) ==
    [s \in Sid |-> IF s \in S THEN [sessions[s] EXCEPT !.client = None] ELSE sessions[s]]

Without(S) == [s \in Sid |-> IF s \in S THEN NoSession ELSE sessions[s]]

IsCurrentHost(h, c) == hosts[h].tx = c

(* Mutant: the host's current session, whatever session the message names.  *)
PeerTxForHost_NoSidCheck(h, s) ==
    IF Owns(h, hosts[h].sid) THEN sessions[hosts[h].sid].client ELSE None

PeerTxForHost(h, s) == IF hosts[h].sid = s /\ Owns(h, s) THEN sessions[s].client ELSE None

PeerTxForClient(s, c) == IF sessions[s].client = c THEN sessions[s].hostTx ELSE None

-----------------------------------------------------------------------------
(* register_host.  `claimed` is HostRegister.session_id; the old entry and  *)
(* its PIN are removed before unique_pin looks for a free one.              *)
RegisterHost(h, c, claimed, rotates, pin) ==
    LET reattach == Owns(h, claimed)
        lost == IF reattach THEN {} ELSE {s \in Sid : s = hosts[h].sid /\ Owns(h, s)}
    IN  /\ pinToHost[pin] = None \/ pin = hosts[h].pin
        /\ hosts' = [hosts EXCEPT ![h] =
                        [tx |-> c, pin |-> pin, sid |-> claimed,
                         rotates |-> rotates, expired |-> FALSE]]
        /\ pinToHost' = [p \in Pin |-> IF p = pin THEN h
                                       ELSE IF p = hosts[h].pin THEN None
                                       ELSE pinToHost[p]]
        /\ sessions' = IF reattach
                       THEN [sessions EXCEPT ![claimed].hostTx = c]
                       ELSE Without(lost)
        /\ UNCHANGED joining

(* unregister_host: nothing happens unless c still holds the registration.  *)
UnregisterHost(h, c) ==
    \/ /\ IsCurrentHost(h, c)
       /\ hosts' = [hosts EXCEPT ![h] = NoHost]
       /\ pinToHost' = [pinToHost EXCEPT ![hosts[h].pin] = None]
       /\ sessions' = Without({s \in Sid : s = hosts[h].sid /\ Owns(h, s)})
       /\ UNCHANGED joining
    \/ /\ ~IsCurrentHost(h, c)
       /\ UNCHANGED regVars

-----------------------------------------------------------------------------
(* Mutant: a client already in a session may enter another (B4).            *)
CanEnter_NoSessionCheck(h, c) == Online(h) /\ hosts[h].sid = None

(* join_by_host_id's checks, in its order: HostOffline, AlreadyInSession,   *)
(* HostBusy.                                                                *)
CanEnter(h, c) == Online(h) /\ ~InSession(c) /\ hosts[h].sid = None

(* The rest of join_by_host_id; s is the random id not in `sessions`.       *)
Enter(h, c, s) ==
    /\ CanEnter(h, c)
    /\ ~Live(s)
    /\ sessions' = [sessions EXCEPT ![s] = [host |-> h, hostTx |-> hosts[h].tx, client |-> c]]
    /\ hosts' = [hosts EXCEPT ![h].sid = s]
    /\ UNCHANGED pinToHost

(* ConnectDevice calls join_by_host_id on its own.                          *)
JoinByHostId(h, c, s) ==
    /\ joining[c] = NotJoining
    /\ Enter(h, c, s)
    /\ UNCHANGED joining

(* What `join` needs of a PIN in its first critical section.                *)
PinOpens(pin, h) == pinToHost[pin] = h /\ ~(hosts[h].rotates /\ hosts[h].expired)

JoinResolve(c, pin, h) ==
    /\ joining[c] = NotJoining
    /\ PinOpens(pin, h)
    /\ joining' = [joining EXCEPT ![c] = [NotJoining EXCEPT !.step = "resolved", !.host = h]]
    /\ UNCHANGED <<hosts, pinToHost, sessions>>

JoinEnter(c, s) ==
    LET h == joining[c].host IN
    /\ joining[c].step = "resolved"
    /\ Enter(h, c, s)
    /\ joining' = [joining EXCEPT ![c] =
                      [step |-> "entered", host |-> h, tx |-> hosts[h].tx, sid |-> s]]

(* The second section fails: HostOffline (told as UnknownPin), HostBusy or  *)
(* AlreadyInSession.                                                        *)
JoinRefused(c) ==
    /\ joining[c].step = "resolved"
    /\ ~CanEnter(joining[c].host, c)
    /\ joining' = [joining EXCEPT ![c] = NotJoining]
    /\ UNCHANGED <<hosts, pinToHost, sessions>>

(* Mutant: the old PIN stays in the index.                                  *)
RotatePin_KeepsOldPin(h, pin) ==
    /\ pinToHost[pin] = None
    /\ hosts' = [hosts EXCEPT ![h].pin = pin, ![h].expired = FALSE]
    /\ pinToHost' = [pinToHost EXCEPT ![pin] = h]

(* rotate_pin on one host.                                                  *)
RotatePin(h, pin) ==
    /\ pinToHost[pin] = None
    /\ hosts' = [hosts EXCEPT ![h].pin = pin, ![h].expired = FALSE]
    /\ pinToHost' = [pinToHost EXCEPT ![hosts[h].pin] = None, ![pin] = h]

(* The third section's test: still the connection that was entered.         *)
RotatesOnJoin(c) ==
    LET h == joining[c].host IN hosts[h].rotates /\ IsCurrentHost(h, joining[c].tx)

JoinRotate(c, pin) ==
    /\ joining[c].step = "entered"
    /\ \/ RotatesOnJoin(c) /\ RotatePin(joining[c].host, pin)
       \/ ~RotatesOnJoin(c) /\ UNCHANGED <<hosts, pinToHost>>
    /\ joining' = [joining EXCEPT ![c] = NotJoining]
    /\ UNCHANGED sessions

(* rotate_expired_pins: rotate_pin on each expired host in turn, under one  *)
(* lock and in HashMap order, so a PIN freed by one may be drawn by a later *)
(* one: `rank` is that order.                                               *)
Expired == {h \in Host : hosts[h].rotates /\ hosts[h].expired}

RotateExpiredPins(new) ==
    /\ \A h \in Expired : pinToHost[new[h]] \in Expired \cup {None}
    /\ \A g, h \in Expired : new[g] = new[h] => g = h
    /\ \E rank \in [Expired -> 1 .. Cardinality(Expired)] :
          \A g, h \in Expired : new[h] = hosts[g].pin => rank[g] < rank[h]
    /\ hosts' = [h \in Host |-> IF h \in Expired
                                THEN [hosts[h] EXCEPT !.pin = new[h], !.expired = FALSE]
                                ELSE hosts[h]]
    /\ pinToHost' = [p \in Pin |->
          IF \E h \in Expired : new[h] = p THEN CHOOSE h \in Expired : new[h] = p
          ELSE IF pinToHost[p] \in Expired THEN None
          ELSE pinToHost[p]]
    /\ UNCHANGED <<sessions, joining>>

PinExpires(h) ==
    /\ hosts[h].rotates /\ ~hosts[h].expired
    /\ hosts' = [hosts EXCEPT ![h].expired = TRUE]
    /\ UNCHANGED <<pinToHost, sessions, joining>>

-----------------------------------------------------------------------------
(* Mutant: a detached host's Bye ends the foreign session it names.         *)
CloseByHost_ForeignToo(h, s) ==
    /\ hosts[h].sid = s
    /\ hosts' = [hosts EXCEPT ![h].sid = None]
    /\ sessions' = Without({s})
    /\ UNCHANGED <<pinToHost, joining>>

(* close_session_by_host: frees the host from s, and ends the session when  *)
(* it is this host's own.                                                   *)
CloseByHost(h, s) ==
    /\ hosts[h].sid = s
    /\ hosts' = [hosts EXCEPT ![h].sid = None]
    /\ sessions' = Without({t \in {s} : Owns(h, t)})
    /\ UNCHANGED <<pinToHost, joining>>

(* Mutant: the host is not freed.                                           *)
EndSessions_HostStaysBusy(S) ==
    /\ sessions' = Without(S)
    /\ UNCHANGED <<hosts, pinToHost, joining>>

(* The shared tail of close_session_by_client and disconnect_client: the    *)
(* sessions end and their hosts, where still registered, become free.       *)
EndSessions(S) ==
    /\ sessions' = Without(S)
    /\ hosts' = [h \in Host |-> IF Online(h) /\ \E s \in S : sessions[s].host = h
                                THEN [hosts[h] EXCEPT !.sid = None]
                                ELSE hosts[h]]
    /\ UNCHANGED <<pinToHost, joining>>

CloseByClient(s, c) ==
    /\ sessions[s].client = c
    /\ EndSessions({s})

DisconnectClient(c) == EndSessions({s \in Sid : sessions[s].client = c})

-----------------------------------------------------------------------------
(* The most general caller.  A host connection registers only while it      *)
(* holds no registration (run_host registers once); a client's calls do not *)
(* overlap (run_client handles one message at a time).                      *)
HostCalls(c) ==
    \E h \in Host :
        \/ /\ \A g \in Host : ~IsCurrentHost(g, c)
           /\ \E claimed \in Sid \cup {None}, rotates \in BOOLEAN, pin \in Pin :
                 RegisterHost(h, c, claimed, rotates, pin)
        \/ UnregisterHost(h, c)
        \/ \E s \in Sid : CloseByHost(h, s)

JoinSteps(c) ==
    \/ \E pin \in Pin, h \in Host : JoinResolve(c, pin, h)
    \/ \E s \in Sid : JoinEnter(c, s)
    \/ JoinRefused(c)
    \/ \E pin \in Pin : JoinRotate(c, pin)

ClientCalls(c) ==
    \/ \E h \in Host, s \in Sid : JoinByHostId(h, c, s)
    \/ joining[c] = NotJoining /\ \E s \in Sid : CloseByClient(s, c)
    \/ joining[c] = NotJoining /\ DisconnectClient(c)

PinUpkeep ==
    \/ \E h \in Host : PinExpires(h)
    \/ \E new \in [Expired -> Pin] : RotateExpiredPins(new)

RegNext ==
    \/ \E c \in HostConn : HostCalls(c)
    \/ \E c \in Client : JoinSteps(c) \/ ClientCalls(c)
    \/ PinUpkeep

RegSpec == RegInit /\ [][RegNext]_regVars

-----------------------------------------------------------------------------
(* Every variable holds what its Rust type admits, and an absent entry is   *)
(* wholly absent.                                                           *)
TypeOK ==
    /\ hosts \in [Host -> HostEntry \cup {NoHost}]
    /\ pinToHost \in [Pin -> Host \cup {None}]
    /\ sessions \in [Sid -> SessionEntry \cup {NoSession}]
    /\ joining \in [Client -> JoinLocals]

(* A session entry never outlives, or points away from, the registration it *)
(* belongs to: its host is online, is busy with exactly this session, and   *)
(* its host_tx is the connection that holds the registration now -- so      *)
(* peer_tx_for_client never looks up a displaced connection.                *)
SessionBacked ==
    \A s \in Sid : Live(s) =>
        /\ Online(sessions[s].host)
        /\ hosts[sessions[s].host].sid = s
        /\ hosts[sessions[s].host].tx = sessions[s].hostTx

(* B4: one client connection holds at most one session, whatever joins race *)
(* over the three critical sections of `join`.                              *)
OneSessionPerClient ==
    \A s, t \in Sid : Live(s) /\ sessions[t].client = sessions[s].client => s = t

(* The PIN index and the host entries agree in both directions: no PIN      *)
(* leads to a host that shows another one (or is gone), and no online host  *)
(* shows a PIN that `join` does not know.                                   *)
PinIndexExact ==
    \A p \in Pin, h \in Host : pinToHost[p] = h <=> hosts[h].pin = p

EndedSessionFreesHost ==
    \A s \in Sid : Live(s) /\ ~Live(s)' => hosts'[sessions[s].host].sid # s

(* A session that ends never leaves its host busy with it: otherwise the    *)
(* device would answer "host busy" to everyone until it re-registered.      *)
NoGhostBusy == [][EndedSessionFreesHost]_regVars
-----------------------------------------------------------------------------
(* The registry as Occupancy sees it.                                       *)
StatusOf(h) ==
    IF ~Online(h) THEN "offline"
    ELSE IF hosts[h].sid = None THEN "free"
    ELSE IF Owns(h, hosts[h].sid) THEN "held"
    ELSE "detached"

HolderOf(h) == IF Online(h) /\ Owns(h, hosts[h].sid)
               THEN sessions[hosts[h].sid].client ELSE None

Occ == INSTANCE Occupancy WITH
    status <- [h \in Host |-> StatusOf(h)],
    holder <- [h \in Host |-> HolderOf(h)]

(* However joins, re-registrations and closings interleave, each critical   *)
(* section changes at most one host's occupancy, and only along the moves   *)
(* of Occupancy: a host is never handed straight from one client to         *)
(* another, and claiming another host's session id touches nobody's session.*)
RefinesOccupancy == Occ!OccSpec
=============================================================================
