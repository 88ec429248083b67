------------------------------ MODULE Signaling ------------------------------
(***************************************************************************)
(* The signaling server's connection handlers (server/src/ws.rs: run_host, *)
(* run_client, the writer task) and the PIN rotation task (app.rs), running *)
(* concurrently over one Registry, together with as much of the agents and *)
(* clients at the other end as decides what they may send next.            *)
(*                                                                         *)
(* A handler is synchronous between two reads of its socket, but the tasks *)
(* run on several threads: each registry call and each send to a           *)
(* connection's queue is a step of its own, and any other handler may run  *)
(* between them.  What a handler still has to send is todo[a], performed    *)
(* in order, one send a step; a handler reads its next message only when   *)
(* that is empty.                                                          *)
(*                                                                         *)
(* A connection is used once; a reconnecting agent or client is another    *)
(* connection.  Session ids are not reused (random_id: 36^16 of them).     *)
(***************************************************************************)
EXTENDS Registry, Sequences, Functions

CONSTANTS
    Rotating,   \* hosts whose agent registers with pin_rotation (since 0.1.5)
    QueueCap,   \* OUTBOUND_QUEUE
    Rotator,    \* the spawn_pin_rotation task
    Burst       \* Conn \cup {Rotator} -> Nat, a bound: how many messages a
                \*   connection may send (MESSAGE_BURST without its refill), how
                \*   often the rotation task finds expired PINs

Conn == HostConn \cup Client
Actor == Conn \cup {Rotator}

ASSUME OneRole == HostConn \cap Client = {} /\ Rotator \notin Conn
ASSUME FiniteHosts == IsFiniteSet(Host)
ASSUME RotatingHosts == Rotating \subseteq Host
ASSUME Bounds == QueueCap \in Nat \ {0} /\ Burst \in [Actor -> Nat]

(* Messages: the type, and the session id or PIN it carries.  "Relay" stands *)
(* for Offer, Answer, Ice and the OPAQUE messages, forwarded without a look *)
(* at their content.  Messages about no session and no PIN (Error, which its *)
(* receiver shows or logs, Devices, SessionStats) are left out, except that *)
(* they fill queues: see Sends.                                             *)
Msg(type, sid, pin) == [type |-> type, sid |-> sid, pin |-> pin]
Send(to, m) == [to |-> to, msg |-> m]

VARIABLES
    phase,      \* Conn -> "new" | "serving" | "closed": the handler's task
    regOf,      \* HostConn -> the host_id it registered, or None
    budget,     \* Actor -> tokens left of its MessageBudget
    cur,        \* HostConn -> the message admitted by is_current_host, or None
    todo,       \* Actor -> sends its handler has yet to perform
    out,        \* Conn -> its outbound queue
    gate,       \* Conn -> "open" | "killed": kill switch thrown, the writer still
                \*   runs | "dead": no writer
    link,       \* HostConn -> the agent's view: "none" | "handshake" | "up" | "gone"
    known,      \* Conn -> session ids the peer was told of on it
    pins,       \* HostConn -> PINs the agent took from it, the last one displayed
    issued      \* Sid -> what the id was issued for, or NotIssued

connVars == <<phase, regOf, budget, cur>>
agentVars == <<link, known, pins>>
sigVars == <<regVars, connVars, todo, out, gate, agentVars, issued>>

NotIssued == [host |-> None, client |-> None]

SigInit ==
    /\ RegInit
    /\ phase = [x \in Conn |-> IF x \in Client THEN "serving" ELSE "new"]
    /\ regOf = [x \in HostConn |-> None]
    /\ cur = [x \in HostConn |-> None]
    /\ budget = Burst
    /\ todo = [a \in Actor |-> <<>>]
    /\ out = [x \in Conn |-> <<>>]
    /\ gate = [x \in Conn |-> "open"]
    /\ link = [x \in HostConn |-> "none"]
    /\ known = [x \in Conn |-> {}]
    /\ pins = [x \in HostConn |-> <<>>]
    /\ issued = [s \in Sid |-> NotIssued]

-----------------------------------------------------------------------------
(* The handler is in next_message.                                          *)
Reading(x) == phase[x] = "serving" /\ todo[x] = <<>>

HostReading(x) == Reading(x) /\ cur[x] = None
ClientReading(c) == Reading(c) /\ joining[c] = NotJoining

(* The handler returns, and its locals with it.  Its writer may still drain  *)
(* the queue for a moment; what is delivered then could as well have been   *)
(* delivered just before, so the rest of the queue is dropped here.         *)
Closes(x) ==
    /\ phase' = [phase EXCEPT ![x] = "closed"]
    /\ out' = [out EXCEPT ![x] = <<>>]
    /\ gate' = [gate EXCEPT ![x] = "dead"]
    /\ budget' = [budget EXCEPT ![x] = 0]

Todo(a, sends) == todo' = [todo EXCEPT ![a] = sends]

(* take_at: a message beyond the budget ends the loop instead (flood).      *)
TakesToken(a) ==
    /\ budget[a] > 0
    /\ budget' = [budget EXCEPT ![a] = @ - 1]

(* The peer of a session is looked up, and told; an Error if there is none. *)
Forward(x, peer, m) ==
    Todo(x, IF peer = None THEN <<>> ELSE <<Send(peer, m)>>)

-----------------------------------------------------------------------------
(* run_host up to its loop: register_host, an Error to the displaced         *)
(* connection, Registered to this one.  The agent that opens x has given up *)
(* any older connection of its device, and claims a session it was told of; *)
(* a connection it gave up in its handshake told it nothing.                *)
HostRegisters(x, h, claimed, pin) ==
    LET older == {y \in HostConn : regOf[y] = h}
    IN  /\ phase[x] = "new"
        /\ claimed = None \/ \E y \in older : claimed \in known[y]
        /\ RegisterHost(h, x, claimed, h \in Rotating, pin)
        /\ phase' = [phase EXCEPT ![x] = "serving"]
        /\ regOf' = [regOf EXCEPT ![x] = h]
        /\ Todo(x, <<Send(x, Msg("Registered", None, pin))>>)
        /\ link' = [y \in HostConn |-> IF y = x THEN "handshake"
                                       ELSE IF y \in older THEN "gone" ELSE link[y]]
        /\ known' = [y \in Conn |-> IF y = x THEN {claimed} \ {None}
                                    ELSE IF y \in older /\ link[y] = "handshake" THEN {}
                                    ELSE known[y]]
        /\ UNCHANGED <<budget, cur, out, gate, pins, issued>>

(* The loop's next message, past the is_current_host check (S-8).  A        *)
(* displaced connection's message ends its loop instead: HostExits.         *)
HostReceives(x, m) ==
    /\ HostReading(x)
    /\ TakesToken(x)
    /\ link[x] # "handshake"
    /\ m.sid \in known[x]
    /\ IsCurrentHost(regOf[x], x)
    /\ cur' = [cur EXCEPT ![x] = m]
    /\ UNCHANGED <<regVars, phase, regOf, todo, out, gate, agentVars, issued>>

HostRelays(x) ==
    /\ cur[x] # None
    /\ cur[x].type = "Relay"
    /\ Forward(x, PeerTxForHost(regOf[x], cur[x].sid), cur[x])
    /\ cur' = [cur EXCEPT ![x] = None]
    /\ UNCHANGED <<regVars, phase, regOf, budget, out, gate, agentVars, issued>>

(* Bye from the host: only a session with an entry has a client to tell.    *)
HostSaysBye(x) ==
    LET h == regOf[x]
        s == cur[x].sid
    IN  /\ cur[x] # None
        /\ cur[x].type = "Bye"
        /\ \/ CloseByHost(h, s)
           \/ hosts[h].sid # s /\ UNCHANGED regVars
        /\ Forward(x, PeerTxForHost(h, s), cur[x])
        /\ cur' = [cur EXCEPT ![x] = None]
        /\ UNCHANGED <<phase, regOf, budget, out, gate, agentVars, issued>>

(* Mutant: the registration is not cleaned up.                              *)
HostExits_KeepsRegistration(x) ==
    /\ HostReading(x)
    /\ Closes(x)
    /\ UNCHANGED <<regVars, regOf, cur, todo, agentVars, issued>>

(* The loop ends (socket closed or idle, flood, unexpected message, killed, *)
(* displaced) and unregister_host runs.                                     *)
HostExits(x) ==
    /\ HostReading(x)
    /\ UnregisterHost(regOf[x], x)
    /\ Closes(x)
    /\ UNCHANGED <<regOf, cur, todo, agentVars, issued>>

-----------------------------------------------------------------------------
(* Mutant: the host is told before the client.                              *)
Announce_HostFirst(c, s, hostTx, pin) ==
    Todo(c, <<Send(hostTx, Msg("PeerJoined", s, None)), Send(c, Msg("Joined", s, None))>>)

(* Mutant: the host is not told its new PIN.                                *)
Announce_NoPinChanged(c, s, hostTx, pin) ==
    Todo(c, <<Send(c, Msg("Joined", s, None)), Send(hostTx, Msg("PeerJoined", s, None))>>)

(* Joined to the client itself, PeerJoined to the host it entered, and then *)
(* the host's new PIN, if `join` rotated it.                                *)
Announce(c, s, hostTx, pin) ==
    Todo(c, <<Send(c, Msg("Joined", s, None)), Send(hostTx, Msg("PeerJoined", s, None))>>
            \o (IF pin = None THEN <<>> ELSE <<Send(hostTx, Msg("PinChanged", None, pin))>>))

Issue(c, s, h) ==
    /\ issued[s] = NotIssued
    /\ issued' = [issued EXCEPT ![s] = [host |-> h, client |-> c]]

ClientConnectsDevice(c, h, s) ==
    /\ ClientReading(c)
    /\ TakesToken(c)
    /\ JoinByHostId(h, c, s)
    /\ Issue(c, s, h)
    /\ Announce(c, s, hosts[h].tx, None)
    /\ UNCHANGED <<phase, regOf, cur, out, gate, agentVars>>

(* Join by PIN: the three critical sections of Registry::join, then the     *)
(* announcements.                                                           *)
ClientResolvesPin(c, pin, h) ==
    /\ ClientReading(c)
    /\ TakesToken(c)
    /\ JoinResolve(c, pin, h)
    /\ UNCHANGED <<phase, regOf, cur, todo, out, gate, agentVars, issued>>

(* Mutant: a join by PIN stops after its second critical section.           *)
ClientEnters_SkipsRotation(c, s) ==
    LET h == joining[c].host
    IN  /\ phase[c] = "serving" /\ joining[c].step = "resolved"
        /\ Enter(h, c, s)
        /\ joining' = [joining EXCEPT ![c] = NotJoining]
        /\ Issue(c, s, h)
        /\ Announce(c, s, hosts[h].tx, None)
        /\ UNCHANGED <<connVars, out, gate, agentVars>>

ClientEnters(c, s) ==
    /\ phase[c] = "serving" /\ JoinEnter(c, s)
    /\ Issue(c, s, joining[c].host)
    /\ UNCHANGED <<connVars, todo, out, gate, agentVars>>

ClientIsRefused(c) ==
    /\ phase[c] = "serving" /\ JoinRefused(c)
    /\ UNCHANGED <<connVars, todo, out, gate, agentVars, issued>>

ClientRotates(c, pin) ==
    /\ phase[c] = "serving" /\ JoinRotate(c, pin)
    /\ Announce(c, joining[c].sid, joining[c].tx, IF RotatesOnJoin(c) THEN pin ELSE None)
    /\ UNCHANGED <<connVars, out, gate, agentVars, issued>>

ClientRelays(c, s) ==
    /\ ClientReading(c)
    /\ TakesToken(c)
    /\ s \in known[c]
    /\ Forward(c, PeerTxForClient(s, c), Msg("Relay", s, None))
    /\ UNCHANGED <<regVars, phase, regOf, cur, out, gate, agentVars, issued>>

(* A Bye for a session the server no longer has is a quiet no-op.           *)
ClientSaysBye(c, s) ==
    /\ ClientReading(c)
    /\ TakesToken(c)
    /\ s \in known[c]
    /\ CloseByClient(s, c)
    /\ Todo(c, <<Send(sessions[s].hostTx, Msg("Bye", s, None))>>)
    /\ UNCHANGED <<phase, regOf, cur, out, gate, agentVars, issued>>

(* The sessions of a closed connection are of no use to its peer's next one. *)
ClientExits(c) ==
    /\ ClientReading(c)
    /\ DisconnectClient(c)
    /\ Closes(c)
    /\ known' = [known EXCEPT ![c] = {}]
    /\ UNCHANGED <<regOf, cur, todo, link, pins, issued>>

-----------------------------------------------------------------------------
(* spawn_pin_rotation: rotates under the lock, sends outside it.            *)
RotatorTicks(new, order) ==
    /\ todo[Rotator] = <<>>
    /\ Expired # {}
    /\ TakesToken(Rotator)
    /\ RotateExpiredPins(new)
    /\ Todo(Rotator, [i \in DOMAIN order |->
                         Send(hosts[order[i]].tx, Msg("PinChanged", None, new[order[i]]))])
    /\ UNCHANGED <<phase, regOf, cur, out, gate, agentVars, issued>>

(* pin_ttl is minutes: no task takes that long over the sends it has left.  *)
PinAges(h) ==
    /\ PinExpires(h)
    /\ \A a \in Actor : \A i \in DOMAIN todo[a] : todo[a][i].msg.pin # hosts[h].pin
    /\ UNCHANGED <<connVars, todo, out, gate, agentVars, issued>>

-----------------------------------------------------------------------------
(* Mutant: a full queue loses the message and the connection lives on.      *)
Sends_LossyOverflow(a) ==
    LET to == Head(todo[a]).to
        m == Head(todo[a]).msg
    IN  /\ todo[a] # <<>>
        /\ Todo(a, Tail(todo[a]))
        /\ \/ gate[to] # "dead" /\ Len(out[to]) < QueueCap /\ out' = [out EXCEPT ![to] = Append(@, m)]
           \/ UNCHANGED out
        /\ UNCHANGED <<regVars, connVars, gate, agentVars, issued>>

(* Tx::send: never waits; a full queue throws the connection's kill switch  *)
(* and loses the message, a queue without its writer swallows it.  The      *)
(* messages left out of this model fill the queue as well, so it may be     *)
(* full at any moment.                                                      *)
Sends(a) ==
    LET to == Head(todo[a]).to
        m == Head(todo[a]).msg
    IN  /\ todo[a] # <<>>
        /\ Todo(a, Tail(todo[a]))
        /\ \/ /\ gate[to] # "dead" /\ Len(out[to]) < QueueCap
              /\ out' = [out EXCEPT ![to] = Append(@, m)]
              /\ UNCHANGED gate
           \/ /\ gate[to] # "dead"
              /\ gate' = [gate EXCEPT ![to] = "killed"]
              /\ UNCHANGED out
           \/ /\ gate[to] = "dead"
              /\ UNCHANGED <<out, gate>>
        /\ UNCHANGED <<regVars, connVars, agentVars, issued>>

(* What the agent does with a message: handshake() accepts only Registered, *)
(* and an agent that has given x up reads nothing more from it.             *)
AgentReads(x, m) ==
    LET registered == link[x] = "handshake" /\ m.type = "Registered"
        failed == link[x] = "handshake" /\ m.type # "Registered"
        joined == link[x] = "up" /\ m.type = "PeerJoined"
        repinned == link[x] = "up" /\ m.type = "PinChanged"
    IN  /\ link' = [link EXCEPT ![x] = IF registered THEN "up"
                                       ELSE IF failed THEN "gone" ELSE @]
        /\ known' = [known EXCEPT ![x] = IF failed THEN {}
                                         ELSE IF joined THEN @ \cup {m.sid} ELSE @]
        /\ pins' = IF registered \/ repinned
                   THEN [pins EXCEPT ![x] = Append(@, m.pin)] ELSE pins

(* The writer task hands the next message to the peer.                      *)
Delivers(x) ==
    /\ out[x] # <<>>
    /\ out' = [out EXCEPT ![x] = Tail(@)]
    /\ \/ x \in HostConn /\ AgentReads(x, Head(out[x]))
       \/ /\ x \in Client
          /\ known' = IF Head(out[x]).type = "Joined"
                      THEN [known EXCEPT ![x] = @ \cup {Head(out[x]).sid}] ELSE known
          /\ UNCHANGED <<link, pins>>
    /\ UNCHANGED <<regVars, connVars, todo, gate, issued>>

(* The writer stops: the peer took neither a message nor a Ping for         *)
(* WRITE_TIMEOUT, which also throws the kill switch.                        *)
WriterTimesOut(x) ==
    /\ phase[x] = "serving" /\ gate[x] # "dead"
    /\ gate' = [gate EXCEPT ![x] = "dead"]
    /\ out' = [out EXCEPT ![x] = <<>>]
    /\ UNCHANGED <<regVars, connVars, todo, agentVars, issued>>

-----------------------------------------------------------------------------
HostStep(x) ==
    \/ \E h \in Host, claimed \in Sid \cup {None}, pin \in Pin :
          HostRegisters(x, h, claimed, pin)
    \/ \E type \in {"Relay", "Bye"}, s \in Sid : HostReceives(x, Msg(type, s, None))
    \/ HostRelays(x)
    \/ HostSaysBye(x)
    \/ HostExits(x)

ClientStep(c) ==
    \/ \E h \in Host, s \in Sid : ClientConnectsDevice(c, h, s)
    \/ \E pin \in Pin, h \in Host : ClientResolvesPin(c, pin, h)
    \/ \E s \in Sid : ClientEnters(c, s)
    \/ ClientIsRefused(c)
    \/ \E pin \in Pin : ClientRotates(c, pin)
    \/ \E s \in Sid : ClientRelays(c, s) \/ ClientSaysBye(c, s)
    \/ ClientExits(c)

RotationStep ==
    \/ \E new \in [Expired -> Pin], order \in Bijection(1 .. Cardinality(Expired), Expired) :
          RotatorTicks(new, order)
    \/ \E h \in Host : PinAges(h)

SigNext ==
    \/ \E x \in HostConn : HostStep(x)
    \/ \E c \in Client : ClientStep(c)
    \/ RotationStep
    \/ \E a \in Actor : Sends(a)
    \/ \E x \in Conn : Delivers(x) \/ WriterTimesOut(x)

SigSpec == SigInit /\ [][SigNext]_sigVars

-----------------------------------------------------------------------------
(* Fairness.  Handlers and tasks run on the tokio runtime and never wait    *)
(* inside a critical section or a send, so what one has started it goes on  *)
(* with; the writer either hands a message over or times out.  A connection *)
(* that is killed or whose peer is gone is noticed, however many messages   *)
(* are read first: `select!` chooses among ready branches at random, and a  *)
(* socket without a peer is closed or runs into read_timeout.               *)
HostFinishes(x) == HostRelays(x) \/ HostSaysBye(x)

ClientFinishes(c) ==
    \/ \E s \in Sid : ClientEnters(c, s)
    \/ ClientIsRefused(c)
    \/ \E pin \in Pin : ClientRotates(c, pin)

ExitsWhenOver(x) ==
    \/ x \in HostConn /\ (gate[x] # "open" \/ link[x] = "gone") /\ HostExits(x)
    \/ x \in Client /\ gate[x] # "open" /\ ClientExits(x)

Fairness ==
    /\ \A a \in Actor : WF_sigVars(Sends(a))
    /\ \A x \in HostConn : WF_sigVars(HostFinishes(x))
    /\ \A c \in Client : WF_sigVars(ClientFinishes(c))
    /\ \A x \in Conn : WF_sigVars(Delivers(x) \/ (out[x] # <<>> /\ WriterTimesOut(x)))
    /\ \A x \in Conn : SF_sigVars(ExitsWhenOver(x))

FairSigSpec == SigSpec /\ Fairness

-----------------------------------------------------------------------------
(* Ids announced by messages of this type before place i of x's queue.      *)
AnnouncedBefore(x, i, type) ==
    {out[x][j].sid : j \in {k \in 1 .. i - 1 : out[x][k].type = type}}

InOrder(x, type) ==
    \A i \in DOMAIN out[x] :
        out[x][i].type \in {"Relay", "Bye"} =>
            out[x][i].sid \in known[x] \cup AnnouncedBefore(x, i, type)

(* Each side hears of a session before it gets anything of that session     *)
(* from the other -- although the session is live in the registry, and may  *)
(* be closed, while its announcements are still to be sent: the client by   *)
(* Joined, the agent by PeerJoined unless it claimed the session itself     *)
(* when it registered.  A connection that is about to be closed is          *)
(* excepted, for its queue overflowed (ws.rs:2138).                         *)
AnnouncedFirst ==
    /\ \A c \in Client : gate[c] # "open" \/ InOrder(c, "Joined")
    /\ \A x \in HostConn :
          gate[x] # "open" \/ link[x] = "gone" \/ InOrder(x, "PeerJoined")

(* D35: whatever is queued for a client or a host under a session id was    *)
(* sent in a session that was issued for that very client and that device,  *)
(* even when the session ended or changed connection between the lookup of  *)
(* the peer and the send.                                                   *)
OnlyToItsParties ==
    \A x \in Conn : \A i \in DOMAIN out[x] :
        LET s == out[x][i].sid IN
        s # None => /\ x \in Client => issued[s].client = x
                    /\ x \in HostConn => issued[s].host = regOf[x]

(* The PIN messages on their way to x: queued, or still to be sent.         *)
PinsUnderway(x) ==
    {out[x][i].pin : i \in DOMAIN out[x]}
    \cup UNION {{todo[a][i].msg.pin : i \in {j \in DOMAIN todo[a] : todo[a][j].to = x}} : a \in Actor}

(* D44: no rotation is kept from the agent.  Whoever replaced the PIN -- a  *)
(* join, the rotation task, a registration -- the agent that holds the      *)
(* registration has been told the current one or is about to be.            *)
PinIsTold ==
    \A x \in HostConn, h \in Host :
        regOf[x] = h /\ IsCurrentHost(h, x) /\ gate[x] = "open" /\ link[x] # "gone" =>
            hosts[h].pin \in Range(pins[x]) \cup PinsUnderway(x)

(* The handlers use the registry as its most general caller may, so what is *)
(* proved of Registry holds of the running server.                          *)
UsesRegistry == RegSpec

(* No session stays unannounced: one the registry holds is told to the      *)
(* agent at the other end, or it ends -- also when PeerJoined was lost to a *)
(* full queue, a dead writer or a failed handshake.                         *)
SessionAnnouncedOrOver ==
    \A s \in Sid : Live(s) ~> (~Live(s) \/ s \in known[sessions[s].hostTx])

(* A connection whose kill switch was thrown does not keep a device online. *)
KilledLeavesRegistry ==
    \A x \in HostConn : gate[x] # "open" ~> (\A h \in Host : ~IsCurrentHost(h, x))
=============================================================================
