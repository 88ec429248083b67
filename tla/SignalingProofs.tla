--------------------------- MODULE SignalingProofs ---------------------------
(***************************************************************************)
(* Signaling drives the registry only in ways Registry allows, for any     *)
(* constants: every behavior of the handlers is a behavior of RegSpec, so  *)
(* what RegistryProofs proves holds of the running server.  And what the   *)
(* handlers send, for any numbers of devices, clients and sessions and     *)
(* queues of any length: a message reaches only the parties of its session *)
(* (PartiesInv), never before its addressee was told of the session        *)
(* (OrderInv), and a device's PIN reaches its agent (RegisteredOnce).  Each*)
(* invariant is inductive relative to the earlier ones and HandlersInv.    *)
(***************************************************************************)
EXTENDS Signaling, RegistryProofs, FiniteSetTheorems

(* The messages run_host acts on.                                           *)
Received == {Msg(type, s, None) : type \in {"Relay", "Bye"}, s \in Sid}

HandlersType ==
    /\ phase \in [Conn -> {"new", "serving", "closed"}]
    /\ regOf \in [HostConn -> Host \cup {None}]
    /\ cur \in [HostConn -> Received \cup {None}]

(* A handler past its registration knows its host_id, and one before it     *)
(* holds no registration.                                                   *)
ServesItsHost ==
    \A x \in HostConn : phase[x] = "serving" \/ cur[x] # None => regOf[x] \in Host

NewHoldsNothing ==
    \A x \in HostConn, h \in Host : phase[x] = "new" => ~IsCurrentHost(h, x)

HandlersInv == TypeOK /\ HandlersType /\ ServesItsHost /\ NewHoldsNothing

(* The registry calls other than register_host, and no call at all.         *)
OtherCalls ==
    \/ \E c \in HostConn, h \in Host : UnregisterHost(h, c) \/ \E s \in Sid : CloseByHost(h, s)
    \/ \E c \in Client : JoinSteps(c) \/ ClientCalls(c)
    \/ PinUpkeep
    \/ UNCHANGED regVars

-----------------------------------------------------------------------------
LEMMA OtherCallsAreAllowed == OtherCalls => [RegNext]_regVars
BY DEF OtherCalls, RegNext, HostCalls

LEMMA EnterKeepsTx ==
    ASSUME TypeOK, NEW g \in Host, NEW c \in Client, NEW s \in Sid, Enter(g, c, s), NEW h \in Host
    PROVE  hosts'[h].tx = hosts[h].tx
<1>1. hosts[g] \in HostEntry
  BY TypeEnter
<1>2. hosts' = [hosts EXCEPT ![g] = [hosts[g] EXCEPT !.sid = s]]
  BY DEF Enter, TypeOK
<1> QED
  BY <1>1, <1>2 DEF TypeOK, HostEntry

LEMMA EndSessionsKeepsTx ==
    ASSUME TypeOK, NEW S, EndSessions(S), NEW h \in Host
    PROVE  hosts'[h].tx = hosts[h].tx
<1>1. hosts'[h] = hosts[h] \/ hosts'[h] = [hosts[h] EXCEPT !.sid = None]
  BY DEF EndSessions
<1>2. hosts[h] \in HostEntry \cup {NoHost}
  BY DEF TypeOK
<1> QED
  BY <1>1, <1>2 DEF HostEntry, NoHost

(* Only register_host makes a connection the current one of a host.         *)
LEMMA OnlyRegisteringAdds ==
    ASSUME TypeOK, OtherCalls, NEW h \in Host
    PROVE  hosts'[h].tx \in {hosts[h].tx, None}
<1>1. ASSUME NEW c \in HostConn, NEW g \in Host, UnregisterHost(g, c)
      PROVE  hosts'[h].tx \in {hosts[h].tx, None}
  BY <1>1 DEF UnregisterHost, TypeOK, NoHost, regVars
<1>2. ASSUME NEW g \in Host, NEW s \in Sid, CloseByHost(g, s)
      PROVE  hosts'[h].tx \in {hosts[h].tx, None}
  <2>1. hosts' = [hosts EXCEPT ![g] = [hosts[g] EXCEPT !.sid = None]]
    BY <1>2 DEF CloseByHost, TypeOK
  <2>2. hosts[g] \in HostEntry \cup {NoHost}
    BY DEF TypeOK
  <2> QED
    BY <2>1, <2>2 DEF TypeOK, HostEntry, NoHost
<1>3. ASSUME NEW c \in Client, JoinSteps(c)
      PROVE  hosts'[h].tx \in {hosts[h].tx, None}
  <2>1. ASSUME NEW s \in Sid, JoinEnter(c, s)
        PROVE  hosts'[h].tx = hosts[h].tx
    <3>1. joining[c].host \in Host
      BY <2>1 DEF TypeOK, JoinEnter, JoinLocals, NotJoining
    <3> QED
      BY <2>1, <3>1, EnterKeepsTx DEF JoinEnter
  <2>2. ASSUME NEW pin \in Pin, JoinRotate(c, pin)
        PROVE  hosts'[h].tx = hosts[h].tx
    BY <2>2, PinActionsKeepHosts
  <2>3. CASE JoinRefused(c) \/ \E pin \in Pin, g \in Host : JoinResolve(c, pin, g)
    BY <2>3 DEF JoinRefused, JoinResolve
  <2> QED
    BY <1>3, <2>1, <2>2, <2>3 DEF JoinSteps
<1>4. ASSUME NEW c \in Client, ClientCalls(c)
      PROVE  hosts'[h].tx \in {hosts[h].tx, None}
  <2>1. ASSUME NEW g \in Host, NEW s \in Sid, JoinByHostId(g, c, s)
        PROVE  hosts'[h].tx = hosts[h].tx
    BY <2>1, EnterKeepsTx DEF JoinByHostId
  <2>2. CASE (\E s \in Sid : CloseByClient(s, c)) \/ DisconnectClient(c)
    BY <2>2, EndSessionsKeepsTx DEF CloseByClient, DisconnectClient
  <2> QED
    BY <1>4, <2>1, <2>2 DEF ClientCalls
<1>5. CASE PinUpkeep
  BY <1>5, PinActionsKeepHosts
<1>6. CASE UNCHANGED regVars
  BY <1>6 DEF regVars
<1> QED
  BY <1>1, <1>2, <1>3, <1>4, <1>5, <1>6 DEF OtherCalls

-----------------------------------------------------------------------------
(* What a step other than a registration leaves of the handlers.            *)
HandlersGoOn ==
    /\ OtherCalls
    /\ \/ UNCHANGED phase
       \/ \E x \in Conn : phase' = [phase EXCEPT ![x] = "closed"]
    /\ UNCHANGED regOf
    /\ \/ UNCHANGED cur
       \/ \E x \in HostConn : cur' = [cur EXCEPT ![x] = None]
       \/ \E x \in HostConn, m \in Received :
             cur' = [cur EXCEPT ![x] = m] /\ phase[x] = "serving"

LEMMA GoingOnKeepsInv ==
    ASSUME HandlersInv, HandlersGoOn
    PROVE  HandlersInv'
<1>1. TypeOK'
  BY OtherCallsAreAllowed, TypeStep DEF HandlersInv, HandlersGoOn
<1>2. HandlersType'
  BY DEF HandlersInv, HandlersType, HandlersGoOn
<1>3. ServesItsHost'
  <2> SUFFICES ASSUME NEW x \in HostConn, phase'[x] = "serving" \/ cur'[x] # None
               PROVE  regOf'[x] \in Host
    BY DEF ServesItsHost
  <2>1. phase'[x] = "serving" => phase[x] = "serving"
    BY DEF HandlersInv, HandlersType, HandlersGoOn, Conn
  <2>2. cur'[x] # None => cur[x] # None \/ phase[x] = "serving"
    BY DEF HandlersInv, HandlersType, HandlersGoOn
  <2>3. regOf[x] \in Host
    BY <2>1, <2>2 DEF HandlersInv, ServesItsHost
  <2> QED
    BY <2>3 DEF HandlersGoOn
<1>4. NewHoldsNothing'
  <2> SUFFICES ASSUME NEW x \in HostConn, NEW h \in Host, phase'[x] = "new"
               PROVE  ~IsCurrentHost(h, x)'
    BY DEF NewHoldsNothing
  <2>1. phase[x] = "new"
    BY DEF HandlersInv, HandlersType, HandlersGoOn, Conn
  <2>2. hosts[h].tx # x
    BY <2>1 DEF HandlersInv, NewHoldsNothing, IsCurrentHost
  <2>3. hosts'[h].tx \in {hosts[h].tx, None}
    BY OnlyRegisteringAdds DEF HandlersInv, HandlersGoOn
  <2> QED
    BY <2>2, <2>3, NoneIsNoValue DEF IsCurrentHost
<1> QED
  BY <1>1, <1>2, <1>3, <1>4 DEF HandlersInv

LEMMA RegisteringKeepsInv ==
    ASSUME HandlersInv, NEW x \in HostConn, NEW h \in Host, NEW claimed \in Sid \cup {None},
           NEW pin \in Pin, HostRegisters(x, h, claimed, pin)
    PROVE  [RegNext]_regVars /\ HandlersInv'
<1>1. phase[x] = "new" /\ RegisterHost(h, x, claimed, h \in Rotating, pin)
  BY DEF HostRegisters
<1>2. \A g \in Host : ~IsCurrentHost(g, x)
  BY <1>1 DEF HandlersInv, NewHoldsNothing
<1>3. RegNext
  <2> DEFINE rotates == h \in Rotating
  <2>1. rotates \in BOOLEAN /\ RegisterHost(h, x, claimed, rotates, pin)
    BY <1>1
  <2> HIDE DEF rotates
  <2>2. HostCalls(x)
    BY <1>2, <2>1, Zenon DEF HostCalls
  <2> QED
    BY <2>2, Zenon DEF RegNext
<1>4. TypeOK'
  BY <1>3, TypeStep DEF HandlersInv
<1>5. HandlersType'
  BY DEF HandlersInv, HandlersType, HostRegisters
<1>6. ServesItsHost'
  <2> SUFFICES ASSUME NEW y \in HostConn, phase'[y] = "serving" \/ cur'[y] # None
               PROVE  regOf'[y] \in Host
    BY DEF ServesItsHost
  <2>1. y # x => (phase'[y] = "serving" => phase[y] = "serving") /\ regOf'[y] = regOf[y]
    BY DEF HandlersInv, HandlersType, HostRegisters, Conn
  <2>2. cur' = cur /\ regOf'[x] = h
    BY DEF HandlersInv, HandlersType, HostRegisters
  <2> QED
    BY <2>1, <2>2 DEF HandlersInv, ServesItsHost
<1>7. NewHoldsNothing'
  <2> SUFFICES ASSUME NEW y \in HostConn, NEW g \in Host, phase'[y] = "new"
               PROVE  ~IsCurrentHost(g, y)'
    BY DEF NewHoldsNothing
  <2>1. phase[y] = "new" /\ y # x
    BY DEF HandlersInv, HandlersType, HostRegisters, Conn
  <2>2. hosts[g].tx # y
    BY <2>1 DEF HandlersInv, NewHoldsNothing, IsCurrentHost
  <2>3. hosts'[g].tx \in {hosts[g].tx, x}
    BY <1>1 DEF HandlersInv, TypeOK, RegisterHost
  <2> QED
    BY <2>1, <2>2, <2>3 DEF IsCurrentHost
<1> QED
  BY <1>3, <1>4, <1>5, <1>6, <1>7 DEF HandlersInv

LEMMA HostsGoOn ==
    ASSUME HandlersInv, NEW x \in HostConn, HostStep(x)
    PROVE  \/ \E h \in Host, claimed \in Sid \cup {None}, pin \in Pin :
                 HostRegisters(x, h, claimed, pin)
           \/ HandlersGoOn
<1>1. ASSUME NEW type \in {"Relay", "Bye"}, NEW s \in Sid, HostReceives(x, Msg(type, s, None))
      PROVE  HandlersGoOn
  <2>1. Msg(type, s, None) \in Received
    BY DEF Received
  <2> QED
    BY <1>1, <2>1 DEF HostReceives, HandlersGoOn, OtherCalls, HostReading, Reading
<1>2. CASE HostRelays(x)
  BY <1>2 DEF HostRelays, HandlersGoOn, OtherCalls
<1>3. CASE HostSaysBye(x)
  <2>1. regOf[x] \in Host
    BY <1>3 DEF HostSaysBye, HandlersInv, ServesItsHost
  <2>2. cur[x].sid \in Sid
    BY <1>3 DEF HostSaysBye, HandlersInv, HandlersType, Received, Msg
  <2>3. OtherCalls
    BY <1>3, <2>1, <2>2 DEF HostSaysBye, OtherCalls
  <2> QED
    BY <1>3, <2>3 DEF HostSaysBye, HandlersGoOn
<1>4. CASE HostExits(x)
  <2>1. regOf[x] \in Host
    BY <1>4 DEF HostExits, HostReading, Reading, HandlersInv, ServesItsHost
  <2>2. OtherCalls
    BY <1>4, <2>1 DEF HostExits, OtherCalls
  <2> QED
    BY <1>4, <2>2 DEF HostExits, Closes, HandlersGoOn, Conn
<1> QED
  BY <1>1, <1>2, <1>3, <1>4 DEF HostStep

LEMMA ClientsGoOn ==
    ASSUME NEW c \in Client, ClientStep(c)
    PROVE  HandlersGoOn
<1>1. ASSUME NEW h \in Host, NEW s \in Sid, ClientConnectsDevice(c, h, s)
      PROVE  HandlersGoOn
  BY <1>1 DEF ClientConnectsDevice, HandlersGoOn, OtherCalls, ClientCalls
<1>2. ASSUME NEW pin \in Pin, NEW h \in Host, ClientResolvesPin(c, pin, h)
      PROVE  HandlersGoOn
  BY <1>2 DEF ClientResolvesPin, HandlersGoOn, OtherCalls, JoinSteps
<1>3. ASSUME NEW s \in Sid, ClientEnters(c, s)
      PROVE  HandlersGoOn
  BY <1>3 DEF ClientEnters, HandlersGoOn, OtherCalls, JoinSteps, connVars
<1>4. CASE ClientIsRefused(c)
  BY <1>4 DEF ClientIsRefused, HandlersGoOn, OtherCalls, JoinSteps, connVars
<1>5. ASSUME NEW pin \in Pin, ClientRotates(c, pin)
      PROVE  HandlersGoOn
  BY <1>5 DEF ClientRotates, HandlersGoOn, OtherCalls, JoinSteps, connVars
<1>6. ASSUME NEW s \in Sid, ClientRelays(c, s)
      PROVE  HandlersGoOn
  BY <1>6 DEF ClientRelays, HandlersGoOn, OtherCalls
<1>7. ASSUME NEW s \in Sid, ClientSaysBye(c, s)
      PROVE  HandlersGoOn
  BY <1>7 DEF ClientSaysBye, ClientReading, HandlersGoOn, OtherCalls, ClientCalls
<1>8. CASE ClientExits(c)
  BY <1>8 DEF ClientExits, ClientReading, Closes, HandlersGoOn, OtherCalls, ClientCalls, Conn
<1> QED
  BY <1>1, <1>2, <1>3, <1>4, <1>5, <1>6, <1>7, <1>8 DEF ClientStep

LEMMA RotationGoesOn == RotationStep => HandlersGoOn
<1>1. ASSUME NEW new \in [Expired -> Pin], NEW order, RotatorTicks(new, order)
      PROVE  HandlersGoOn
  BY <1>1 DEF RotatorTicks, HandlersGoOn, OtherCalls, PinUpkeep
<1>2. ASSUME NEW h \in Host, PinAges(h)
      PROVE  HandlersGoOn
  BY <1>2 DEF PinAges, HandlersGoOn, OtherCalls, PinUpkeep, connVars
<1> QED
  BY <1>1, <1>2 DEF RotationStep

LEMMA QueuesGoOn ==
    ASSUME (\E a \in Actor : Sends(a)) \/ (\E x \in Conn : Delivers(x) \/ WriterTimesOut(x))
    PROVE  HandlersGoOn
BY DEF Sends, Delivers, WriterTimesOut, HandlersGoOn, OtherCalls, connVars

LEMMA HandlersStep ==
    ASSUME HandlersInv, [SigNext]_sigVars
    PROVE  [RegNext]_regVars /\ HandlersInv'
<1>1. CASE \E x \in HostConn : HostStep(x)
  BY <1>1, HostsGoOn, RegisteringKeepsInv, GoingOnKeepsInv, OtherCallsAreAllowed DEF HandlersGoOn
<1>2. CASE HandlersGoOn
  BY <1>2, GoingOnKeepsInv, OtherCallsAreAllowed DEF HandlersGoOn
<1>3. CASE UNCHANGED sigVars
  BY <1>3 DEF sigVars, connVars, HandlersInv, regVars, TypeOK, HandlersType, ServesItsHost,
              NewHoldsNothing, IsCurrentHost
<1> QED
  BY <1>1, <1>2, <1>3, ClientsGoOn, RotationGoesOn, QueuesGoOn DEF SigNext

LEMMA HandlersInitially == SigInit => RegInit /\ HandlersInv
<1> SUFFICES ASSUME SigInit
             PROVE  RegInit /\ HandlersInv
  OBVIOUS
<1>1. RegInit /\ TypeOK
  BY TypeInit DEF SigInit
<1>2. HandlersType
  BY DEF SigInit, HandlersType, Conn
<1>3. ServesItsHost
  BY OneRole DEF SigInit, ServesItsHost, Conn
<1>4. NewHoldsNothing
  BY NoneIsNoValue DEF SigInit, RegInit, NewHoldsNothing, IsCurrentHost, NoHost
<1> QED
  BY <1>1, <1>2, <1>3, <1>4 DEF HandlersInv

(* However the connection tasks of ws.rs and the rotation task interleave,  *)
(* with any number of them, the registry sees only the calls RegSpec allows *)
(* -- register_host at most once per connection, a client's calls one after *)
(* another, `join` to its end -- so every theorem of RegistryProofs holds.  *)
THEOREM ServerUsesRegistry == SigSpec => UsesRegistry
<1>1. HandlersInv /\ [SigNext]_sigVars => [RegNext]_regVars /\ HandlersInv'
  BY HandlersStep
<1> QED
  BY HandlersInitially, <1>1, PTL DEF SigSpec, UsesRegistry, RegSpec

(* In the running server, too, every session is backed by the connection    *)
(* that holds its host's registration now, no client is in two sessions and *)
(* the PIN index is exact.                                                  *)
THEOREM ServerKeepsRegistry ==
    SigSpec => [](SessionBacked /\ OneSessionPerClient /\ PinIndexExact) /\ NoGhostBusy
BY ServerUsesRegistry, SessionsBacked, OneSession, PinIndex, GhostFree, PTL DEF UsesRegistry

-----------------------------------------------------------------------------

PinMessage == [type : {"Registered", "PinChanged"}, sid : {None}, pin : Pin]
SidMessage == [type : {"Joined", "PeerJoined", "Relay", "Bye"}, sid : Sid, pin : {None}]
Message == PinMessage \cup SidMessage
Sending == [to : Conn, msg : Message]
Parties == [host : Host, client : Client]

(* Types of what is in flight, and of the history of what was issued.      *)
FlightType ==
    /\ todo \in [Actor -> Seq(Sending)]
    /\ out \in [Conn -> Seq(Message)]
    /\ gate \in [Conn -> {"open", "killed", "dead"}]
    /\ link \in [HostConn -> {"none", "handshake", "up", "gone"}]
    /\ known \in [Conn -> SUBSET Sid]
    /\ pins \in [HostConn -> Seq(Pin)]
    /\ issued \in [Sid -> Parties \cup {NotIssued}]

(* A message that may be sent to x: of a session of x, if it names one.     *)
Fits(x, m) ==
    /\ x \in HostConn => regOf[x] # None
    /\ m.sid # None =>
         /\ issued[m.sid] # NotIssued
         /\ x \in Client => issued[m.sid].client = x
         /\ x \in HostConn => issued[m.sid].host = regOf[x]

(* A session's parties, before and after its client has entered it, are     *)
(* those its id was issued for.                                             *)
SessionsIssued ==
    /\ \A s \in Sid : Live(s) =>
          issued[s] = [host |-> sessions[s].host, client |-> sessions[s].client]
    /\ \A c \in Client : joining[c].step = "entered" =>
          /\ issued[joining[c].sid] = [host |-> joining[c].host, client |-> c]
          /\ regOf[joining[c].tx] = joining[c].host

(* The registry's entries name the connections that made them.              *)
Registrations ==
    /\ \A h \in Host, x \in HostConn : IsCurrentHost(h, x) => regOf[x] = h
    /\ \A x \in HostConn : (phase[x] = "new" <=> regOf[x] = None) /\ (link[x] = "none" <=> regOf[x] = None)

TodoFits == \A a \in Actor : \A i \in DOMAIN todo[a] : Fits(todo[a][i].to, todo[a][i].msg)
OutFits == \A x \in Conn : \A i \in DOMAIN out[x] : Fits(x, out[x][i])

PartiesInv == FlightType /\ SessionsIssued /\ Registrations /\ TodoFits /\ OutFits

-----------------------------------------------------------------------------
(* c has been told of s or will be by its queue, or nothing more reaches c. *)
Heard(c, s) ==
    \/ gate[c] # "open" \/ s \in known[c]
    \/ \E i \in DOMAIN out[c] : out[c][i].type = "Joined" /\ out[c][i].sid = s

HeardOf(x, s) ==
    \/ gate[x] # "open" \/ link[x] = "gone" \/ s \in known[x]
    \/ \E i \in DOMAIN out[x] : out[x][i].type = "PeerJoined" /\ out[x][i].sid = s

(* A handler that is in the middle of something has nothing left to send.   *)
OneThing ==
    /\ \A c \in Client : joining[c] # NotJoining => todo[c] = <<>>
    /\ \A x \in HostConn : cur[x] # None \/ phase[x] = "new" => todo[x] = <<>>

(* What an agent knows of, or is about to hear of, its client has heard.    *)
HostsHearLater ==
    /\ \A x \in HostConn : \A s \in known[x] :
          issued[s] # NotIssued /\ issued[s].host = regOf[x] /\ Heard(issued[s].client, s)
    /\ \A x \in HostConn : cur[x] # None =>
          issued[cur[x].sid] # NotIssued /\ Heard(issued[cur[x].sid].client, cur[x].sid)
    /\ \A x \in HostConn : \A i \in DOMAIN out[x] : out[x][i].type = "PeerJoined" =>
          Heard(issued[out[x][i].sid].client, out[x][i].sid)
    /\ \A a \in Actor : \A i \in DOMAIN todo[a] : todo[a][i].msg.type = "PeerJoined" =>
          LET s == todo[a][i].msg.sid IN
            \/ Heard(issued[s].client, s)
            \/ a = issued[s].client /\ i = 2 /\ todo[a][1] = Send(a, Msg("Joined", s, None))

(* The agent of s has been told of it, or s's client goes on to tell it.    *)
Announced(s) ==
    LET c == sessions[s].client
        x == sessions[s].hostTx
    IN \/ HeardOf(x, s)
       \/ joining[c].step = "entered" /\ joining[c].sid = s /\ joining[c].tx = x
       \/ \E i \in DOMAIN todo[c] : todo[c][i] = Send(x, Msg("PeerJoined", s, None))

HeardBy(x, s) == IF x \in Client THEN Heard(x, s) ELSE HeardOf(x, s)

(* What a handler is to forward, its addressee knows the session of.        *)
TodoHeard ==
    \A a \in Actor : \A i \in DOMAIN todo[a] :
        todo[a][i].msg.type \in {"Relay", "Bye"} => HeardBy(todo[a][i].to, todo[a][i].msg.sid)

OrderInv ==
    /\ OneThing /\ HostsHearLater /\ TodoHeard /\ AnnouncedFirst
    /\ \A s \in Sid : Live(s) => Announced(s)

-----------------------------------------------------------------------------
(* x has not yet been told that it is registered.                           *)
Expects(x) == link[x] \in {"handshake", "gone"}

(* Registered is sent once, by the handler that registered, to an agent     *)
(* that still waits for it.                                                 *)
RegisteredOnce ==
    /\ \A a \in Actor : \A i \in DOMAIN todo[a] : todo[a][i].msg.type = "Registered" =>
          /\ a \in HostConn /\ todo[a][i].to = a /\ Expects(a) /\ Len(todo[a]) = 1
          /\ \A j \in DOMAIN out[a] : out[a][j].type # "Registered"
    /\ \A x \in Conn : \A i \in DOMAIN out[x] : out[x][i].type = "Registered" =>
          /\ x \in HostConn /\ Expects(x)
          /\ \A j \in DOMAIN out[x] : out[x][j].type = "Registered" => j = i
-----------------------------------------------------------------------------
LEMMA PeerOfHost ==
    ASSUME TypeOK, NEW h \in Host \cup {None}, NEW s \in Sid, PeerTxForHost(h, s) # None
    PROVE  /\ Live(s) /\ sessions[s] \in SessionEntry
           /\ sessions[s].host = h /\ PeerTxForHost(h, s) = sessions[s].client
<1>1. Owns(h, s) /\ PeerTxForHost(h, s) = sessions[s].client
  BY DEF PeerTxForHost
<1>2. sessions[s] \in SessionEntry
  BY <1>1, Entries DEF TypeOK, PeerTxForHost, NoSession
<1> QED
  BY <1>1, <1>2, NoneIsNoValue DEF Owns, Live, SessionEntry

LEMMA PeerOfClient ==
    ASSUME TypeOK, NEW c \in Client, NEW s \in Sid, PeerTxForClient(s, c) # None
    PROVE  /\ Live(s) /\ sessions[s] \in SessionEntry
           /\ sessions[s].client = c /\ PeerTxForClient(s, c) = sessions[s].hostTx
<1>1. sessions[s].client = c /\ PeerTxForClient(s, c) = sessions[s].hostTx
  BY DEF PeerTxForClient
<1>2. sessions[s] \in SessionEntry
  BY <1>1, NoneIsNoValue DEF TypeOK, NoSession
<1> QED
  BY <1>1, <1>2, NoneIsNoValue DEF Live, SessionEntry

LEMMA JoiningTypes ==
    ASSUME TypeOK, NEW c \in Client
    PROVE  /\ joining[c].step = "resolved" => joining[c].host \in Host
           /\ joining[c].step = "entered" =>
                 /\ joining[c].host \in Host /\ joining[c].tx \in HostConn /\ joining[c].sid \in Sid
           /\ joining[c] # NotJoining => joining[c].step \in {"resolved", "entered"}
BY DEF TypeOK, JoinLocals, NotJoining

(* The sends that a handler begins with one action.                         *)
Begins(a, sends) ==
    /\ todo' = [todo EXCEPT ![a] = sends]
    /\ UNCHANGED <<out, gate, agentVars>>

LEMMA ForwardTyped ==
    ASSUME NEW x \in Conn, NEW peer \in Conn \cup {None}, NEW m \in Message, FlightType,
           Forward(x, peer, m)
    PROVE  todo' \in [Actor -> Seq(Sending)]
<1>1. Send(peer, m) \in Sending \/ peer = None
  BY DEF Send, Sending
<1> QED
  BY <1>1 DEF Forward, Todo, FlightType, Actor

LEMMA AnnounceTyped ==
    ASSUME NEW c \in Client, NEW s \in Sid, NEW x \in HostConn, NEW pin \in Pin \cup {None}, FlightType,
           Announce(c, s, x, pin)
    PROVE  todo' \in [Actor -> Seq(Sending)]
<1>1. /\ Send(c, Msg("Joined", s, None)) \in Sending
      /\ Send(x, Msg("PeerJoined", s, None)) \in Sending
      /\ pin # None => Send(x, Msg("PinChanged", None, pin)) \in Sending
  BY DEF Conn, Msg, Message, PinMessage, SidMessage, Send, Sending
<1> QED
  BY <1>1 DEF Announce, Todo, FlightType, Actor, Conn

LEMMA IssueTyped ==
    ASSUME NEW c \in Client, NEW s \in Sid, NEW h \in Host, FlightType, Issue(c, s, h)
    PROVE  issued' \in [Sid -> Parties \cup {NotIssued}]
BY DEF Issue, FlightType, Parties

LEMMA TypedHosts ==
    ASSUME HandlersInv, FlightType, NEW x \in HostConn, HostStep(x)
    PROVE  FlightType'
<1>1. ASSUME NEW h \in Host, NEW claimed \in Sid \cup {None}, NEW pin \in Pin,
             HostRegisters(x, h, claimed, pin)
      PROVE  FlightType'
  <2>1. Send(x, Msg("Registered", None, pin)) \in Sending
    BY DEF Conn, Msg, Message, PinMessage, SidMessage, Send, Sending
  <2>2. todo' \in [Actor -> Seq(Sending)]
    BY <1>1, <2>1 DEF HostRegisters, Todo, FlightType, Actor, Conn
  <2>3. known' \in [Conn -> SUBSET Sid]
    BY <1>1 DEF HostRegisters, FlightType
  <2>4. link' \in [HostConn -> {"none", "handshake", "up", "gone"}]
    BY <1>1 DEF HostRegisters, FlightType
  <2> QED
    BY <1>1, <2>2, <2>3, <2>4 DEF HostRegisters, FlightType
<1>2. ASSUME NEW m, HostReceives(x, m)
      PROVE  FlightType'
  BY <1>2 DEF HostReceives, FlightType, agentVars
<1>3. ASSUME cur[x] # None, Forward(x, PeerTxForHost(regOf[x], cur[x].sid), cur[x]),
             UNCHANGED <<out, gate, agentVars, issued>>
      PROVE  FlightType'
  <2>1. cur[x] \in Message /\ cur[x].sid \in Sid
    BY <1>3 DEF HandlersInv, HandlersType, Received, Msg, Message, PinMessage, SidMessage
  <2>2. PeerTxForHost(regOf[x], cur[x].sid) \in Conn \cup {None}
    <3>1. regOf[x] \in Host
      BY <1>3 DEF HandlersInv, ServesItsHost
    <3> QED
      BY <2>1, <3>1, PeerOfHost DEF HandlersInv, SessionEntry, Conn
  <2>3. todo' \in [Actor -> Seq(Sending)]
    BY <1>3, <2>1, <2>2, ForwardTyped DEF Conn
  <2> QED
    BY <1>3, <2>3 DEF FlightType, agentVars
<1>4. CASE HostExits(x)
  BY <1>4 DEF HostExits, Closes, FlightType, agentVars, Conn
<1> QED
  BY <1>1, <1>2, <1>3, <1>4 DEF HostStep, HostRelays, HostSaysBye

LEMMA TypedClients ==
    ASSUME HandlersInv, FlightType, NEW c \in Client, ClientStep(c)
    PROVE  FlightType'
<1>1. ASSUME NEW h \in Host, NEW s \in Sid, ClientConnectsDevice(c, h, s)
      PROVE  FlightType'
  <2>1. hosts[h].tx \in HostConn
    BY <1>1, Entries DEF ClientConnectsDevice, JoinByHostId, Enter, CanEnter, Online, HandlersInv, TypeOK, HostEntry, NoHost
  <2>2. todo' \in [Actor -> Seq(Sending)]
    BY <1>1, <2>1, AnnounceTyped DEF ClientConnectsDevice
  <2> QED
    BY <1>1, <2>2, IssueTyped DEF ClientConnectsDevice, FlightType, agentVars
<1>2. ASSUME NEW pin \in Pin, NEW h \in Host, ClientResolvesPin(c, pin, h)
      PROVE  FlightType'
  BY <1>2 DEF ClientResolvesPin, FlightType, agentVars
<1>3. ASSUME NEW s \in Sid, ClientEnters(c, s)
      PROVE  FlightType'
  <2>1. joining[c].host \in Host
    BY <1>3, JoiningTypes DEF ClientEnters, JoinEnter, HandlersInv
  <2> QED
    BY <1>3, <2>1, IssueTyped DEF ClientEnters, FlightType, agentVars
<1>4. CASE ClientIsRefused(c)
  BY <1>4 DEF ClientIsRefused, FlightType, agentVars
<1>5. ASSUME NEW pin \in Pin, ClientRotates(c, pin)
      PROVE  FlightType'
  <2>1. joining[c].tx \in HostConn /\ joining[c].sid \in Sid
    BY <1>5, JoiningTypes DEF ClientRotates, JoinRotate, HandlersInv
  <2>2. (IF RotatesOnJoin(c) THEN pin ELSE None) \in Pin \cup {None}
    OBVIOUS
  <2>3. todo' \in [Actor -> Seq(Sending)]
    BY <1>5, <2>1, <2>2, AnnounceTyped DEF ClientRotates
  <2> QED
    BY <1>5, <2>3 DEF ClientRotates, FlightType, agentVars
<1>6. ASSUME NEW s \in Sid, ClientRelays(c, s)
      PROVE  FlightType'
  <2>1. PeerTxForClient(s, c) \in Conn \cup {None}
    BY PeerOfClient DEF HandlersInv, SessionEntry, Conn
  <2>2. Msg("Relay", s, None) \in Message
    BY DEF Msg, Message, PinMessage, SidMessage
  <2>3. todo' \in [Actor -> Seq(Sending)]
    BY <1>6, <2>1, <2>2, ForwardTyped DEF ClientRelays, Conn
  <2> QED
    BY <1>6, <2>3 DEF ClientRelays, FlightType, agentVars
<1>7. ASSUME NEW s \in Sid, ClientSaysBye(c, s)
      PROVE  FlightType'
  <2>1. sessions[s].hostTx \in HostConn
    BY <1>7, NoneIsNoValue DEF ClientSaysBye, CloseByClient, HandlersInv, TypeOK, SessionEntry, NoSession
  <2>2. Send(sessions[s].hostTx, Msg("Bye", s, None)) \in Sending
    BY <2>1 DEF Conn, Msg, Message, PinMessage, SidMessage, Send, Sending
  <2>3. todo' \in [Actor -> Seq(Sending)]
    BY <1>7, <2>2 DEF ClientSaysBye, Todo, FlightType, Actor, Conn
  <2> QED
    BY <1>7, <2>3 DEF ClientSaysBye, FlightType, agentVars
<1>8. CASE ClientExits(c)
  BY <1>8 DEF ClientExits, Closes, FlightType, Conn
<1> QED
  BY <1>1, <1>2, <1>3, <1>4, <1>5, <1>6, <1>7, <1>8 DEF ClientStep

(* What the rotation task has to send.                                     *)
PinSends(new, order) ==
    [i \in DOMAIN order |-> Send(hosts[order[i]].tx, Msg("PinChanged", None, new[order[i]]))]

LEMMA PinSendsTyped ==
    ASSUME TypeOK, NEW new \in [Expired -> Pin], NEW order \in Bijection(1 .. Cardinality(Expired), Expired)
    PROVE  PinSends(new, order) \in Seq(Sending)
<1>1. Expired \in SUBSET Host /\ IsFiniteSet(Expired)
  BY FiniteHosts, FS_Subset DEF Expired
<1>2. Cardinality(Expired) \in Nat
  BY <1>1, FS_CardinalityType
<1>3. order \in [1 .. Cardinality(Expired) -> Expired]
  BY DEF Bijection, Injection
<1>4. ASSUME NEW i \in DOMAIN order
      PROVE  PinSends(new, order)[i] \in Sending
  <2>1. order[i] \in Expired
    BY <1>3
  <2>2. hosts[order[i]].tx \in HostConn
    BY <2>1, ExpiredEntries DEF HostEntry
  <2> QED
    BY <2>1, <2>2, NoneIsNoValue DEF PinSends, Conn, Msg, Message, PinMessage, SidMessage, Send, Sending
<1> DEFINE n == Cardinality(Expired)
<1>5. n \in Nat /\ PinSends(new, order) \in [1 .. n -> Sending]
  BY <1>2, <1>3, <1>4 DEF PinSends
<1> HIDE DEF n
<1> QED
  BY <1>5

LEMMA TypedRotation ==
    ASSUME HandlersInv, FlightType, RotationStep
    PROVE  FlightType'
<1>1. ASSUME NEW new \in [Expired -> Pin], NEW order \in Bijection(1 .. Cardinality(Expired), Expired),
             RotatorTicks(new, order)
      PROVE  FlightType'
  <2>1. todo' = [todo EXCEPT ![Rotator] = PinSends(new, order)]
    BY <1>1 DEF RotatorTicks, Todo, PinSends
  <2>2. PinSends(new, order) \in Seq(Sending)
    BY PinSendsTyped DEF HandlersInv
  <2>3. todo' \in [Actor -> Seq(Sending)]
    BY <2>1, <2>2 DEF FlightType
  <2> QED
    BY <1>1, <2>3 DEF RotatorTicks, FlightType, agentVars
<1>2. ASSUME NEW h \in Host, PinAges(h)
      PROVE  FlightType'
  BY <1>2 DEF PinAges, FlightType, agentVars
<1> QED
  BY <1>1, <1>2 DEF RotationStep

LEMMA SendsOne ==
    ASSUME FlightType, NEW a \in Actor, Sends(a)
    PROVE  \E to \in Conn, m \in Message :
              /\ todo[a] \in Seq(Sending) /\ todo[a] # <<>>
              /\ todo[a][1] = Send(to, m)
              /\ todo' = [todo EXCEPT ![a] = Tail(todo[a])]
              /\ \/ out' = [out EXCEPT ![to] = Append(out[to], m)] /\ gate' = gate
                 \/ out' = out /\ gate[to] # "dead" /\ gate' = [gate EXCEPT ![to] = "killed"]
                 \/ out' = out /\ gate[to] = "dead" /\ gate' = gate
<1>1. todo[a] \in Seq(Sending) /\ todo[a] # <<>>
  BY DEF Sends, FlightType
<1>2. Head(todo[a]) \in Sending /\ Head(todo[a]) = todo[a][1]
  BY <1>1
<1> DEFINE to == Head(todo[a]).to
           m == Head(todo[a]).msg
<1>3. to \in Conn /\ m \in Message /\ todo[a][1] = Send(to, m)
  BY <1>2 DEF Sending, Send
<1>4. \/ out' = [out EXCEPT ![to] = Append(out[to], m)] /\ gate' = gate
      \/ out' = out /\ gate[to] # "dead" /\ gate' = [gate EXCEPT ![to] = "killed"]
      \/ out' = out /\ gate[to] = "dead" /\ gate' = gate
  BY Zenon DEF Sends
<1>5. todo' = [todo EXCEPT ![a] = Tail(todo[a])]
  BY DEF Sends, Todo
<1> HIDE DEF to, m
<1> QED
  BY <1>1, <1>3, <1>4, <1>5

LEMMA DeliversOne ==
    ASSUME FlightType, NEW x \in Conn, Delivers(x)
    PROVE  \E m \in Message :
              /\ out[x] \in Seq(Message) /\ out[x] # <<>> /\ out[x][1] = m
              /\ out' = [out EXCEPT ![x] = Tail(out[x])]
              /\ \/ x \in HostConn /\ AgentReads(x, m)
                 \/ /\ x \in Client
                    /\ known' = IF m.type = "Joined" THEN [known EXCEPT ![x] = @ \cup {m.sid}] ELSE known
                    /\ UNCHANGED <<link, pins>>
<1>1. out[x] \in Seq(Message) /\ out[x] # <<>>
  BY DEF Delivers, FlightType
<1> DEFINE m == Head(out[x])
<1>2. m \in Message /\ out[x][1] = m
  BY <1>1
<1>3. \/ x \in HostConn /\ AgentReads(x, m)
      \/ /\ x \in Client
         /\ known' = IF m.type = "Joined" THEN [known EXCEPT ![x] = @ \cup {m.sid}] ELSE known
         /\ UNCHANGED <<link, pins>>
  BY Zenon DEF Delivers
<1>4. out' = [out EXCEPT ![x] = Tail(out[x])]
  BY DEF Delivers
<1> HIDE DEF m
<1> QED
  BY <1>1, <1>2, <1>3, <1>4

LEMMA TypedQueues ==
    ASSUME FlightType, (\E a \in Actor : Sends(a)) \/ (\E x \in Conn : Delivers(x) \/ WriterTimesOut(x))
    PROVE  FlightType'
<1>1. ASSUME NEW a \in Actor, Sends(a)
      PROVE  FlightType'
  <2>1. PICK to \in Conn, m \in Message :
              /\ todo' = [todo EXCEPT ![a] = Tail(todo[a])]
              /\ todo[a] \in Seq(Sending) /\ todo[a] # <<>>
              /\ \/ out' = [out EXCEPT ![to] = Append(out[to], m)] /\ gate' = gate
                 \/ out' = out /\ gate' = [gate EXCEPT ![to] = "killed"]
                 \/ out' = out /\ gate' = gate
    BY <1>1, SendsOne
  <2>2. Tail(todo[a]) \in Seq(Sending)
    BY <2>1
  <2>3. todo' \in [Actor -> Seq(Sending)]
    BY <2>1, <2>2 DEF FlightType
  <2>4. Append(out[to], m) \in Seq(Message)
    BY DEF FlightType
  <2>5. out' \in [Conn -> Seq(Message)] /\ gate' \in [Conn -> {"open", "killed", "dead"}]
    BY <2>1, <2>4 DEF FlightType
  <2> QED
    BY <1>1, <2>3, <2>5 DEF Sends, FlightType, agentVars
<1>2. ASSUME NEW x \in Conn, Delivers(x)
      PROVE  FlightType'
  <2>1. PICK m \in Message :
              /\ out[x] \in Seq(Message) /\ out[x] # <<>>
              /\ out' = [out EXCEPT ![x] = Tail(out[x])]
              /\ \/ x \in HostConn /\ AgentReads(x, m)
                 \/ /\ x \in Client
                    /\ known' = IF m.type = "Joined" THEN [known EXCEPT ![x] = @ \cup {m.sid}] ELSE known
                    /\ UNCHANGED <<link, pins>>
    BY <1>2, DeliversOne
  <2>2. Tail(out[x]) \in Seq(Message)
    BY <2>1
  <2>3. out' \in [Conn -> Seq(Message)]
    BY <2>1, <2>2 DEF FlightType
  <2>4. /\ m.type \in {"Registered", "PinChanged"} => m.pin \in Pin
        /\ m.type \in {"Joined", "PeerJoined"} => m.sid \in Sid
    BY DEF Message, PinMessage, SidMessage
  <2>5. known' \in [Conn -> SUBSET Sid]
    <3>1. CASE x \in Client
      <4>1. CASE m.type = "Joined"
        BY <2>1, <2>4, <3>1, <4>1, OneRole DEF FlightType
      <4> QED
        BY <2>1, <3>1, <4>1, OneRole DEF FlightType
    <3>2. CASE x \in HostConn
      <4>1. AgentReads(x, m)
        BY <2>1, <3>2, OneRole
      <4>2. CASE link[x] = "up" /\ m.type = "PeerJoined"
        <5>1. known' = [known EXCEPT ![x] = known[x] \cup {m.sid}]
          BY <4>1, <4>2 DEF AgentReads
        <5> QED
          BY <2>4, <4>2, <5>1 DEF FlightType
      <4>3. CASE ~(link[x] = "up" /\ m.type = "PeerJoined")
        <5>1. known' = [known EXCEPT ![x] = {}] \/ known' = [known EXCEPT ![x] = known[x]]
          BY <4>1, <4>3 DEF AgentReads
        <5> QED
          BY <5>1 DEF FlightType
      <4> QED
        BY <4>2, <4>3
    <3> QED
      BY <3>1, <3>2 DEF Conn
  <2>6. link' \in [HostConn -> {"none", "handshake", "up", "gone"}]
    BY <2>1 DEF AgentReads, FlightType
  <2>7. pins' \in [HostConn -> Seq(Pin)]
    <3>1. CASE x \in HostConn /\ m.pin \in Pin
      <4>1. Append(pins[x], m.pin) \in Seq(Pin)
        BY <3>1 DEF FlightType
      <4> QED
        BY <2>1, <4>1 DEF AgentReads, FlightType
    <3> QED
      BY <2>1, <2>4, <3>1 DEF AgentReads, FlightType
  <2> QED
    BY <1>2, <2>3, <2>5, <2>6, <2>7 DEF Delivers, FlightType
<1>3. ASSUME NEW x \in Conn, WriterTimesOut(x)
      PROVE  FlightType'
  BY <1>3 DEF WriterTimesOut, FlightType, agentVars
<1> QED
  BY <1>1, <1>2, <1>3

LEMMA TypedStep ==
    ASSUME HandlersInv, FlightType, [SigNext]_sigVars
    PROVE  FlightType'
<1>1. CASE UNCHANGED sigVars
  BY <1>1 DEF sigVars, agentVars, FlightType
<1> QED
  BY <1>1, TypedHosts, TypedClients, TypedRotation, TypedQueues DEF SigNext

-----------------------------------------------------------------------------
(* What no step takes back: what an id was issued for, and which device a   *)
(* connection registered.                                                   *)
Lasting ==
    /\ \A s \in Sid : issued[s] # NotIssued => issued'[s] = issued[s]
    /\ \A x \in HostConn : regOf[x] # None => regOf'[x] = regOf[x]

LEMMA HostsLast ==
    ASSUME HandlersInv, FlightType, Registrations, NEW x \in HostConn, HostStep(x)
    PROVE  issued' = issued /\ Lasting
<1>1. ASSUME NEW h \in Host, NEW claimed \in Sid \cup {None}, NEW pin \in Pin,
             HostRegisters(x, h, claimed, pin)
      PROVE  issued' = issued /\ Lasting
  <2>1. regOf[x] = None
    BY <1>1 DEF HostRegisters, Registrations
  <2> QED
    BY <1>1, <2>1 DEF HostRegisters, Lasting, HandlersInv, HandlersType
<1>2. issued' = issued
  BY DEF HostStep, HostRegisters, HostReceives, HostRelays, HostSaysBye, HostExits
<1>3. CASE regOf' = regOf
  BY <1>2, <1>3 DEF Lasting
<1> QED
  BY <1>1, <1>2, <1>3, HostsGoOn DEF HandlersGoOn

LEMMA IssuesLast ==
    ASSUME FlightType, NEW c \in Client, NEW s \in Sid, NEW h \in Host, Issue(c, s, h), regOf' = regOf
    PROVE  Lasting /\ issued'[s] = [host |-> h, client |-> c]
BY DEF Issue, Lasting, FlightType

LEMMA ClientsLast ==
    ASSUME HandlersInv, FlightType, NEW c \in Client, ClientStep(c)
    PROVE  Lasting
<1>1. regOf' = regOf
  BY ClientsGoOn DEF HandlersGoOn
<1>2. ASSUME NEW h \in Host, NEW s \in Sid, ClientConnectsDevice(c, h, s)
      PROVE  Lasting
  BY <1>1, <1>2, IssuesLast DEF ClientConnectsDevice
<1>3. ASSUME NEW s \in Sid, ClientEnters(c, s)
      PROVE  Lasting
  <2>1. joining[c].host \in Host
    BY <1>3, JoiningTypes DEF ClientEnters, JoinEnter, HandlersInv
  <2> QED
    BY <1>1, <1>3, <2>1, IssuesLast DEF ClientEnters
<1>4. CASE issued' = issued
  BY <1>1, <1>4 DEF Lasting
<1>5. \/ issued' = issued
      \/ \E h \in Host, s \in Sid : ClientConnectsDevice(c, h, s)
      \/ \E s \in Sid : ClientEnters(c, s)
  BY DEF ClientStep, ClientResolvesPin, ClientIsRefused, ClientRotates, ClientRelays, ClientSaysBye, ClientExits
<1> QED
  BY <1>2, <1>3, <1>4, <1>5

LEMMA LastingStep ==
    ASSUME HandlersInv, FlightType, Registrations, [SigNext]_sigVars
    PROVE  Lasting
<1>1. CASE UNCHANGED sigVars
  BY <1>1 DEF sigVars, connVars, Lasting
<1>2. CASE RotationStep
  BY <1>2 DEF RotationStep, RotatorTicks, PinAges, connVars, Lasting
<1>3. CASE (\E a \in Actor : Sends(a)) \/ (\E x \in Conn : Delivers(x) \/ WriterTimesOut(x))
  BY <1>3 DEF Sends, Delivers, WriterTimesOut, connVars, Lasting
<1> QED
  BY <1>1, <1>2, <1>3, HostsLast, ClientsLast DEF SigNext

(* Fits in the next state, of a message of this one.                        *)
FitsNext(x, m) ==
    /\ x \in HostConn => regOf'[x] # None
    /\ m.sid # None =>
         /\ issued'[m.sid] # NotIssued
         /\ x \in Client => issued'[m.sid].client = x
         /\ x \in HostConn => issued'[m.sid].host = regOf'[x]

LEMMA FitsLasts ==
    ASSUME Lasting, NEW x \in Conn, NEW m \in Message, Fits(x, m)
    PROVE  FitsNext(x, m)
<1>1. m.sid # None => m.sid \in Sid
  BY DEF Message, PinMessage, SidMessage
<1> QED
  BY <1>1 DEF Fits, FitsNext, Lasting

-----------------------------------------------------------------------------
LEMMA IssuedSessions ==
    ASSUME HandlersInv, FlightType, SessionsIssued, Registrations,
           NEW c \in Client, NEW s \in Sid, NEW h \in Host, Enter(h, c, s), Issue(c, s, h)
    PROVE  /\ \A t \in Sid : Live(t)' => issued'[t] = [host |-> sessions'[t].host, client |-> sessions'[t].client]
           /\ hosts[h].tx \in HostConn /\ regOf[hosts[h].tx] = h
<1>1. /\ sessions' = [sessions EXCEPT ![s] = [host |-> h, hostTx |-> hosts[h].tx, client |-> c]]
      /\ issued' = [issued EXCEPT ![s] = [host |-> h, client |-> c]]
  BY DEF Enter, Issue
<1>2. hosts[h].tx \in HostConn
  BY Entries DEF Enter, CanEnter, Online, HandlersInv, TypeOK, HostEntry, NoHost
<1>3. regOf[hosts[h].tx] = h
  BY <1>2 DEF Registrations, IsCurrentHost
<1> QED
  BY <1>1, <1>2, <1>3 DEF SessionsIssued, Live, HandlersInv, TypeOK, FlightType

(* The calls that end sessions or re-attach one keep who is in them.        *)
KeepsParties ==
    \A s \in Sid : Live(s)' => /\ Live(s)
                               /\ sessions'[s].host = sessions[s].host
                               /\ sessions'[s].client = sessions[s].client

LEMMA WithoutKeeps ==
    ASSUME TypeOK, NEW S, sessions' = Without(S)
    PROVE  KeepsParties
BY DEF Without, KeepsParties, Live, NoSession

LEMMA HostsKeepParties ==
    ASSUME HandlersInv, NEW x \in HostConn, HostStep(x)
    PROVE  KeepsParties
<1>1. ASSUME NEW h \in Host, NEW claimed \in Sid \cup {None}, NEW pin \in Pin,
             HostRegisters(x, h, claimed, pin)
      PROVE  KeepsParties
  <2>1. CASE Owns(h, claimed)
    <3>1. sessions' = [sessions EXCEPT ![claimed].hostTx = x] /\ claimed \in Sid /\ sessions[claimed] \in SessionEntry
      BY <1>1, <2>1, Entries, NoneIsNoValue DEF HostRegisters, RegisterHost, Owns, HandlersInv, TypeOK, NoSession
    <3> QED
      BY <3>1 DEF KeepsParties, Live, HandlersInv, TypeOK, SessionEntry
  <2>2. CASE ~Owns(h, claimed)
    <3>1. \E S : sessions' = Without(S)
      BY <1>1, <2>2 DEF HostRegisters, RegisterHost
    <3> QED
      BY <3>1, WithoutKeeps DEF HandlersInv
  <2> QED
    BY <2>1, <2>2
<1>2. CASE sessions' = sessions
  BY <1>2 DEF KeepsParties, Live
<1>3. CASE HostSaysBye(x) \/ HostExits(x)
  <2>1. sessions' = sessions \/ \E S : sessions' = Without(S)
    BY <1>3 DEF HostSaysBye, HostExits, CloseByHost, UnregisterHost, regVars
  <2> QED
    BY <1>2, <2>1, WithoutKeeps DEF HandlersInv
<1> QED
  BY <1>1, <1>2, <1>3 DEF HostStep, HostReceives, HostRelays, regVars

LEMMA OthersKeepParties ==
    ASSUME HandlersInv, \/ RotationStep \/ \E a \in Actor : Sends(a)
                        \/ \E x \in Conn : Delivers(x) \/ WriterTimesOut(x)
                        \/ UNCHANGED sigVars
    PROVE  KeepsParties /\ joining' = joining /\ regOf' = regOf
<1>1. sessions' = sessions /\ joining' = joining /\ regOf' = regOf
  BY DEF RotationStep, RotatorTicks, RotateExpiredPins, PinAges, PinExpires, connVars, regVars,
         Sends, Delivers, WriterTimesOut, sigVars
<1> QED
  BY <1>1 DEF KeepsParties, Live

LEMMA PartiesLast ==
    ASSUME HandlersInv, FlightType, SessionsIssued, Lasting, KeepsParties,
           \A c \in Client : joining'[c] = joining[c] \/ joining'[c].step # "entered"
    PROVE  SessionsIssued'
<1>1. ASSUME NEW s \in Sid, Live(s)'
      PROVE  issued'[s] = [host |-> sessions'[s].host, client |-> sessions'[s].client]
  <2>1. Live(s) /\ sessions'[s].host = sessions[s].host /\ sessions'[s].client = sessions[s].client
    BY <1>1 DEF KeepsParties
  <2>2. issued[s] = [host |-> sessions[s].host, client |-> sessions[s].client]
    BY <2>1 DEF SessionsIssued
  <2>3. issued[s] # NotIssued
    BY <2>1, <2>2 DEF Live, NotIssued
  <2> QED
    BY <2>1, <2>2, <2>3 DEF Lasting
<1>2. ASSUME NEW c \in Client, joining'[c].step = "entered"
      PROVE  /\ issued'[joining'[c].sid] = [host |-> joining'[c].host, client |-> c]
             /\ regOf'[joining'[c].tx] = joining'[c].host
  <2>1. joining'[c] = joining[c]
    BY <1>2
  <2>2. joining[c].host \in Host /\ joining[c].tx \in HostConn /\ joining[c].sid \in Sid
    BY <1>2, <2>1, JoiningTypes DEF HandlersInv
  <2>3. /\ issued[joining[c].sid] = [host |-> joining[c].host, client |-> c]
        /\ regOf[joining[c].tx] = joining[c].host
    BY <1>2, <2>1 DEF SessionsIssued
  <2>4. issued[joining[c].sid] # NotIssued /\ regOf[joining[c].tx] # None
    BY <2>2, <2>3, NoneIsNoValue DEF NotIssued
  <2> QED
    BY <2>1, <2>2, <2>3, <2>4 DEF Lasting
<1> QED
  BY <1>1, <1>2 DEF SessionsIssued

LEMMA SessionsIssuedClients ==
    ASSUME HandlersInv, FlightType, SessionsIssued, Registrations, Lasting, NEW c \in Client, ClientStep(c)
    PROVE  SessionsIssued'
<1>1. ASSUME NEW h \in Host, NEW s \in Sid, ClientConnectsDevice(c, h, s)
      PROVE  SessionsIssued'
  <2>1. Enter(h, c, s) /\ Issue(c, s, h) /\ joining' = joining /\ regOf' = regOf
    BY <1>1 DEF ClientConnectsDevice, JoinByHostId
  <2>2. \A t \in Sid : Live(t)' => issued'[t] = [host |-> sessions'[t].host, client |-> sessions'[t].client]
    BY <2>1, IssuedSessions
  <2>3. ASSUME NEW d \in Client, joining[d].step = "entered"
        PROVE  issued'[joining[d].sid] = [host |-> joining[d].host, client |-> d]
    <3>1. joining[d].sid \in Sid /\ joining[d].host \in Host
      BY <2>3, JoiningTypes DEF HandlersInv
    <3>2. issued[joining[d].sid] = [host |-> joining[d].host, client |-> d]
      BY <2>3 DEF SessionsIssued
    <3> QED
      BY <3>1, <3>2, NoneIsNoValue DEF Lasting, NotIssued
  <2> QED
    BY <2>1, <2>2, <2>3 DEF SessionsIssued
<1>2. ASSUME NEW s \in Sid, ClientEnters(c, s)
      PROVE  SessionsIssued'
  <2> DEFINE h == joining[c].host
  <2>1. /\ h \in Host /\ Enter(h, c, s) /\ Issue(c, s, h) /\ regOf' = regOf
        /\ joining' = [joining EXCEPT ![c] = [step |-> "entered", host |-> h, tx |-> hosts[h].tx, sid |-> s]]
    BY <1>2, JoiningTypes DEF ClientEnters, JoinEnter, HandlersInv, connVars
  <2>2. /\ \A t \in Sid : Live(t)' => issued'[t] = [host |-> sessions'[t].host, client |-> sessions'[t].client]
        /\ regOf[hosts[h].tx] = h
    BY <2>1, IssuedSessions
  <2>3. issued'[s] = [host |-> h, client |-> c]
    BY <2>1, IssuesLast
  <2>4. ASSUME NEW d \in Client, joining'[d].step = "entered"
        PROVE  /\ issued'[joining'[d].sid] = [host |-> joining'[d].host, client |-> d]
               /\ regOf'[joining'[d].tx] = joining'[d].host
    <3>1. CASE d = c
      BY <2>1, <2>2, <2>3, <3>1 DEF HandlersInv, TypeOK
    <3>2. CASE d # c
      <4>1. joining'[d] = joining[d]
        BY <2>1, <3>2 DEF HandlersInv, TypeOK
      <4>2. joining[d].sid \in Sid /\ joining[d].host \in Host
        BY <2>4, <4>1, JoiningTypes DEF HandlersInv
      <4>3. issued[joining[d].sid] = [host |-> joining[d].host, client |-> d]
        BY <2>4, <4>1 DEF SessionsIssued
      <4> QED
        BY <2>1, <2>4, <4>1, <4>2, <4>3, NoneIsNoValue DEF Lasting, NotIssued, SessionsIssued
    <3> QED
      BY <3>1, <3>2
  <2> QED
    BY <2>2, <2>4 DEF SessionsIssued
<1>3. CASE ClientIsRefused(c) \/ (\E pin \in Pin : ClientRotates(c, pin) \/ \E h \in Host : ClientResolvesPin(c, pin, h))
  <2>1. sessions' = sessions
    BY <1>3 DEF ClientIsRefused, JoinRefused, ClientRotates, JoinRotate, ClientResolvesPin, JoinResolve
  <2>3. \E new : joining' = [joining EXCEPT ![c] = new] /\ new.step # "entered"
    <3>1. CASE ClientIsRefused(c) \/ \E pin \in Pin : ClientRotates(c, pin)
      <4>1. joining' = [joining EXCEPT ![c] = NotJoining]
        BY <3>1 DEF ClientIsRefused, JoinRefused, ClientRotates, JoinRotate
      <4>2. NotJoining.step # "entered"
        BY DEF NotJoining
      <4> QED
        BY <4>1, <4>2
    <3>2. ASSUME NEW pin \in Pin, NEW h \in Host, ClientResolvesPin(c, pin, h)
          PROVE  \E new : joining' = [joining EXCEPT ![c] = new] /\ new.step # "entered"
      <4> DEFINE new == [NotJoining EXCEPT !.step = "resolved", !.host = h]
      <4>1. joining' = [joining EXCEPT ![c] = new]
        BY <3>2 DEF ClientResolvesPin, JoinResolve
      <4>2. new.step # "entered"
        BY DEF NotJoining
      <4> HIDE DEF new
      <4> QED
        BY <4>1, <4>2
    <3> QED
      BY <1>3, <3>1, <3>2
  <2>4. \A d \in Client : joining'[d] = joining[d] \/ joining'[d].step # "entered"
    BY <2>3 DEF HandlersInv, TypeOK
  <2>2. KeepsParties
    BY <2>1 DEF KeepsParties, Live
  <2> QED
    BY <2>2, <2>4, PartiesLast
<1>4. CASE ClientExits(c) \/ (\E s \in Sid : ClientRelays(c, s) \/ ClientSaysBye(c, s))
  <2>1. joining' = joining /\ (sessions' = sessions \/ \E S : sessions' = Without(S))
    BY <1>4 DEF ClientExits, ClientRelays, ClientSaysBye, CloseByClient, DisconnectClient, EndSessions, regVars
  <2>2. KeepsParties
    BY <2>1, WithoutKeeps DEF KeepsParties, Live, HandlersInv
  <2> QED
    BY <2>1, <2>2, PartiesLast
<1> QED
  BY <1>1, <1>2, <1>3, <1>4 DEF ClientStep

LEMMA SessionsIssuedStep ==
    ASSUME HandlersInv, FlightType, SessionsIssued, Registrations, [SigNext]_sigVars
    PROVE  SessionsIssued'
<1>1. Lasting
  BY LastingStep
<1>2. ASSUME NEW x \in HostConn, HostStep(x)
      PROVE  SessionsIssued'
  <2>1. joining' = joining
    BY <1>2 DEF HostStep, HostRegisters, RegisterHost, HostReceives, HostRelays, HostSaysBye, CloseByHost,
                HostExits, UnregisterHost, regVars
  <2> QED
    BY <1>1, <1>2, <2>1, HostsKeepParties, PartiesLast
<1>3. CASE \/ RotationStep \/ \E a \in Actor : Sends(a)
           \/ \E x \in Conn : Delivers(x) \/ WriterTimesOut(x)
           \/ UNCHANGED sigVars
  BY <1>1, <1>3, OthersKeepParties, PartiesLast
<1> QED
  BY <1>1, <1>2, <1>3, SessionsIssuedClients DEF SigNext

-----------------------------------------------------------------------------
LEMMA RegistrationsStep ==
    ASSUME HandlersInv, FlightType, Registrations, [SigNext]_sigVars
    PROVE  Registrations'
<1>1. ASSUME NEW y \in HostConn, NEW g \in Host, NEW claimed \in Sid \cup {None}, NEW pin \in Pin,
             HostRegisters(y, g, claimed, pin)
      PROVE  Registrations'
  <2>1. /\ phase' = [phase EXCEPT ![y] = "serving"] /\ regOf' = [regOf EXCEPT ![y] = g]
        /\ link' = [z \in HostConn |-> IF z = y THEN "handshake"
                                       ELSE IF z \in {v \in HostConn : regOf[v] = g} THEN "gone" ELSE link[z]]
        /\ phase[y] = "new" /\ regOf[y] = None
    BY <1>1 DEF HostRegisters, Registrations
  <2>2. ASSUME NEW h \in Host, NEW x \in HostConn, hosts'[h].tx = x
        PROVE  regOf'[x] = h
    <3>1. hosts' = [hosts EXCEPT ![g] = [tx |-> y, pin |-> pin, sid |-> claimed,
                                         rotates |-> g \in Rotating, expired |-> FALSE]]
      BY <1>1 DEF HostRegisters, RegisterHost
    <3>2. CASE h = g
      BY <2>1, <2>2, <3>1, <3>2 DEF HandlersInv, TypeOK, HandlersType
    <3>3. CASE h # g
      <4>1. hosts[h].tx = x
        BY <2>2, <3>1, <3>3 DEF HandlersInv, TypeOK
      <4>2. regOf[x] = h
        BY <4>1 DEF Registrations, IsCurrentHost
      <4> QED
        BY <2>1, <4>2, NoneIsNoValue DEF HandlersInv, HandlersType
    <3> QED
      BY <3>2, <3>3
  <2>3. ASSUME NEW x \in HostConn
        PROVE  (phase'[x] = "new" <=> regOf'[x] = None) /\ (link'[x] = "none" <=> regOf'[x] = None)
    <3>1. (phase[x] = "new" <=> regOf[x] = None) /\ (link[x] = "none" <=> regOf[x] = None)
      BY DEF Registrations
    <3>2. CASE x = y
      BY <2>1, <3>2, NoneIsNoValue DEF HandlersInv, HandlersType, Conn
    <3>3. CASE x # y
      BY <2>1, <3>1, <3>3, NoneIsNoValue DEF HandlersInv, HandlersType, Conn
    <3> QED
      BY <3>2, <3>3
  <2> QED
    BY <2>2, <2>3 DEF Registrations, IsCurrentHost
<1>2. ASSUME regOf' = regOf, \A h \in Host : hosts'[h].tx \in {hosts[h].tx, None},
             \A x \in HostConn : (phase'[x] = "new" <=> phase[x] = "new") /\ (link'[x] = "none" <=> link[x] = "none")
      PROVE  Registrations'
  BY <1>2, NoneIsNoValue DEF Registrations, IsCurrentHost
<1>3. ASSUME HandlersGoOn, \A x \in HostConn : link'[x] = "none" <=> link[x] = "none",
             \A x \in HostConn : phase'[x] = "new" <=> phase[x] = "new"
      PROVE  Registrations'
  BY <1>2, <1>3, OnlyRegisteringAdds DEF HandlersGoOn, HandlersInv
<1>4. ASSUME HandlersGoOn, \A y \in Conn : phase' = [phase EXCEPT ![y] = "closed"] => phase[y] # "new"
      PROVE  \A x \in HostConn : phase'[x] = "new" <=> phase[x] = "new"
  BY <1>4 DEF HandlersGoOn, HandlersInv, HandlersType, Conn
<1>5. ASSUME NEW x \in HostConn, HostStep(x), HandlersGoOn
      PROVE  Registrations'
  <2>1. link' = link \/ \E h \in Host, claimed \in Sid \cup {None}, pin \in Pin : HostRegisters(x, h, claimed, pin)
    BY <1>5 DEF HostStep, HostReceives, HostRelays, HostSaysBye, HostExits, agentVars
  <2>2. \/ phase' = phase
        \/ phase' = [phase EXCEPT ![x] = "closed"] /\ phase[x] = "serving"
        \/ \E h \in Host, claimed \in Sid \cup {None}, pin \in Pin : HostRegisters(x, h, claimed, pin)
    <3>2. CASE HostExits(x)
      BY <3>2 DEF HostExits, Closes, HostReading, Reading
    <3>3. CASE HostRelays(x) \/ HostSaysBye(x) \/ \E m : HostReceives(x, m)
      BY <3>3 DEF HostReceives, HostRelays, HostSaysBye
    <3> QED
      BY <1>5, <3>2, <3>3, Zenon DEF HostStep
  <2>3. CASE link' = link /\ (phase' = phase \/ (phase' = [phase EXCEPT ![x] = "closed"] /\ phase[x] = "serving"))
    BY <1>3, <1>5, <2>3 DEF HandlersInv, HandlersType, Conn
  <2> QED
    BY <1>1, <2>1, <2>2, <2>3
<1>6. ASSUME NEW c \in Client, ClientStep(c)
      PROVE  Registrations'
  <2>1. link' = link /\ (phase' = phase \/ phase' = [phase EXCEPT ![c] = "closed"])
    BY <1>6 DEF ClientStep, ClientConnectsDevice, ClientResolvesPin, ClientEnters, ClientIsRefused, ClientRotates,
                ClientRelays, ClientSaysBye, ClientExits, Closes, agentVars, connVars
  <2>2. \A x \in HostConn : phase'[x] = "new" <=> phase[x] = "new"
    <3>1. \A x \in HostConn : x \in Conn /\ x # c
      BY OneRole DEF Conn
    <3>2. \A x \in HostConn : phase'[x] = phase[x]
      BY <2>1, <3>1 DEF HandlersInv, HandlersType
    <3> QED
      BY <3>2
  <2> QED
    BY <1>3, <1>6, <2>1, <2>2, ClientsGoOn
<1>7. CASE RotationStep \/ (\E a \in Actor : Sends(a)) \/ (\E x \in Conn : WriterTimesOut(x))
  <2>1. link' = link /\ phase' = phase
    BY <1>7 DEF RotationStep, RotatorTicks, PinAges, Sends, WriterTimesOut, agentVars, connVars
  <2> QED
    BY <1>3, <1>7, <2>1, RotationGoesOn, QueuesGoOn
<1>8. ASSUME NEW x \in Conn, Delivers(x)
      PROVE  Registrations'
  <2>1. link' = link \/ \E y \in HostConn, new \in {"up", "gone"} : link[y] = "handshake" /\ link' = [link EXCEPT ![y] = new]
    <3>1. CASE x \in HostConn /\ AgentReads(x, Head(out[x]))
      <4>1. link[x] # "handshake" => link' = link
        BY <3>1 DEF AgentReads, FlightType
      <4>2. link[x] = "handshake" => \E new \in {"up", "gone"} : link' = [link EXCEPT ![x] = new]
        BY <3>1 DEF AgentReads, FlightType
      <4> QED
        BY <3>1, <4>1, <4>2
    <3> QED
      BY <1>8, <3>1 DEF Delivers
  <2>2. phase' = phase
    BY <1>8 DEF Delivers, connVars
  <2> QED
    BY <1>3, <1>8, <2>1, <2>2, QueuesGoOn DEF FlightType
<1>9. CASE UNCHANGED sigVars
  BY <1>2, <1>9 DEF sigVars, regVars, connVars, agentVars
<1> QED
  BY <1>1, <1>5, <1>6, <1>7, <1>8, <1>9, HostsGoOn DEF SigNext

-----------------------------------------------------------------------------
LEMMA BeginFits ==
    ASSUME Lasting, FlightType, TodoFits, NEW a \in Actor, NEW sends, todo' = [todo EXCEPT ![a] = sends],
           \A i \in DOMAIN sends : FitsNext(sends[i].to, sends[i].msg)
    PROVE  TodoFits'
<1> SUFFICES ASSUME NEW b \in Actor, NEW i \in DOMAIN todo'[b]
             PROVE  FitsNext(todo'[b][i].to, todo'[b][i].msg)
  BY DEF TodoFits, Fits, FitsNext
<1>1. CASE b = a
  BY <1>1 DEF FlightType
<1>2. CASE b # a
  <2>1. todo'[b] = todo[b] /\ todo[b] \in Seq(Sending) /\ i \in DOMAIN todo[b]
    BY <1>2 DEF FlightType
  <2>2. todo[b][i] \in Sending /\ Fits(todo[b][i].to, todo[b][i].msg)
    BY <2>1 DEF TodoFits
  <2> QED
    BY <2>1, <2>2, FitsLasts DEF Sending
<1> QED
  BY <1>1, <1>2

LEMMA SameTodoFits ==
    ASSUME Lasting, FlightType, TodoFits, todo' = todo
    PROVE  TodoFits'
<1> SUFFICES ASSUME NEW b \in Actor, NEW i \in DOMAIN todo[b]
             PROVE  FitsNext(todo[b][i].to, todo[b][i].msg)
  BY DEF TodoFits, Fits, FitsNext
<1>1. todo[b] \in Seq(Sending)
  BY DEF FlightType
<1>2. todo[b][i] \in Sending /\ Fits(todo[b][i].to, todo[b][i].msg)
  BY <1>1 DEF TodoFits
<1> QED
  BY <1>2, FitsLasts DEF Sending

LEMMA ForwardFits ==
    ASSUME Lasting, FlightType, TodoFits, NEW a \in Conn, NEW peer \in Conn \cup {None}, NEW m \in Message,
           Forward(a, peer, m), peer # None => Fits(peer, m)
    PROVE  TodoFits'
<1>1. peer # None => FitsNext(peer, m)
  BY FitsLasts
<1> DEFINE sends == IF peer = None THEN <<>> ELSE <<Send(peer, m)>>
<1>2. todo' = [todo EXCEPT ![a] = sends]
  BY DEF Forward, Todo
<1>3. \A i \in DOMAIN sends : FitsNext(sends[i].to, sends[i].msg)
  <2>1. CASE peer = None
    BY <2>1
  <2>2. CASE peer # None
    <3>1. sends = <<Send(peer, m)>> /\ DOMAIN sends = {1} /\ sends[1].to = peer /\ sends[1].msg = m
      BY <2>2 DEF Send
    <3> QED
      BY <1>1, <2>2, <3>1
  <2> QED
    BY <2>1, <2>2
<1> HIDE DEF sends
<1> QED
  BY <1>2, <1>3, BeginFits DEF Actor

LEMMA AnnounceFits ==
    ASSUME Lasting, FlightType, TodoFits, NEW c \in Client, NEW s \in Sid, NEW x \in HostConn, NEW h \in Host,
           NEW pin \in Pin \cup {None}, Announce(c, s, x, pin),
           issued'[s] = [host |-> h, client |-> c], regOf'[x] = h
    PROVE  TodoFits'
<1> DEFINE sends == <<Send(c, Msg("Joined", s, None)), Send(x, Msg("PeerJoined", s, None))>>
                    \o (IF pin = None THEN <<>> ELSE <<Send(x, Msg("PinChanged", None, pin))>>)
<1>1. todo' = [todo EXCEPT ![c] = sends]
  BY DEF Announce, Todo
<1>2. h # None /\ c # None /\ s # None /\ x \notin Client /\ c \notin HostConn
  BY NoneIsNoValue, OneRole
<1>3. FitsNext(c, Msg("Joined", s, None))
  BY <1>2 DEF Fits, FitsNext, Msg, NotIssued
<1>4. FitsNext(x, Msg("PeerJoined", s, None))
  BY <1>2 DEF Fits, FitsNext, Msg, NotIssued
<1>5. FitsNext(x, Msg("PinChanged", None, pin))
  BY <1>2 DEF Fits, FitsNext, Msg
<1>6. \A i \in DOMAIN sends : sends[i] \in {Send(c, Msg("Joined", s, None)), Send(x, Msg("PeerJoined", s, None)),
                                            Send(x, Msg("PinChanged", None, pin))}
  OBVIOUS
<1> HIDE DEF sends
<1>7. \A i \in DOMAIN sends : FitsNext(sends[i].to, sends[i].msg)
  BY <1>3, <1>4, <1>5, <1>6 DEF Send
<1> QED
  BY <1>1, <1>7, BeginFits DEF Actor, Conn

LEMMA TodoFitsHosts ==
    ASSUME HandlersInv, PartiesInv, Lasting, NEW x \in HostConn, HostStep(x)
    PROVE  TodoFits'
<1>1. ASSUME NEW h \in Host, NEW claimed \in Sid \cup {None}, NEW pin \in Pin,
             HostRegisters(x, h, claimed, pin)
      PROVE  TodoFits'
  <2> DEFINE sends == <<Send(x, Msg("Registered", None, pin))>>
  <2>1. todo' = [todo EXCEPT ![x] = sends] /\ regOf'[x] = h
    BY <1>1 DEF HostRegisters, Todo, HandlersInv, HandlersType
  <2>2. sends[1].to = x /\ sends[1].msg = Msg("Registered", None, pin) /\ DOMAIN sends = {1}
    BY DEF Send
  <2>3. FitsNext(x, Msg("Registered", None, pin))
    BY <2>1, NoneIsNoValue DEF Fits, FitsNext, Msg
  <2> HIDE DEF sends
  <2> QED
    BY <2>1, <2>2, <2>3, BeginFits DEF PartiesInv, Actor, Conn
<1>2. CASE todo' = todo
  BY <1>2, SameTodoFits DEF PartiesInv
<1>3. ASSUME cur[x] # None, Forward(x, PeerTxForHost(regOf[x], cur[x].sid), cur[x])
      PROVE  TodoFits'
  <2>1. cur[x] \in Message /\ cur[x].sid \in Sid
    BY <1>3 DEF HandlersInv, HandlersType, Received, Msg, Message, PinMessage, SidMessage
  <2> DEFINE s == cur[x].sid
             peer == PeerTxForHost(regOf[x], s)
  <2>2. ASSUME peer # None
        PROVE  peer \in Client /\ Fits(peer, cur[x])
    <3>1. Live(s) /\ sessions[s] \in SessionEntry /\ peer = sessions[s].client
      BY <1>3, <2>1, <2>2, PeerOfHost DEF HandlersInv, ServesItsHost
    <3>2. issued[s] = [host |-> sessions[s].host, client |-> sessions[s].client]
      BY <2>1, <3>1 DEF PartiesInv, SessionsIssued
    <3> QED
      BY <3>1, <3>2, OneRole, NoneIsNoValue DEF Fits, FitsNext, SessionEntry, NotIssued
  <2> HIDE DEF peer
  <2>3. peer \in Conn \cup {None}
    BY <2>2 DEF Conn
  <2> QED
    BY <1>3, <2>1, <2>2, <2>3, ForwardFits DEF peer, PartiesInv, Conn
<1> QED
  BY <1>1, <1>2, <1>3 DEF HostStep, HostReceives, HostRelays, HostSaysBye, HostExits

(* The connection at the host's end of a live session is one its device     *)
(* registered.                                                              *)
LEMMA HostEnd ==
    ASSUME HandlersInv, PartiesInv, SessionBacked, NEW s \in Sid, Live(s)
    PROVE  /\ sessions[s] \in SessionEntry
           /\ regOf[sessions[s].hostTx] = sessions[s].host
           /\ issued[s] = [host |-> sessions[s].host, client |-> sessions[s].client]
           /\ issued[s] # NotIssued
<1>1. sessions[s] \in SessionEntry
  BY DEF Live, HandlersInv, TypeOK, NoSession
<1>2. regOf[sessions[s].hostTx] = sessions[s].host
  BY <1>1 DEF SessionBacked, PartiesInv, Registrations, IsCurrentHost, SessionEntry
<1>3. issued[s] = [host |-> sessions[s].host, client |-> sessions[s].client]
  BY DEF PartiesInv, SessionsIssued
<1> QED
  BY <1>1, <1>2, <1>3, NoneIsNoValue DEF SessionEntry, NotIssued

LEMMA TodoFitsClients ==
    ASSUME HandlersInv, PartiesInv, SessionBacked, Lasting, NEW c \in Client, ClientStep(c)
    PROVE  TodoFits'
<1>0. FlightType /\ SessionsIssued /\ Registrations /\ TodoFits /\ TypeOK /\ regOf' = regOf
  BY ClientsGoOn DEF PartiesInv, HandlersInv, HandlersGoOn
<1>1. ASSUME NEW h \in Host, NEW s \in Sid, ClientConnectsDevice(c, h, s)
      PROVE  TodoFits'
  <2>1. Enter(h, c, s) /\ Issue(c, s, h) /\ Announce(c, s, hosts[h].tx, None)
    BY <1>1 DEF ClientConnectsDevice, JoinByHostId
  <2>2. hosts[h].tx \in HostConn /\ regOf'[hosts[h].tx] = h
    BY <1>0, <2>1, IssuedSessions
  <2>3. issued'[s] = [host |-> h, client |-> c]
    BY <1>0, <2>1, IssuesLast
  <2> QED
    BY <1>0, <2>1, <2>2, <2>3, AnnounceFits
<1>2. CASE todo' = todo
  BY <1>0, <1>2, SameTodoFits
<1>3. ASSUME NEW pin \in Pin, ClientRotates(c, pin)
      PROVE  TodoFits'
  <2>1. joining[c].step = "entered" /\ issued' = issued
        /\ Announce(c, joining[c].sid, joining[c].tx, IF RotatesOnJoin(c) THEN pin ELSE None)
    BY <1>3 DEF ClientRotates, JoinRotate
  <2>2. joining[c].tx \in HostConn /\ joining[c].sid \in Sid /\ joining[c].host \in Host
    BY <1>0, <2>1, JoiningTypes
  <2>3. issued'[joining[c].sid] = [host |-> joining[c].host, client |-> c] /\ regOf'[joining[c].tx] = joining[c].host
    BY <1>0, <2>1 DEF SessionsIssued
  <2>4. (IF RotatesOnJoin(c) THEN pin ELSE None) \in Pin \cup {None}
    OBVIOUS
  <2> QED
    BY <1>0, <2>1, <2>2, <2>3, <2>4, AnnounceFits
<1>4. ASSUME NEW s \in Sid, ClientRelays(c, s)
      PROVE  TodoFits'
  <2> DEFINE peer == PeerTxForClient(s, c)
             m == Msg("Relay", s, None)
  <2>1. m \in Message /\ m.sid = s
    BY DEF Msg, Message, PinMessage, SidMessage
  <2>2. ASSUME peer # None
        PROVE  peer \in HostConn /\ Fits(peer, m)
    <3>1. Live(s) /\ peer = sessions[s].hostTx
      BY <1>0, <2>2, PeerOfClient
    <3>2. /\ sessions[s] \in SessionEntry /\ regOf[peer] = sessions[s].host
          /\ issued[s] # NotIssued /\ issued[s].host = sessions[s].host
      <4>1. /\ sessions[s] \in SessionEntry /\ regOf[sessions[s].hostTx] = sessions[s].host
            /\ issued[s] # NotIssued /\ issued[s] = [host |-> sessions[s].host, client |-> sessions[s].client]
        BY <3>1, HostEnd
      <4> QED
        BY <3>1, <4>1
    <3> HIDE DEF m, peer
    <3> QED
      BY <2>1, <3>1, <3>2, OneRole, NoneIsNoValue DEF Fits, FitsNext, SessionEntry
  <2>3. peer \in Conn \cup {None}
    BY <2>2 DEF Conn
  <2>4. Forward(c, peer, m)
    BY <1>4 DEF ClientRelays
  <2> HIDE DEF peer, m
  <2> QED
    BY <1>0, <2>1, <2>2, <2>3, <2>4, ForwardFits DEF Conn
<1>5. ASSUME NEW s \in Sid, ClientSaysBye(c, s)
      PROVE  TodoFits'
  <2> DEFINE x == sessions[s].hostTx
             m == Msg("Bye", s, None)
             sends == <<Send(x, m)>>
  <2>1. m \in Message /\ m.sid = s
    BY DEF Msg, Message, PinMessage, SidMessage
  <2>2. Live(s)
    BY <1>0, <1>5, NoneIsNoValue DEF ClientSaysBye, CloseByClient, Live, TypeOK, SessionEntry, NoSession
  <2>3. /\ x \in HostConn /\ regOf[x] = sessions[s].host /\ sessions[s].host \in Host
        /\ issued[s] # NotIssued /\ issued[s].host = sessions[s].host
    <3>1. /\ sessions[s] \in SessionEntry /\ regOf[sessions[s].hostTx] = sessions[s].host
          /\ issued[s] # NotIssued /\ issued[s] = [host |-> sessions[s].host, client |-> sessions[s].client]
      BY <2>2, HostEnd
    <3> QED
      BY <3>1 DEF SessionEntry
  <2>4. todo' = [todo EXCEPT ![c] = sends]
    BY <1>5 DEF ClientSaysBye, Todo
  <2>5. sends[1].to = x /\ sends[1].msg = m /\ DOMAIN sends = {1}
    BY DEF Send
  <2> HIDE DEF x, m, sends
  <2>6. Fits(x, m)
    BY <2>1, <2>3, OneRole, NoneIsNoValue DEF Fits, FitsNext
  <2>7. FitsNext(x, m)
    BY <2>1, <2>3, <2>6, FitsLasts DEF Conn
  <2> QED
    BY <1>0, <2>4, <2>5, <2>7, BeginFits DEF Actor, Conn
<1> QED
  BY <1>1, <1>2, <1>3, <1>4, <1>5 DEF ClientStep, ClientResolvesPin, ClientEnters, ClientIsRefused, ClientExits

LEMMA TodoFitsRotation ==
    ASSUME HandlersInv, PartiesInv, Lasting, RotationStep
    PROVE  TodoFits'
<1>1. ASSUME NEW new \in [Expired -> Pin], NEW order \in Bijection(1 .. Cardinality(Expired), Expired),
             RotatorTicks(new, order)
      PROVE  TodoFits'
  <2>1. todo' = [todo EXCEPT ![Rotator] = PinSends(new, order)]
    BY <1>1 DEF RotatorTicks, Todo, PinSends
  <2>2. ASSUME NEW i \in DOMAIN order
        PROVE  FitsNext(PinSends(new, order)[i].to, PinSends(new, order)[i].msg)
    <3>1. order[i] \in Expired
      BY DEF Bijection, Injection
    <3>2. order[i] \in Host /\ hosts[order[i]].tx \in HostConn
      BY <3>1, ExpiredEntries DEF HandlersInv, HostEntry, Expired
    <3>3. regOf[hosts[order[i]].tx] = order[i]
      BY <3>2 DEF PartiesInv, Registrations, IsCurrentHost
    <3>4. regOf'[hosts[order[i]].tx] # None
      BY <3>2, <3>3, NoneIsNoValue DEF Lasting
    <3>5. /\ PinSends(new, order)[i].to = hosts[order[i]].tx
          /\ PinSends(new, order)[i].msg = Msg("PinChanged", None, new[order[i]])
      BY DEF PinSends, Send
    <3> QED
      BY <3>4, <3>5 DEF Fits, FitsNext, Msg
  <2>3. DOMAIN PinSends(new, order) = DOMAIN order
    BY DEF PinSends
  <2> QED
    BY <2>1, <2>2, <2>3, BeginFits DEF PartiesInv, Actor
<1>2. CASE todo' = todo
  BY <1>2, SameTodoFits DEF PartiesInv
<1> QED
  BY <1>1, <1>2 DEF RotationStep, PinAges

LEMMA OneSendFits ==
    ASSUME PartiesInv, Lasting, NEW a \in Actor, Sends(a)
    PROVE  TodoFits' /\ OutFits'
<1>1. PICK to \in Conn, m \in Message :
              /\ todo[a] \in Seq(Sending) /\ todo[a] # <<>>
              /\ todo[a][1] = Send(to, m)
              /\ todo' = [todo EXCEPT ![a] = Tail(todo[a])]
              /\ out' = [out EXCEPT ![to] = Append(out[to], m)] \/ out' = out
  BY SendsOne DEF PartiesInv
<1>2. Fits(to, m)
  BY <1>1 DEF PartiesInv, TodoFits, Send
<1> DEFINE sends == Tail(todo[a])
<1>3. sends \in Seq(Sending) /\ DOMAIN sends = 1 .. Len(todo[a]) - 1 /\ \A i \in DOMAIN sends : sends[i] = todo[a][i + 1]
  BY <1>1
<1>4. ASSUME NEW i \in DOMAIN sends
      PROVE  FitsNext(sends[i].to, sends[i].msg)
  <2>1. sends[i] \in Sending /\ i + 1 \in DOMAIN todo[a] /\ sends[i] = todo[a][i + 1]
    BY <1>1, <1>3
  <2>2. Fits(sends[i].to, sends[i].msg)
    BY <2>1 DEF PartiesInv, TodoFits
  <2> QED
    BY <2>1, <2>2, FitsLasts DEF Sending
<1>5. TodoFits'
  <2>1. todo' = [todo EXCEPT ![a] = sends]
    BY <1>1
  <2> HIDE DEF sends
  <2> QED
    BY <1>4, <2>1, BeginFits DEF PartiesInv
<1>6. OutFits'
  <2> SUFFICES ASSUME NEW x \in Conn, NEW i \in DOMAIN out'[x]
               PROVE  FitsNext(x, out'[x][i])
    BY DEF OutFits, Fits, FitsNext
  <2>1. out[x] \in Seq(Message)
    BY DEF PartiesInv, FlightType
  <2>2. (i \in DOMAIN out[x] /\ out'[x][i] = out[x][i]) \/ (x = to /\ out'[x][i] = m)
    <3>1. out'[x] = out[x] \/ (x = to /\ out'[x] = Append(out[x], m))
      BY <1>1 DEF PartiesInv, FlightType
    <3>2. CASE out'[x] = out[x]
      BY <3>2
    <3>3. CASE x = to /\ out'[x] = Append(out[x], m)
      <4>1. DOMAIN out'[x] = 1 .. Len(out[x]) + 1 /\ DOMAIN out[x] = 1 .. Len(out[x])
        BY <2>1, <3>3
      <4>2. \A j \in 1 .. Len(out[x]) : out'[x][j] = out[x][j]
        BY <2>1, <3>3
      <4>3. out'[x][Len(out[x]) + 1] = m
        BY <2>1, <3>3
      <4> QED
        BY <2>1, <3>3, <4>1, <4>2, <4>3
    <3> QED
      BY <3>1, <3>2, <3>3
  <2>3. i \in DOMAIN out[x] => out[x][i] \in Message /\ Fits(x, out[x][i])
    BY <2>1 DEF PartiesInv, OutFits
  <2> QED
    BY <1>2, <2>2, <2>3, FitsLasts
<1> QED
  BY <1>5, <1>6

(* Of the queues nothing but heads and whole contents are removed.          *)
Shrinks(x) ==
    \/ out'[x] = out[x] \/ out'[x] = <<>>
    \/ out[x] # <<>> /\ out'[x] = Tail(out[x])

LEMMA ShrunkFits ==
    ASSUME PartiesInv, Lasting, \A x \in Conn : Shrinks(x)
    PROVE  OutFits'
<1> SUFFICES ASSUME NEW x \in Conn, NEW i \in DOMAIN out'[x]
             PROVE  FitsNext(x, out'[x][i])
  BY DEF OutFits, Fits, FitsNext
<1>1. out[x] \in Seq(Message)
  BY DEF PartiesInv, FlightType
<1>2. \E j \in DOMAIN out[x] : out'[x][i] = out[x][j]
  <2>1. CASE out'[x] = out[x] \/ out'[x] = <<>>
    BY <2>1
  <2>2. CASE out[x] # <<>> /\ out'[x] = Tail(out[x])
    <3>1. i + 1 \in DOMAIN out[x] /\ out'[x][i] = out[x][i + 1]
      BY <1>1, <2>2
    <3> QED
      BY <3>1
  <2> QED
    BY <2>1, <2>2 DEF Shrinks
<1>3. \A j \in DOMAIN out[x] : out[x][j] \in Message /\ Fits(x, out[x][j])
  BY <1>1 DEF PartiesInv, OutFits
<1> QED
  BY <1>2, <1>3, FitsLasts

LEMMA QueuesShrink ==
    ASSUME FlightType, [SigNext]_sigVars, ~ \E a \in Actor : Sends(a)
    PROVE  \A x \in Conn : Shrinks(x)
<1>1. CASE out' = out
  BY <1>1 DEF Shrinks
<1>2. ASSUME NEW y \in Conn, out' = [out EXCEPT ![y] = <<>>] \/ (out[y] # <<>> /\ out' = [out EXCEPT ![y] = Tail(@)])
      PROVE  \A x \in Conn : Shrinks(x)
  BY <1>2 DEF Shrinks, FlightType
<1>3. ASSUME NEW x \in HostConn, HostStep(x)
      PROVE  out' = out \/ out' = [out EXCEPT ![x] = <<>>]
  BY <1>3 DEF HostStep, HostRegisters, HostReceives, HostRelays, HostSaysBye, HostExits, Closes
<1>4. ASSUME NEW x \in Client, ClientStep(x)
      PROVE  out' = out \/ out' = [out EXCEPT ![x] = <<>>]
  BY <1>4 DEF ClientStep, ClientConnectsDevice, ClientResolvesPin, ClientEnters, ClientIsRefused, ClientRotates,
              ClientRelays, ClientSaysBye, ClientExits, Closes
<1>5. CASE RotationStep \/ UNCHANGED sigVars
  BY <1>1, <1>5 DEF RotationStep, RotatorTicks, PinAges, sigVars
<1>6. ASSUME NEW x \in Conn, Delivers(x) \/ WriterTimesOut(x)
      PROVE  out' = [out EXCEPT ![x] = <<>>] \/ (out[x] # <<>> /\ out' = [out EXCEPT ![x] = Tail(@)])
  BY <1>6 DEF Delivers, WriterTimesOut
<1> QED
  BY <1>1, <1>2, <1>3, <1>4, <1>5, <1>6 DEF SigNext, Conn

LEMMA PartiesStep ==
    ASSUME HandlersInv, SessionBacked, PartiesInv, [SigNext]_sigVars
    PROVE  PartiesInv'
<1>1. FlightType' /\ Registrations' /\ SessionsIssued' /\ Lasting
  BY TypedStep, RegistrationsStep, SessionsIssuedStep, LastingStep DEF PartiesInv
<1>2. CASE \E a \in Actor : Sends(a)
  BY <1>1, <1>2, OneSendFits DEF PartiesInv
<1>3. CASE ~ \E a \in Actor : Sends(a)
  <2>1. OutFits'
    BY <1>1, <1>3, QueuesShrink, ShrunkFits DEF PartiesInv
  <2>2. TodoFits'
    <3>1. CASE todo' = todo
      BY <1>1, <3>1, SameTodoFits DEF PartiesInv
    <3>2. \/ todo' = todo \/ RotationStep
          \/ \E x \in HostConn : HostStep(x)
          \/ \E c \in Client : ClientStep(c)
      BY <1>3 DEF SigNext, Delivers, WriterTimesOut, sigVars
    <3> QED
      BY <1>1, <3>1, <3>2, TodoFitsHosts, TodoFitsClients, TodoFitsRotation
  <2> QED
    BY <1>1, <2>1, <2>2 DEF PartiesInv
<1> QED
  BY <1>2, <1>3

LEMMA PartiesInitially == SigInit => PartiesInv
<1> SUFFICES ASSUME SigInit
             PROVE  PartiesInv
  OBVIOUS
<1>1. FlightType
  BY DEF SigInit, FlightType
<1>2. SessionsIssued
  BY DEF SigInit, RegInit, SessionsIssued, Live, NoSession, NotJoining
<1>3. Registrations
  BY NoneIsNoValue, OneRole DEF SigInit, RegInit, Registrations, IsCurrentHost, NoHost, Conn
<1>4. TodoFits /\ OutFits
  BY DEF SigInit, TodoFits, OutFits
<1> QED
  BY <1>1, <1>2, <1>3, <1>4 DEF PartiesInv

LEMMA PartiesInvariant == SigSpec => [](HandlersInv /\ PartiesInv)
<1>1. HandlersInv /\ SessionBacked /\ PartiesInv /\ [SigNext]_sigVars => HandlersInv' /\ PartiesInv'
  BY HandlersStep, PartiesStep
<1> QED
  BY HandlersInitially, PartiesInitially, <1>1, ServerKeepsRegistry, PTL DEF SigSpec

LEMMA FitsAreTheirs == PartiesInv => OnlyToItsParties
BY DEF PartiesInv, OutFits, Fits, OnlyToItsParties

(* D35, for any number of hosts, clients, sessions and messages: nothing is *)
(* ever queued for a connection under the id of a session that was issued   *)
(* for someone else.  An id is issued once, and between the lookup of the   *)
(* peer and the send, however long it takes, the peer stays the one it was  *)
(* issued for even where the session itself is gone or has been re-attached.*)
THEOREM SessionsStayPrivate == SigSpec => []OnlyToItsParties
BY PartiesInvariant, FitsAreTheirs, PTL

-----------------------------------------------------------------------------
(* What one step may do to one connection's queue and to what its peer has  *)
(* heard.                                                                   *)
Idle(y) ==
    /\ out'[y] = out[y] /\ gate'[y] = gate[y] /\ known'[y] = known[y]
    /\ y \in HostConn => link'[y] = link[y] /\ pins'[y] = pins[y]

Over(y) ==
    /\ gate'[y] # "open" /\ known'[y] \subseteq known[y] /\ out'[y] \in {out[y], <<>>}
    /\ y \in HostConn => link'[y] = link[y]

Gets(y, m) ==
    /\ \E a \in Actor : todo[a] # <<>> /\ todo[a][1] = Send(y, m) /\ todo'[a] = Tail(todo[a])
    /\ out'[y] = Append(out[y], m) /\ gate'[y] = gate[y] /\ known'[y] = known[y]
    /\ y \in HostConn => link'[y] = link[y] /\ pins'[y] = pins[y]

Hands(y, m) ==
    /\ out[y] # <<>> /\ m = out[y][1] /\ out'[y] = Tail(out[y]) /\ gate'[y] = gate[y]
    /\ y \in Client => known'[y] = IF m.type = "Joined" THEN known[y] \cup {m.sid} ELSE known[y]
    /\ y \in HostConn =>
         pins'[y] = IF (link[y] = "handshake" /\ m.type = "Registered") \/ (link[y] = "up" /\ m.type = "PinChanged")
                    THEN Append(pins[y], m.pin) ELSE pins[y]
    /\ y \in HostConn =>
         \/ link[y] = "up" /\ link'[y] = "up"
            /\ known'[y] = IF m.type = "PeerJoined" THEN known[y] \cup {m.sid} ELSE known[y]
         \/ link[y] = "handshake" /\ m.type = "Registered" /\ link'[y] = "up" /\ known'[y] = known[y]
         \/ link[y] # "none" /\ link'[y] = "gone" /\ known'[y] \in {known[y], {}}
         \/ link[y] = "none"

GivenUp(y) ==
    /\ y \in HostConn /\ link'[y] = "gone" /\ out'[y] = out[y] /\ gate'[y] = gate[y]
    /\ known'[y] \subseteq known[y]

Opens(y) ==
    /\ y \in HostConn /\ regOf[y] = None /\ out'[y] = out[y] /\ gate'[y] = gate[y]
    /\ \E h \in Host, claimed \in Sid \cup {None}, pin \in Pin : HostRegisters(y, h, claimed, pin)

ConnStep(y) ==
    \/ Idle(y) \/ Over(y) \/ GivenUp(y) \/ Opens(y)
    \/ \E m \in Message : Gets(y, m) \/ Hands(y, m)

LEMMA GateStaysShut ==
    ASSUME FlightType, [SigNext]_sigVars, NEW y \in Conn, gate[y] # "open"
    PROVE  gate'[y] # "open"
<1>1. CASE gate' = gate
  BY <1>1
<1>2. ASSUME NEW z \in Conn, gate' = [gate EXCEPT ![z] = "dead"] \/ gate' = [gate EXCEPT ![z] = "killed"]
      PROVE  gate'[y] # "open"
  BY <1>2 DEF FlightType
<1>3. ASSUME NEW x \in HostConn, HostStep(x)
      PROVE  gate' = gate \/ gate' = [gate EXCEPT ![x] = "dead"]
  BY <1>3 DEF HostStep, HostRegisters, HostReceives, HostRelays, HostSaysBye, HostExits, Closes
<1>4. ASSUME NEW x \in Client, ClientStep(x)
      PROVE  gate' = gate \/ gate' = [gate EXCEPT ![x] = "dead"]
  BY <1>4 DEF ClientStep, ClientConnectsDevice, ClientResolvesPin, ClientEnters, ClientIsRefused, ClientRotates,
              ClientRelays, ClientSaysBye, ClientExits, Closes
<1>5. CASE RotationStep \/ UNCHANGED sigVars
  BY <1>1, <1>5 DEF RotationStep, RotatorTicks, PinAges, sigVars
<1>6. ASSUME NEW x \in Conn, Delivers(x) \/ WriterTimesOut(x)
      PROVE  gate' = gate \/ gate' = [gate EXCEPT ![x] = "dead"]
  BY <1>6 DEF Delivers, WriterTimesOut
<1>7. ASSUME NEW a \in Actor, Sends(a)
      PROVE  gate' = gate \/ \E z \in Conn : gate' = [gate EXCEPT ![z] = "killed"]
  BY <1>7, SendsOne
<1> QED
  BY <1>1, <1>2, <1>3, <1>4, <1>5, <1>6, <1>7 DEF SigNext, Conn

LEMMA ConnRegisters ==
    ASSUME HandlersInv, PartiesInv, NEW x \in HostConn, NEW h \in Host, NEW claimed \in Sid \cup {None},
           NEW pin \in Pin, HostRegisters(x, h, claimed, pin), NEW y \in Conn
    PROVE  ConnStep(y)
<1>1. out' = out /\ gate' = gate /\ regOf[x] = None
  BY DEF HostRegisters, PartiesInv, Registrations
<1>2. CASE y = x
  BY <1>1, <1>2 DEF ConnStep, Opens
<1>3. CASE y \in HostConn /\ y # x /\ regOf[y] = h
  <2>1. link'[y] = "gone" /\ known'[y] \in {known[y], {}}
    BY <1>3 DEF HostRegisters, Conn, PartiesInv, FlightType
  <2> QED
    BY <1>1, <1>3, <2>1 DEF ConnStep, GivenUp
<1>4. CASE y # x /\ (y \notin HostConn \/ regOf[y] # h)
  <2>1. known'[y] = known[y] /\ (y \in HostConn => link'[y] = link[y]) /\ pins' = pins
    BY <1>4 DEF HostRegisters, Conn
  <2> QED
    BY <1>1, <2>1 DEF ConnStep, Idle
<1> QED
  BY <1>2, <1>3, <1>4

LEMMA ConnSends ==
    ASSUME FlightType, NEW a \in Actor, Sends(a), NEW y \in Conn
    PROVE  ConnStep(y)
<1>1. PICK to \in Conn, m \in Message :
              /\ todo[a] # <<>> /\ todo[a][1] = Send(to, m) /\ todo' = [todo EXCEPT ![a] = Tail(todo[a])]
              /\ \/ out' = [out EXCEPT ![to] = Append(out[to], m)] /\ gate' = gate
                 \/ out' = out /\ gate[to] # "dead" /\ gate' = [gate EXCEPT ![to] = "killed"]
                 \/ out' = out /\ gate[to] = "dead" /\ gate' = gate
  BY SendsOne
<1>2. known' = known /\ link' = link /\ pins' = pins
  BY DEF Sends, agentVars
<1>3. CASE y # to
  BY <1>1, <1>2, <1>3 DEF FlightType, ConnStep, Idle
<1>4. CASE y = to
  <2>1. \/ out'[y] = Append(out[y], m) /\ gate'[y] = gate[y]
        \/ gate'[y] # "open" /\ out'[y] = out[y]
    BY <1>1, <1>4 DEF FlightType
  <2>2. CASE out'[y] = Append(out[y], m) /\ gate'[y] = gate[y]
    <3>1. Gets(y, m)
      BY <1>1, <1>2, <1>4, <2>2 DEF Gets, FlightType
    <3> QED
      BY <3>1 DEF ConnStep
  <2> QED
    BY <1>2, <2>1, <2>2 DEF ConnStep, Over
<1> QED
  BY <1>3, <1>4

LEMMA ConnDelivers ==
    ASSUME FlightType, NEW x \in Conn, Delivers(x), NEW y \in Conn
    PROVE  ConnStep(y)
<1>1. PICK m \in Message :
              /\ out[x] # <<>> /\ out[x][1] = m /\ out' = [out EXCEPT ![x] = Tail(out[x])]
              /\ \/ x \in HostConn /\ AgentReads(x, m)
                 \/ /\ x \in Client
                    /\ known' = IF m.type = "Joined" THEN [known EXCEPT ![x] = @ \cup {m.sid}] ELSE known
                    /\ UNCHANGED <<link, pins>>
  BY DeliversOne
<1>2. gate' = gate
  BY DEF Delivers
<1>3. CASE y # x
  <2>1. known'[y] = known[y] /\ (y \in HostConn => link'[y] = link[y] /\ pins'[y] = pins[y])
    BY <1>1, <1>3 DEF AgentReads, FlightType
  <2> QED
    BY <1>1, <1>2, <1>3, <2>1 DEF FlightType, ConnStep, Idle
<1>4. CASE y = x /\ x \in Client
  <2>1. known'[x] = IF m.type = "Joined" THEN known[x] \cup {m.sid} ELSE known[x]
    BY <1>1, <1>4, OneRole DEF FlightType
  <2>2. out'[x] = Tail(out[x])
    BY <1>1 DEF FlightType
  <2>3. Hands(y, m)
    BY <1>1, <1>2, <1>4, <2>1, <2>2, OneRole DEF Hands
  <2> QED
    BY <2>3 DEF ConnStep
<1>5. CASE y = x /\ x \in HostConn
  <2>1. AgentReads(x, m)
    BY <1>1, <1>5, OneRole
  <2>2. \/ link[x] = "up" /\ link'[x] = "up"
           /\ known'[x] = IF m.type = "PeerJoined" THEN known[x] \cup {m.sid} ELSE known[x]
        \/ link[x] = "handshake" /\ m.type = "Registered" /\ link'[x] = "up" /\ known'[x] = known[x]
        \/ link[x] # "none" /\ link'[x] = "gone" /\ known'[x] \in {known[x], {}}
        \/ link[x] = "none"
    <3>1. CASE link[x] = "up"
      BY <1>5, <2>1, <3>1 DEF AgentReads, FlightType
    <3>2. CASE link[x] = "handshake"
      BY <1>5, <2>1, <3>2 DEF AgentReads, FlightType
    <3>3. CASE link[x] = "gone"
      BY <1>5, <2>1, <3>3 DEF AgentReads, FlightType
    <3> QED
      BY <1>5, <3>1, <3>2, <3>3 DEF FlightType
  <2>3. out'[x] = Tail(out[x])
    BY <1>1 DEF FlightType
  <2>5. pins'[x] = IF (link[x] = "handshake" /\ m.type = "Registered") \/ (link[x] = "up" /\ m.type = "PinChanged")
                   THEN Append(pins[x], m.pin) ELSE pins[x]
    BY <1>5, <2>1 DEF AgentReads, FlightType
  <2>4. Hands(y, m)
    BY <1>1, <1>2, <1>5, <2>2, <2>3, <2>5, OneRole DEF Hands
  <2> QED
    BY <2>4 DEF ConnStep
<1> QED
  BY <1>3, <1>4, <1>5 DEF Conn

LEMMA ConnSteps ==
    ASSUME HandlersInv, PartiesInv, [SigNext]_sigVars, NEW y \in Conn
    PROVE  ConnStep(y)
<1>1. CASE out' = out /\ gate' = gate /\ known' = known /\ link' = link /\ pins' = pins
  BY <1>1 DEF ConnStep, Idle
<1>2. ASSUME NEW z \in Conn, gate' = [gate EXCEPT ![z] = "dead"], out' = [out EXCEPT ![z] = <<>>],
             known' = known \/ known' = [known EXCEPT ![z] = {}], link' = link, pins' = pins
      PROVE  ConnStep(y)
  BY <1>2 DEF ConnStep, Idle, Over, PartiesInv, FlightType
<1>3. ASSUME NEW x \in HostConn, HostStep(x)
      PROVE  ConnStep(y)
  <2>1. CASE HostExits(x)
    BY <1>2, <2>1 DEF HostExits, Closes, agentVars, Conn
  <2> QED
    BY <1>1, <1>3, <2>1, ConnRegisters DEF HostStep, HostReceives, HostRelays, HostSaysBye, agentVars
<1>4. ASSUME NEW c \in Client, ClientStep(c)
      PROVE  ConnStep(y)
  <2>1. CASE ClientExits(c)
    BY <1>2, <2>1 DEF ClientExits, Closes, Conn
  <2> QED
    BY <1>1, <1>4, <2>1 DEF ClientStep, ClientConnectsDevice, ClientResolvesPin, ClientEnters, ClientIsRefused,
                            ClientRotates, ClientRelays, ClientSaysBye, agentVars
<1>5. CASE RotationStep \/ UNCHANGED sigVars
  BY <1>1, <1>5 DEF RotationStep, RotatorTicks, PinAges, sigVars, agentVars
<1>6. ASSUME NEW x \in Conn, WriterTimesOut(x)
      PROVE  ConnStep(y)
  BY <1>2, <1>6 DEF WriterTimesOut, agentVars
<1> QED
  BY <1>3, <1>4, <1>5, <1>6, ConnSends, ConnDelivers DEF SigNext, PartiesInv

-----------------------------------------------------------------------------
(* HeardBy in the next state, of a connection and a session of this one.    *)
HeardNext(y, s) ==
    \/ gate'[y] # "open" \/ s \in known'[y]
    \/ y \in HostConn /\ link'[y] = "gone"
    \/ \E i \in DOMAIN out'[y] :
          out'[y][i].type = (IF y \in Client THEN "Joined" ELSE "PeerJoined") /\ out'[y][i].sid = s

LEMMA HeardIsNext ==
    /\ \A c \in Client, s \in Sid : (Heard(c, s)' <=> HeardNext(c, s))
    /\ \A x \in HostConn, s \in Sid : (HeardOf(x, s)' <=> HeardNext(x, s))
BY OneRole DEF Heard, HeardOf, HeardNext

Told(y) == IF y \in Client THEN "Joined" ELSE "PeerJoined"

LEMMA HeardOrSo ==
    ASSUME NEW y \in Conn, NEW s, HeardBy(y, s)
    PROVE  \/ gate[y] # "open" \/ s \in known[y]
           \/ y \in HostConn /\ link[y] = "gone"
           \/ \E i \in DOMAIN out[y] : out[y][i].type = Told(y) /\ out[y][i].sid = s
BY DEF HeardBy, Heard, HeardOf, Told, Conn

(* What was heard stays heard.                                              *)
LEMMA HeardStays ==
    ASSUME HandlersInv, PartiesInv, [SigNext]_sigVars, NEW y \in Conn, NEW s \in Sid, HeardBy(y, s),
           y \in HostConn => regOf[y] # None
    PROVE  HeardNext(y, s)
<1>0. out[y] \in Seq(Message) /\ (y \in Client => y \notin HostConn)
  BY OneRole DEF PartiesInv, FlightType
<1>1. CASE gate[y] # "open"
  BY <1>1, GateStaysShut DEF HeardNext, PartiesInv
<1>2. CASE Over(y) \/ GivenUp(y)
  BY <1>2 DEF Over, GivenUp, HeardNext
<1>3. CASE Idle(y)
  BY <1>3, HeardOrSo, GateStaysShut DEF Idle, HeardNext, Told, PartiesInv
<1>4. ASSUME NEW m \in Message, Gets(y, m)
      PROVE  HeardNext(y, s)
  <2>1. out'[y] = Append(out[y], m) /\ known'[y] = known[y] /\ (y \in HostConn => link'[y] = link[y])
    BY <1>4 DEF Gets
  <2>2. \A i \in DOMAIN out[y] : i \in DOMAIN out'[y] /\ out'[y][i] = out[y][i]
    BY <1>0, <2>1
  <2> QED
    BY <1>1, <2>1, <2>2, HeardOrSo DEF HeardNext, Told
<1>5. ASSUME NEW m \in Message, Hands(y, m), gate[y] = "open"
      PROVE  HeardNext(y, s)
  <2>1. out[y] # <<>> /\ m = out[y][1] /\ out'[y] = Tail(out[y])
    BY <1>5 DEF Hands
  <2>2. \A i \in DOMAIN out[y] : i # 1 => i - 1 \in DOMAIN out'[y] /\ out'[y][i - 1] = out[y][i]
    BY <1>0, <2>1
  <2>3. CASE \E i \in DOMAIN out[y] : i # 1 /\ out[y][i].type = Told(y) /\ out[y][i].sid = s
    <3>1. PICK i \in DOMAIN out[y] : i # 1 /\ out[y][i].type = Told(y) /\ out[y][i].sid = s
      BY <2>3
    <3>2. i - 1 \in DOMAIN out'[y] /\ out'[y][i - 1].type = Told(y) /\ out'[y][i - 1].sid = s
      BY <2>2, <3>1
    <3> QED
      BY <3>2 DEF HeardNext, Told
  <2>4. CASE y \in HostConn /\ link[y] = "none"
    BY <2>4 DEF PartiesInv, Registrations
  <2>5. CASE s \in known[y] \/ (m.type = Told(y) /\ m.sid = s)
    <3>1. CASE y \in Client
      BY <1>5, <2>5, <3>1 DEF Hands, HeardNext, Told
    <3>2. CASE y \in HostConn
      <4>1. Told(y) = "PeerJoined"
        BY <1>0, <3>2 DEF Told
      <4> QED
        BY <1>5, <2>4, <2>5, <3>2, <4>1 DEF Hands, HeardNext
    <3> QED
      BY <3>1, <3>2 DEF Conn
  <2>6. CASE y \in HostConn /\ link[y] = "gone"
    BY <1>5, <2>6 DEF Hands, HeardNext
  <2> QED
    BY <1>5, <2>1, <2>3, <2>5, <2>6, HeardOrSo
<1> QED
  BY <1>1, <1>2, <1>3, <1>4, <1>5, ConnSteps DEF ConnStep, Opens

-----------------------------------------------------------------------------
(* InOrder, in either role, with its exceptions.                            *)
Ordered(y) ==
    gate[y] # "open" \/ (y \in HostConn /\ link[y] = "gone") \/ InOrder(y, Told(y))

LEMMA OrderedIsAnnouncedFirst == AnnouncedFirst <=> \A y \in Conn : Ordered(y)
BY OneRole DEF AnnouncedFirst, Ordered, Told, Conn

LEMMA InOrderBefore ==
    ASSUME NEW y \in Conn, NEW type, out[y] \in Seq(Message)
    PROVE  InOrder(y, type) <=>
              \A i \in DOMAIN out[y] : out[y][i].type \in {"Relay", "Bye"} =>
                  \/ out[y][i].sid \in known[y]
                  \/ \E j \in 1 .. i - 1 : out[y][j].type = type /\ out[y][j].sid = out[y][i].sid
BY DEF InOrder, AnnouncedBefore

InOrderNext(y, type) ==
    \A i \in DOMAIN out'[y] : out'[y][i].type \in {"Relay", "Bye"} =>
        \/ out'[y][i].sid \in known'[y]
        \/ \E j \in 1 .. i - 1 : out'[y][j].type = type /\ out'[y][j].sid = out'[y][i].sid

LEMMA OrderedNext ==
    ASSUME NEW y \in Conn,
           gate'[y] # "open" \/ (y \in HostConn /\ link'[y] = "gone") \/ InOrderNext(y, Told(y))
    PROVE  Ordered(y)'
BY DEF Ordered, Told, InOrder, AnnouncedBefore, InOrderNext

LEMMA OrderKept ==
    ASSUME HandlersInv, PartiesInv, TodoHeard, [SigNext]_sigVars, NEW y \in Conn, Ordered(y)
    PROVE  Ordered(y)'
<1>0. out[y] \in Seq(Message) /\ (y \in Client => y \notin HostConn)
  BY OneRole DEF PartiesInv, FlightType
<1>1. CASE gate[y] # "open" \/ Over(y) \/ GivenUp(y)
  BY <1>1, GateStaysShut, OrderedNext DEF Over, GivenUp, PartiesInv
<1>2. CASE Idle(y)
  <2>1. InOrder(y, Told(y)) => InOrderNext(y, Told(y))
    BY <1>0, <1>2, InOrderBefore DEF Idle, InOrderNext
  <2> QED
    BY <1>1, <1>2, <2>1, OrderedNext DEF Ordered, Idle
<1>3. CASE Opens(y)
  <2>1. ASSUME NEW i \in DOMAIN out[y]
        PROVE  FALSE
    BY <1>3 DEF Opens, PartiesInv, OutFits, Fits
  <2>2. InOrderNext(y, Told(y))
    BY <1>3, <2>1 DEF Opens, InOrderNext
  <2> QED
    BY <2>2, OrderedNext
<1>4. ASSUME NEW m \in Message, Gets(y, m), gate[y] = "open", ~(y \in HostConn /\ link[y] = "gone")
      PROVE  Ordered(y)'
  <2>1. out'[y] = Append(out[y], m) /\ known'[y] = known[y] /\ InOrder(y, Told(y))
    BY <1>4 DEF Gets, Ordered
  <2>2. m.type \in {"Relay", "Bye"} =>
          \/ m.sid \in known[y]
          \/ \E j \in DOMAIN out[y] : out[y][j].type = Told(y) /\ out[y][j].sid = m.sid
    <3>1. SUFFICES ASSUME m.type \in {"Relay", "Bye"}
                   PROVE  HeardBy(y, m.sid)
      BY <1>4, HeardOrSo
    <3>2. PICK a \in Actor : todo[a] # <<>> /\ todo[a][1] = Send(y, m)
      BY <1>4 DEF Gets
    <3>3. 1 \in DOMAIN todo[a]
      BY <3>2 DEF PartiesInv, FlightType
    <3> QED
      BY <3>1, <3>2, <3>3 DEF TodoHeard, Send
  <2>3. InOrderNext(y, Told(y))
    <3> SUFFICES ASSUME NEW i \in DOMAIN out'[y], out'[y][i].type \in {"Relay", "Bye"}
                 PROVE  \/ out'[y][i].sid \in known[y]
                        \/ \E j \in 1 .. i - 1 : out'[y][j].type = Told(y) /\ out'[y][j].sid = out'[y][i].sid
      BY <2>1 DEF InOrderNext
    <3>1. /\ DOMAIN out'[y] = 1 .. Len(out[y]) + 1 /\ DOMAIN out[y] = 1 .. Len(out[y]) /\ Len(out[y]) \in Nat
          /\ \A j \in 1 .. Len(out[y]) : out'[y][j] = out[y][j]
          /\ out'[y][Len(out[y]) + 1] = m
      BY <1>0, <2>1
    <3>2. CASE i = Len(out[y]) + 1
      BY <2>2, <3>1, <3>2
    <3>3. CASE i \in 1 .. Len(out[y])
      <4>1. \/ out[y][i].sid \in known[y]
            \/ \E j \in 1 .. i - 1 : out[y][j].type = Told(y) /\ out[y][j].sid = out[y][i].sid
        BY <1>0, <2>1, <3>1, <3>3, InOrderBefore
      <4>2. \A j \in 1 .. i - 1 : out'[y][j] = out[y][j]
        BY <3>1, <3>3
      <4>3. out'[y][i] = out[y][i]
        BY <3>1, <3>3
      <4> QED
        BY <4>1, <4>2, <4>3
    <3> QED
      BY <3>1, <3>2, <3>3
  <2> QED
    BY <2>3, OrderedNext
<1>5. ASSUME NEW m \in Message, Hands(y, m), InOrder(y, Told(y)), ~(y \in HostConn /\ link'[y] = "gone")
      PROVE  Ordered(y)'
  <2>1. out[y] # <<>> /\ m = out[y][1] /\ out'[y] = Tail(out[y])
    BY <1>5 DEF Hands
  <2>2. /\ DOMAIN out'[y] = 1 .. Len(out[y]) - 1 /\ DOMAIN out[y] = 1 .. Len(out[y]) /\ Len(out[y]) \in Nat
        /\ \A j \in DOMAIN out'[y] : out'[y][j] = out[y][j + 1]
    BY <1>0, <2>1
  <2>3. known[y] \subseteq known'[y] /\ (m.type = Told(y) => m.sid \in known'[y])
    <3>1. CASE y \in Client
      BY <1>5, <3>1 DEF Hands, Told
    <3>2. CASE y \in HostConn
      <4>1. Told(y) = "PeerJoined" /\ link[y] # "none"
        <5>1. 1 \in DOMAIN out[y]
          BY <1>0, <2>1
        <5> QED
          BY <1>0, <3>2, <5>1 DEF Told, PartiesInv, OutFits, Fits, Registrations
      <4> QED
        BY <1>5, <3>2, <4>1 DEF Hands
    <3> QED
      BY <3>1, <3>2 DEF Conn
  <2>4. InOrderNext(y, Told(y))
    <3> SUFFICES ASSUME NEW i \in DOMAIN out'[y], out'[y][i].type \in {"Relay", "Bye"},
                        out'[y][i].sid \notin known'[y]
                 PROVE  \E j \in 1 .. i - 1 : out'[y][j].type = Told(y) /\ out'[y][j].sid = out'[y][i].sid
      BY DEF InOrderNext
    <3>1. i + 1 \in DOMAIN out[y] /\ out'[y][i] = out[y][i + 1] /\ i \in Nat
      BY <2>2
    <3>2. PICK j \in 1 .. (i + 1) - 1 : out[y][j].type = Told(y) /\ out[y][j].sid = out'[y][i].sid
      BY <1>0, <1>5, <2>3, <3>1, InOrderBefore
    <3>3. j # 1
      BY <2>1, <2>3, <3>2
    <3>4. j - 1 \in 1 .. i - 1 /\ (j - 1) + 1 = j
      BY <3>1, <3>2, <3>3
    <3>5. i \in 1 .. Len(out[y]) - 1
      BY <2>2
    <3>6. j - 1 \in DOMAIN out'[y]
      BY <2>2, <3>4, <3>5
    <3>7. out'[y][j - 1] = out[y][j]
      BY <2>2, <3>4, <3>6
    <3> QED
      BY <3>2, <3>4, <3>7
  <2> QED
    BY <2>4, OrderedNext
<1>6. CASE gate[y] = "open" /\ y \in HostConn /\ link[y] = "gone"
  <2>1. Idle(y) \/ (\E m \in Message : Gets(y, m) \/ Hands(y, m)) => link'[y] = "gone"
    BY <1>6 DEF Idle, Gets, Hands
  <2> QED
    BY <1>1, <1>3, <2>1, ConnSteps, OrderedNext, <1>6 DEF ConnStep
<1> QED
  <2>1. ASSUME NEW m \in Message, Hands(y, m)
        PROVE  Ordered(y)'
    BY <1>1, <1>5, <1>6, <2>1, OrderedNext DEF Ordered
  <2>2. ASSUME NEW m \in Message, Gets(y, m)
        PROVE  Ordered(y)'
    BY <1>1, <1>4, <1>6, <2>2
  <2> QED
    BY <1>1, <1>2, <1>3, <2>1, <2>2, ConnSteps DEF ConnStep

-----------------------------------------------------------------------------
(* What a handler or the rotation task, with nothing left to send, may      *)
(* begin to send.                                                           *)
MayStart(a, sends) ==
    \A i \in DOMAIN sends :
        /\ sends[i].msg.type \in {"Relay", "Bye"} =>
              /\ sends[i].to \in Conn /\ sends[i].msg.sid \in Sid
              /\ sends[i].to \in HostConn => regOf[sends[i].to] # None
              /\ HeardBy(sends[i].to, sends[i].msg.sid)
        /\ sends[i].msg.type = "PeerJoined" =>
              /\ i = 2 /\ issued'[sends[i].msg.sid].client = a
              /\ sends[1] = Send(a, Msg("Joined", sends[i].msg.sid, None))
        /\ sends[i].msg.type = "Registered" =>
              /\ a \in HostConn /\ sends[i].to = a /\ Len(sends) = 1
              /\ regOf[a] = None /\ link'[a] = "handshake"

Starts(a) == todo[a] = <<>> /\ \E sends : todo' = [todo EXCEPT ![a] = sends] /\ MayStart(a, sends)

TodoStep == todo' = todo \/ \E a \in Actor : Sends(a) \/ Starts(a)

LEMMA ForwardStarts ==
    ASSUME NEW a \in Conn, NEW peer \in Conn \cup {None}, NEW m \in Message, todo[a] = <<>>,
           Forward(a, peer, m), m.type # "PeerJoined", m.sid \in Sid,
           peer # None => HeardBy(peer, m.sid) /\ (peer \in HostConn => regOf[peer] # None)
    PROVE  TodoStep
<1> DEFINE sends == IF peer = None THEN <<>> ELSE <<Send(peer, m)>>
<1>1. todo' = [todo EXCEPT ![a] = sends]
  BY DEF Forward, Todo
<1>2. MayStart(a, sends)
  <2>1. CASE peer = None
    BY <2>1 DEF MayStart
  <2>2. CASE peer # None
    <3>1. sends = <<Send(peer, m)>> /\ DOMAIN sends = {1} /\ sends[1].to = peer /\ sends[1].msg = m
      BY <2>2 DEF Send
    <3>2. m.type # "Registered"
      BY NoneIsNoValue DEF Message, PinMessage, SidMessage
    <3> HIDE DEF sends
    <3> QED
      BY <2>2, <3>1, <3>2 DEF MayStart
  <2> QED
    BY <2>1, <2>2
<1> HIDE DEF sends
<1>3. Starts(a)
  BY <1>1, <1>2 DEF Starts
<1> QED
  BY <1>3 DEF TodoStep, Actor

LEMMA AnnounceStarts ==
    ASSUME NEW c \in Client, NEW s \in Sid, NEW x \in HostConn, NEW pin \in Pin \cup {None}, Announce(c, s, x, pin),
           todo[c] = <<>>, issued'[s].client = c
    PROVE  TodoStep
<1> DEFINE sends == <<Send(c, Msg("Joined", s, None)), Send(x, Msg("PeerJoined", s, None))>>
                    \o (IF pin = None THEN <<>> ELSE <<Send(x, Msg("PinChanged", None, pin))>>)
<1>1. todo' = [todo EXCEPT ![c] = sends]
  BY DEF Announce, Todo
<1>2. /\ sends[1] = Send(c, Msg("Joined", s, None)) /\ sends[2] = Send(x, Msg("PeerJoined", s, None))
      /\ \A i \in DOMAIN sends : i \in {1, 2} \/ sends[i] = Send(x, Msg("PinChanged", None, pin))
  <2>1. CASE pin = None
    BY <2>1
  <2>2. CASE pin # None
    BY <2>2
  <2> QED
    BY <2>1, <2>2
<1> HIDE DEF sends
<1>3. MayStart(c, sends)
  BY <1>2 DEF MayStart, Send, Msg
<1>4. Starts(c)
  BY <1>1, <1>3 DEF Starts
<1> QED
  BY <1>4 DEF TodoStep, Actor, Conn

LEMMA TodoHosts ==
    ASSUME HandlersInv, PartiesInv, OrderInv, NEW x \in HostConn, HostStep(x)
    PROVE  TodoStep
<1>1. ASSUME NEW h \in Host, NEW claimed \in Sid \cup {None}, NEW pin \in Pin,
             HostRegisters(x, h, claimed, pin)
      PROVE  TodoStep
  <2> DEFINE sends == <<Send(x, Msg("Registered", None, pin))>>
  <2>1. todo' = [todo EXCEPT ![x] = sends] /\ todo[x] = <<>>
    BY <1>1 DEF HostRegisters, Todo, OrderInv, OneThing
  <2>2. sends[1].msg.type = "Registered" /\ sends[1].to = x /\ DOMAIN sends = {1} /\ Len(sends) = 1
    BY DEF Send, Msg
  <2> HIDE DEF sends
  <2>3. regOf[x] = None /\ link'[x] = "handshake"
    BY <1>1 DEF HostRegisters, PartiesInv, Registrations
  <2>4. MayStart(x, sends)
    BY <2>2, <2>3 DEF MayStart
  <2> QED
    BY <2>1, <2>4 DEF TodoStep, Starts, Actor, Conn
<1>2. CASE todo' = todo
  BY <1>2 DEF TodoStep
<1>3. ASSUME cur[x] # None, Forward(x, PeerTxForHost(regOf[x], cur[x].sid), cur[x])
      PROVE  TodoStep
  <2>1. cur[x] \in Message /\ cur[x].sid \in Sid /\ cur[x].type # "PeerJoined"
    BY <1>3 DEF HandlersInv, HandlersType, Received, Msg, Message, PinMessage, SidMessage
  <2> DEFINE s == cur[x].sid
             peer == PeerTxForHost(regOf[x], s)
  <2>2. ASSUME peer # None
        PROVE  peer \in Client /\ HeardBy(peer, s)
    <3>1. Live(s) /\ sessions[s] \in SessionEntry /\ peer = sessions[s].client
      BY <1>3, <2>1, <2>2, PeerOfHost DEF HandlersInv, ServesItsHost
    <3>2. issued[s] = [host |-> sessions[s].host, client |-> sessions[s].client]
      BY <2>1, <3>1 DEF PartiesInv, SessionsIssued
    <3>3. Heard(issued[s].client, s)
      BY <1>3 DEF OrderInv, HostsHearLater
    <3> HIDE DEF s, peer
    <3> QED
      BY <3>1, <3>2, <3>3 DEF HeardBy, SessionEntry
  <2> HIDE DEF peer
  <2>3. peer \in Conn \cup {None} /\ (peer # None => peer \notin HostConn)
    BY <2>2, OneRole DEF Conn
  <2>4. todo[x] = <<>>
    BY <1>3 DEF OrderInv, OneThing
  <2>5. Forward(x, peer, cur[x])
    BY <1>3 DEF peer
  <2> HIDE DEF s
  <2> QED
    BY <2>1, <2>2, <2>3, <2>4, <2>5, ForwardStarts DEF Conn, s
<1> QED
  BY <1>1, <1>2, <1>3 DEF HostStep, HostReceives, HostRelays, HostSaysBye, HostExits

LEMMA TodoClients ==
    ASSUME HandlersInv, PartiesInv, OrderInv, SessionBacked, NEW c \in Client, ClientStep(c)
    PROVE  TodoStep
<1>0. FlightType /\ SessionsIssued /\ Registrations /\ TypeOK
  BY DEF PartiesInv, HandlersInv
<1>1. ASSUME NEW h \in Host, NEW s \in Sid, ClientConnectsDevice(c, h, s)
      PROVE  TodoStep
  <2>1. Enter(h, c, s) /\ Issue(c, s, h) /\ Announce(c, s, hosts[h].tx, None) /\ regOf' = regOf /\ todo[c] = <<>>
    BY <1>1 DEF ClientConnectsDevice, JoinByHostId, ClientReading, Reading
  <2>2. hosts[h].tx \in HostConn
    BY <1>0, <2>1, IssuedSessions
  <2>3. issued'[s] = [host |-> h, client |-> c]
    BY <1>0, <2>1, IssuesLast
  <2> QED
    BY <2>1, <2>2, <2>3, AnnounceStarts
<1>2. CASE todo' = todo
  BY <1>2 DEF TodoStep
<1>3. ASSUME NEW pin \in Pin, ClientRotates(c, pin)
      PROVE  TodoStep
  <2>1. joining[c].step = "entered" /\ issued' = issued
        /\ Announce(c, joining[c].sid, joining[c].tx, IF RotatesOnJoin(c) THEN pin ELSE None)
    BY <1>3 DEF ClientRotates, JoinRotate
  <2>2. joining[c].tx \in HostConn /\ joining[c].sid \in Sid /\ joining[c].host \in Host
    BY <1>0, <2>1, JoiningTypes
  <2>3. issued'[joining[c].sid] = [host |-> joining[c].host, client |-> c]
    BY <1>0, <2>1 DEF SessionsIssued
  <2>4. (IF RotatesOnJoin(c) THEN pin ELSE None) \in Pin \cup {None}
    OBVIOUS
  <2>5. todo[c] = <<>>
    BY <2>1 DEF OrderInv, OneThing, NotJoining
  <2> QED
    BY <2>1, <2>2, <2>3, <2>4, <2>5, AnnounceStarts
<1>4. ASSUME NEW s \in Sid, Live(s), sessions[s].client = c, todo[c] = <<>>, joining[c] = NotJoining
      PROVE  sessions[s].hostTx \in HostConn /\ HeardBy(sessions[s].hostTx, s) /\ regOf[sessions[s].hostTx] # None
  <2>1. sessions[s] \in SessionEntry /\ regOf[sessions[s].hostTx] = sessions[s].host
    BY <1>4, HostEnd
  <2>2. Announced(s)
    BY <1>4 DEF OrderInv
  <2>3. HeardOf(sessions[s].hostTx, s)
    BY <1>4, <2>2 DEF Announced, NotJoining
  <2> QED
    BY <2>1, <2>3, OneRole, NoneIsNoValue DEF HeardBy, SessionEntry
<1>5. ASSUME NEW s \in Sid, ClientRelays(c, s)
      PROVE  TodoStep
  <2> DEFINE peer == PeerTxForClient(s, c)
             m == Msg("Relay", s, None)
  <2>1. m \in Message /\ m.sid = s /\ m.type # "PeerJoined"
    BY DEF Msg, Message, PinMessage, SidMessage
  <2>2. todo[c] = <<>> /\ joining[c] = NotJoining /\ Forward(c, peer, m)
    BY <1>5 DEF ClientRelays, ClientReading, Reading
  <2>3. ASSUME peer # None
        PROVE  peer \in HostConn /\ HeardBy(peer, s) /\ regOf[peer] # None
    <3>1. Live(s) /\ sessions[s].client = c /\ peer = sessions[s].hostTx
      BY <1>0, <2>3, PeerOfClient
    <3> QED
      BY <1>4, <2>2, <3>1
  <2>4. peer \in Conn \cup {None}
    BY <2>3 DEF Conn
  <2> HIDE DEF peer, m
  <2> QED
    BY <2>1, <2>2, <2>3, <2>4, ForwardStarts DEF Conn
<1>6. ASSUME NEW s \in Sid, ClientSaysBye(c, s)
      PROVE  TodoStep
  <2> DEFINE x == sessions[s].hostTx
             m == Msg("Bye", s, None)
  <2>1. m \in Message /\ m.sid = s /\ m.type # "PeerJoined"
    BY DEF Msg, Message, PinMessage, SidMessage
  <2>2. Live(s) /\ sessions[s].client = c
    BY <1>0, <1>6, NoneIsNoValue DEF ClientSaysBye, CloseByClient, Live, TypeOK, SessionEntry, NoSession
  <2>3. todo[c] = <<>> /\ joining[c] = NotJoining /\ Todo(c, <<Send(x, m)>>)
    BY <1>6 DEF ClientSaysBye, ClientReading, Reading
  <2>4. x \in HostConn /\ HeardBy(x, s) /\ regOf[x] # None
    BY <1>4, <2>2, <2>3
  <2>5. Forward(c, x, m)
    BY <2>3, <2>4, NoneIsNoValue DEF Forward
  <2> HIDE DEF x, m
  <2> QED
    BY <2>1, <2>3, <2>4, <2>5, ForwardStarts DEF Conn
<1> QED
  BY <1>1, <1>2, <1>3, <1>5, <1>6 DEF ClientStep, ClientResolvesPin, ClientEnters, ClientIsRefused, ClientExits

LEMMA TodoRotation ==
    ASSUME RotationStep
    PROVE  TodoStep
<1>1. ASSUME NEW new \in [Expired -> Pin], NEW order \in Bijection(1 .. Cardinality(Expired), Expired),
             RotatorTicks(new, order)
      PROVE  TodoStep
  <2>1. todo' = [todo EXCEPT ![Rotator] = PinSends(new, order)] /\ todo[Rotator] = <<>>
    BY <1>1 DEF RotatorTicks, Todo, PinSends
  <2>2. MayStart(Rotator, PinSends(new, order))
    BY DEF MayStart, PinSends, Send, Msg
  <2> QED
    BY <2>1, <2>2 DEF TodoStep, Starts, Actor
<1>2. CASE todo' = todo
  BY <1>2 DEF TodoStep
<1> QED
  BY <1>1, <1>2 DEF RotationStep, PinAges

LEMMA TodoSteps ==
    ASSUME HandlersInv, PartiesInv, OrderInv, SessionBacked, [SigNext]_sigVars
    PROVE  TodoStep
<1>1. CASE todo' = todo \/ \E a \in Actor : Sends(a)
  BY <1>1 DEF TodoStep
<1>2. \/ todo' = todo \/ RotationStep \/ \E a \in Actor : Sends(a)
      \/ \E x \in HostConn : HostStep(x)
      \/ \E c \in Client : ClientStep(c)
  BY DEF SigNext, Delivers, WriterTimesOut, sigVars
<1> QED
  BY <1>1, <1>2, TodoHosts, TodoClients, TodoRotation

-----------------------------------------------------------------------------
LEMMA OneThingStep ==
    ASSUME HandlersInv, PartiesInv, OneThing, TodoStep, [SigNext]_sigVars
    PROVE  OneThing'
<1>1. ASSUME NEW c \in Client, joining'[c] # NotJoining
      PROVE  todo'[c] = <<>>
  <2>1. CASE \E a \in Actor : Sends(a)
    <3>1. PICK a \in Actor : Sends(a)
      BY <2>1
    <3>2. joining' = joining /\ todo[a] # <<>> /\ todo' = [todo EXCEPT ![a] = Tail(todo[a])]
      BY <3>1 DEF Sends, regVars, Todo
    <3>3. todo[c] = <<>> /\ c # a
      BY <1>1, <3>2 DEF OneThing
    <3> QED
      BY <3>2, <3>3 DEF PartiesInv, FlightType, Actor, Conn
  <2>2. CASE todo' = todo /\ joining' = joining
    BY <1>1, <2>2 DEF OneThing
  <2>3. ASSUME NEW d \in Client, ClientStep(d)
        PROVE  todo'[c] = <<>>
    <3>1. CASE c # d
      <4>1. joining'[c] = joining[c]
        BY <2>3, <3>1 DEF ClientStep, ClientConnectsDevice, JoinByHostId, ClientResolvesPin, JoinResolve,
              ClientEnters, JoinEnter, ClientIsRefused, JoinRefused, ClientRotates, JoinRotate, ClientRelays,
              ClientSaysBye, CloseByClient, ClientExits, DisconnectClient, EndSessions, regVars, HandlersInv, TypeOK
      <4>2. todo'[c] = todo[c]
        BY <2>3, <3>1 DEF ClientStep, ClientConnectsDevice, ClientResolvesPin, ClientEnters, ClientIsRefused,
              ClientRotates, ClientRelays, ClientSaysBye, ClientExits, Announce, Forward, Todo, PartiesInv,
              FlightType, Actor, Conn
      <4> QED
        BY <1>1, <4>1, <4>2 DEF OneThing
    <3>2. CASE c = d
      <4>1. CASE joining[c] # NotJoining /\ todo' = todo
        BY <4>1 DEF OneThing
      <4>2. CASE joining' = joining
        <5>1. joining[c] # NotJoining
          BY <1>1, <4>2
        <5>2. todo' = todo \/ joining[c] = NotJoining \/ \E pin \in Pin : ClientRotates(c, pin)
          BY <2>3, <3>2 DEF ClientStep, ClientConnectsDevice, JoinByHostId, ClientResolvesPin, ClientEnters,
                ClientIsRefused, ClientRelays, ClientSaysBye, ClientExits, ClientReading
        <5>3. ~ \E pin \in Pin : ClientRotates(c, pin)
          BY <4>2, <5>1 DEF ClientRotates, JoinRotate, HandlersInv, TypeOK
        <5> QED
          BY <4>1, <5>1, <5>2, <5>3
      <4>3. ASSUME NEW pin \in Pin, NEW h \in Host, ClientResolvesPin(c, pin, h)
            PROVE  todo'[c] = <<>>
        BY <4>3 DEF ClientResolvesPin, ClientReading, Reading
      <4>4. ASSUME NEW s \in Sid, ClientEnters(c, s)
            PROVE  todo'[c] = <<>>
        <5>1. joining[c] # NotJoining /\ todo' = todo
          BY <4>4 DEF ClientEnters, JoinEnter, NotJoining
        <5> QED
          BY <4>1, <5>1
      <4>5. CASE ClientIsRefused(c) \/ \E pin \in Pin : ClientRotates(c, pin)
        BY <1>1, <4>5 DEF ClientIsRefused, JoinRefused, ClientRotates, JoinRotate, HandlersInv, TypeOK
      <4>6. \/ joining' = joining \/ ClientIsRefused(c)
            \/ \E pin \in Pin : ClientRotates(c, pin)
            \/ \E s \in Sid : ClientEnters(c, s)
            \/ \E pin \in Pin, h \in Host : ClientResolvesPin(c, pin, h)
        <5>1. ASSUME NEW h \in Host, NEW s \in Sid, ClientConnectsDevice(c, h, s) PROVE joining' = joining
          BY <5>1 DEF ClientConnectsDevice, JoinByHostId
        <5>2. ASSUME NEW s \in Sid, ClientRelays(c, s) \/ ClientSaysBye(c, s) PROVE joining' = joining
          BY <5>2 DEF ClientRelays, ClientSaysBye, CloseByClient, EndSessions, regVars
        <5>3. ClientExits(c) => joining' = joining
          BY DEF ClientExits, DisconnectClient, EndSessions
        <5> QED
          BY <2>3, <3>2, <5>1, <5>2, <5>3 DEF ClientStep
      <4> QED
        BY <4>2, <4>3, <4>4, <4>5, <4>6
    <3> QED
      BY <3>1, <3>2
  <2>4. ASSUME NEW x \in HostConn, HostStep(x)
        PROVE  todo'[c] = <<>>
    <3>1. joining' = joining
      BY <2>4 DEF HostStep, HostRegisters, RegisterHost, HostReceives, HostRelays, HostSaysBye, CloseByHost,
                  HostExits, UnregisterHost, regVars
    <3>2. todo' = todo \/ \E sends : todo' = [todo EXCEPT ![x] = sends]
      BY <2>4 DEF HostStep, HostRegisters, HostReceives, HostRelays, HostSaysBye, HostExits, Forward, Todo
    <3>3. todo'[c] = todo[c]
      BY <3>2, OneRole DEF PartiesInv, FlightType, Actor, Conn
    <3> QED
      BY <1>1, <3>1, <3>3 DEF OneThing
  <2>5. CASE RotationStep
    <3>1. joining' = joining /\ (todo' = todo \/ \E sends : todo' = [todo EXCEPT ![Rotator] = sends])
      BY <2>5 DEF RotationStep, RotatorTicks, RotateExpiredPins, PinAges, PinExpires, Todo
    <3>2. todo'[c] = todo[c]
      BY <3>1, OneRole DEF PartiesInv, FlightType, Actor, Conn
    <3> QED
      BY <1>1, <3>1, <3>2 DEF OneThing
  <2>6. CASE UNCHANGED sigVars \/ \E x \in Conn : Delivers(x) \/ WriterTimesOut(x)
    BY <2>2, <2>6 DEF Delivers, WriterTimesOut, sigVars, regVars
  <2> QED
    BY <2>1, <2>3, <2>4, <2>5, <2>6 DEF SigNext
<1>2. ASSUME NEW x \in HostConn, cur'[x] # None \/ phase'[x] = "new"
      PROVE  todo'[x] = <<>>
  <2>1. ASSUME cur'[x] = cur[x], phase'[x] = "new" => phase[x] = "new", todo'[x] = todo[x]
        PROVE  todo'[x] = <<>>
    BY <1>2, <2>1 DEF OneThing
  <2>2. CASE \E a \in Actor : Sends(a)
    <3>1. PICK a \in Actor : Sends(a)
      BY <2>2
    <3>2. cur' = cur /\ phase' = phase /\ todo[a] # <<>> /\ todo' = [todo EXCEPT ![a] = Tail(todo[a])]
      BY <3>1 DEF Sends, connVars, Todo
    <3>3. todo[x] = <<>> /\ x # a
      BY <1>2, <3>2 DEF OneThing
    <3> QED
      BY <3>2, <3>3 DEF PartiesInv, FlightType, Actor, Conn
  <2>3. CASE UNCHANGED sigVars \/ \E y \in Conn : Delivers(y) \/ WriterTimesOut(y)
    BY <2>1, <2>3 DEF Delivers, WriterTimesOut, sigVars, connVars
  <2>4. CASE RotationStep
    <3>1. cur' = cur /\ phase' = phase /\ (todo' = todo \/ \E sends : todo' = [todo EXCEPT ![Rotator] = sends])
      BY <2>4 DEF RotationStep, RotatorTicks, PinAges, Todo, connVars
    <3> QED
      BY <2>1, <3>1, OneRole DEF PartiesInv, FlightType, Actor, Conn
  <2>5. ASSUME NEW c \in Client, ClientStep(c)
        PROVE  todo'[x] = <<>>
    <3>1. /\ cur' = cur /\ (phase' = phase \/ phase' = [phase EXCEPT ![c] = "closed"])
          /\ (todo' = todo \/ \E sends : todo' = [todo EXCEPT ![c] = sends])
      BY <2>5 DEF ClientStep, ClientConnectsDevice, ClientResolvesPin, ClientEnters, ClientIsRefused, ClientRotates,
                  ClientRelays, ClientSaysBye, ClientExits, Closes, Announce, Forward, Todo, connVars
    <3>2. x \in Conn /\ c # x
      BY OneRole DEF Conn
    <3>3. phase'[x] = phase[x] /\ todo'[x] = todo[x]
      BY <3>1, <3>2 DEF PartiesInv, FlightType, Actor, HandlersInv, HandlersType
    <3> QED
      BY <2>1, <3>1, <3>3
  <2>6. ASSUME NEW y \in HostConn, HostStep(y)
        PROVE  todo'[x] = <<>>
    <3>1. CASE x # y
      <4>1. cur'[x] = cur[x] /\ phase'[x] = phase[x]
        BY <2>6, <3>1 DEF HostStep, HostRegisters, HostReceives, HostRelays, HostSaysBye, HostExits, Closes,
              HandlersInv, HandlersType, Conn
      <4>2. todo' = todo \/ \E sends : todo' = [todo EXCEPT ![y] = sends]
        BY <2>6 DEF HostStep, HostRegisters, HostReceives, HostRelays, HostSaysBye, HostExits, Forward, Todo
      <4>3. todo'[x] = todo[x]
        BY <3>1, <4>2 DEF PartiesInv, FlightType, Actor, Conn
      <4> QED
        BY <2>1, <4>1, <4>3
    <3>2. CASE x = y
      <4>1. ASSUME NEW h \in Host, NEW claimed \in Sid \cup {None}, NEW pin \in Pin, HostRegisters(x, h, claimed, pin)
            PROVE  FALSE
        <5>1. cur' = cur /\ phase'[x] = "serving" /\ regOf[x] = None
          BY <4>1 DEF HostRegisters, HandlersInv, HandlersType, Conn, PartiesInv, Registrations
        <5>2. cur[x] = None
          BY <5>1, NoneIsNoValue DEF HandlersInv, ServesItsHost
        <5> QED
          BY <1>2, <5>1, <5>2
      <4>2. ASSUME NEW m, HostReceives(x, m)
            PROVE  todo'[x] = <<>>
        BY <4>2 DEF HostReceives, HostReading, Reading
      <4>3. CASE HostRelays(x) \/ HostSaysBye(x)
        <5>1. cur'[x] = None /\ cur[x] # None /\ phase' = phase
          BY <4>3 DEF HostRelays, HostSaysBye, HandlersInv, HandlersType
        <5>2. phase[x] # "new"
          BY <5>1, NoneIsNoValue DEF HandlersInv, ServesItsHost, PartiesInv, Registrations
        <5> QED
          BY <1>2, <5>1, <5>2
      <4>4. CASE HostExits(x)
        BY <4>4 DEF HostExits, HostReading, Reading
      <4> QED
        BY <2>6, <3>2, <4>1, <4>2, <4>3, <4>4 DEF HostStep
    <3> QED
      BY <3>1, <3>2
  <2> QED
    BY <2>2, <2>3, <2>4, <2>5, <2>6 DEF SigNext
<1> QED
  BY <1>1, <1>2 DEF OneThing

-----------------------------------------------------------------------------
LEMMA StillHeard ==
    ASSUME HandlersInv, PartiesInv, [SigNext]_sigVars, NEW c \in Client, NEW s \in Sid, Heard(c, s)
    PROVE  HeardNext(c, s)
<1>1. HeardBy(c, s) /\ c \in Conn /\ c \notin HostConn
  BY OneRole DEF HeardBy, Conn
<1> QED
  BY <1>1, HeardStays

LEMMA TodoHeardStep ==
    ASSUME HandlersInv, PartiesInv, OrderInv, TodoStep, [SigNext]_sigVars
    PROVE  TodoHeard'
<1>1. ASSUME NEW b \in Actor, NEW i \in DOMAIN todo[b], todo[b][i].msg.type \in {"Relay", "Bye"}
      PROVE  todo[b][i].to \in Conn /\ HeardNext(todo[b][i].to, todo[b][i].msg.sid)
  <2>1. todo[b][i] \in Sending
    BY DEF PartiesInv, FlightType
  <2>2. todo[b][i].to \in Conn /\ todo[b][i].msg.sid \in Sid
    BY <1>1, <2>1 DEF Sending, Message, PinMessage, SidMessage
  <2>3. HeardBy(todo[b][i].to, todo[b][i].msg.sid)
    BY <1>1 DEF OrderInv, TodoHeard
  <2>4. todo[b][i].to \in HostConn => regOf[todo[b][i].to] # None
    BY DEF PartiesInv, TodoFits, Fits
  <2> QED
    BY <2>2, <2>3, <2>4, HeardStays
<1>2. ASSUME NEW b \in Actor, NEW i \in DOMAIN todo'[b], todo'[b][i].msg.type \in {"Relay", "Bye"}
      PROVE  todo'[b][i].to \in Conn /\ HeardNext(todo'[b][i].to, todo'[b][i].msg.sid)
  <2>1. CASE todo'[b] = todo[b]
    BY <1>1, <1>2, <2>1
  <2>2. CASE Sends(b)
    <3>1. todo[b] \in Seq(Sending) /\ todo[b] # <<>> /\ todo'[b] = Tail(todo[b])
      BY <2>2 DEF Sends, Todo, PartiesInv, FlightType
    <3>2. i + 1 \in DOMAIN todo[b] /\ todo'[b][i] = todo[b][i + 1]
      BY <3>1
    <3> QED
      BY <1>1, <1>2, <3>2
  <2>3. CASE Starts(b)
    <3>1. MayStart(b, todo'[b])
      BY <2>3 DEF Starts, PartiesInv, FlightType
    <3>2. /\ todo'[b][i].to \in Conn /\ todo'[b][i].msg.sid \in Sid
          /\ todo'[b][i].to \in HostConn => regOf[todo'[b][i].to] # None
          /\ HeardBy(todo'[b][i].to, todo'[b][i].msg.sid)
      BY <1>2, <3>1 DEF MayStart
    <3> QED
      BY <3>2, HeardStays
  <2>4. todo'[b] = todo[b] \/ Sends(b) \/ Starts(b)
    BY DEF TodoStep, Sends, Starts, Todo, PartiesInv, FlightType
  <2> QED
    BY <2>1, <2>2, <2>3, <2>4
<1> QED
  BY <1>2, OneRole DEF TodoHeard, HeardBy, Heard, HeardOf, HeardNext, Conn

LEMMA IssuedTyped ==
    ASSUME FlightType, NEW s \in Sid, issued[s] # NotIssued
    PROVE  issued[s].client \in Client /\ issued[s].host \in Host
BY DEF FlightType, Parties

(* The session x's agent reads of next, or claims, is one its client knows. *)
LEMMA KnownStep ==
    ASSUME HandlersInv, PartiesInv, OrderInv, Lasting, [SigNext]_sigVars,
           NEW x \in HostConn, NEW s \in Sid, s \in known'[x]
    PROVE  issued[s] # NotIssued /\ issued[s].host = regOf'[x] /\ Heard(issued[s].client, s)
<1>0. x \in Conn /\ x \notin Client
  BY OneRole DEF Conn
<1>1. CASE s \in known[x] /\ regOf[x] # None
  BY <1>1 DEF Lasting, OrderInv, HostsHearLater
<1>2. CASE s \in known[x] /\ regOf[x] = None
  BY <1>2, NoneIsNoValue, IssuedTyped DEF OrderInv, HostsHearLater, PartiesInv
<1>3. CASE s \notin known[x]
  <2>1. CASE Opens(x)
    <3>1. PICK h \in Host, claimed \in Sid \cup {None}, pin \in Pin : HostRegisters(x, h, claimed, pin)
      BY <2>1 DEF Opens
    <3>2. known'[x] = {claimed} \ {None} /\ regOf'[x] = h
      BY <1>0, <3>1 DEF HostRegisters, HandlersInv, HandlersType
    <3>3. claimed = s
      BY <3>2
    <3>4. PICK y \in HostConn : regOf[y] = h /\ s \in known[y]
      BY <3>1, <3>3, NoneIsNoValue DEF HostRegisters
    <3> QED
      BY <3>2, <3>4 DEF OrderInv, HostsHearLater
  <2>2. ASSUME NEW m \in Message, Hands(x, m)
        PROVE  issued[s] # NotIssued /\ issued[s].host = regOf'[x] /\ Heard(issued[s].client, s)
    <3>1. 1 \in DOMAIN out[x] /\ m = out[x][1]
      BY <1>0, <2>2 DEF Hands, PartiesInv, FlightType
    <3>2. Fits(x, m)
      BY <1>0, <3>1 DEF PartiesInv, OutFits
    <3>3. link[x] # "none" /\ regOf[x] # None
      BY <3>2 DEF Fits, PartiesInv, Registrations
    <3>4. m.type = "PeerJoined" /\ m.sid = s
      BY <1>0, <1>3, <2>2, <3>3 DEF Hands
    <3>5. Heard(issued[s].client, s)
      BY <3>1, <3>4 DEF OrderInv, HostsHearLater
    <3> QED
      BY <3>2, <3>3, <3>4, <3>5, NoneIsNoValue DEF Fits, Lasting
  <2>3. ~Idle(x) /\ ~Over(x) /\ ~GivenUp(x) /\ ~ \E m \in Message : Gets(x, m)
    BY <1>3 DEF Idle, Over, GivenUp, Gets
  <2> QED
    BY <1>0, <2>1, <2>2, <2>3, ConnSteps DEF ConnStep
<1> QED
  BY <1>1, <1>2, <1>3

(* What is queued next was queued already, or had just been sent.           *)
LEMMA QueuedStep ==
    ASSUME HandlersInv, PartiesInv, [SigNext]_sigVars, NEW y \in Conn, NEW i \in DOMAIN out'[y]
    PROVE  \/ \E j \in DOMAIN out[y] : out'[y][i] = out[y][j]
           \/ \E a \in Actor : /\ todo[a] # <<>> /\ 1 \in DOMAIN todo[a]
                               /\ todo[a][1] = Send(y, out'[y][i]) /\ todo'[a] = Tail(todo[a])
<1>0. out[y] \in Seq(Message)
  BY DEF PartiesInv, FlightType
<1>1. CASE out'[y] \in {out[y], <<>>}
  BY <1>1
<1>2. ASSUME NEW m \in Message, Gets(y, m)
      PROVE  \/ \E j \in DOMAIN out[y] : out'[y][i] = out[y][j]
             \/ \E a \in Actor : /\ todo[a] # <<>> /\ 1 \in DOMAIN todo[a]
                               /\ todo[a][1] = Send(y, out'[y][i]) /\ todo'[a] = Tail(todo[a])
  <2>1. /\ DOMAIN out'[y] = 1 .. Len(out[y]) + 1 /\ DOMAIN out[y] = 1 .. Len(out[y]) /\ Len(out[y]) \in Nat
        /\ \A j \in 1 .. Len(out[y]) : out'[y][j] = out[y][j]
        /\ out'[y][Len(out[y]) + 1] = m
    BY <1>0, <1>2 DEF Gets
  <2>2. PICK a \in Actor : todo[a] # <<>> /\ todo[a][1] = Send(y, m) /\ todo'[a] = Tail(todo[a])
    BY <1>2 DEF Gets
  <2>3. 1 \in DOMAIN todo[a]
    BY <2>2 DEF PartiesInv, FlightType
  <2>4. i \in DOMAIN out[y] \/ out'[y][i] = m
    BY <2>1
  <2> QED
    BY <2>1, <2>2, <2>3, <2>4
<1>3. ASSUME NEW m \in Message, Hands(y, m)
      PROVE  \E j \in DOMAIN out[y] : out'[y][i] = out[y][j]
  <2>1. out[y] # <<>> /\ out'[y] = Tail(out[y])
    BY <1>3 DEF Hands
  <2>2. i + 1 \in DOMAIN out[y] /\ out'[y][i] = out[y][i + 1]
    BY <1>0, <2>1
  <2> QED
    BY <2>2
<1> QED
  BY <1>1, <1>2, <1>3, ConnSteps DEF ConnStep, Idle, Over, GivenUp, Opens

LEMMA HostsHearLaterStep ==
    ASSUME HandlersInv, PartiesInv, OrderInv, Lasting, TodoStep, [SigNext]_sigVars
    PROVE  HostsHearLater'
<1>0. ASSUME NEW s \in Sid, issued[s] # NotIssued, Heard(issued[s].client, s)
      PROVE  issued'[s] = issued[s] /\ issued[s].client \in Client /\ HeardNext(issued[s].client, s)
  BY <1>0, IssuedTyped, StillHeard DEF PartiesInv, Lasting
<1>1. ASSUME NEW x \in HostConn, NEW s \in Sid, s \in known'[x]
      PROVE  /\ issued'[s] # NotIssued /\ issued'[s].host = regOf'[x]
             /\ issued'[s].client \in Client /\ HeardNext(issued'[s].client, s)
  BY <1>0, <1>1, KnownStep
<1>2. ASSUME NEW x \in HostConn, cur'[x] # None
      PROVE  /\ cur'[x].sid \in Sid /\ issued'[cur'[x].sid] # NotIssued
             /\ issued'[cur'[x].sid].client \in Client /\ HeardNext(issued'[cur'[x].sid].client, cur'[x].sid)
  <2>1. CASE cur'[x] = cur[x]
    <3>1. cur[x].sid \in Sid
      BY <1>2, <2>1 DEF HandlersInv, HandlersType, Received, Msg
    <3>2. issued[cur[x].sid] # NotIssued /\ Heard(issued[cur[x].sid].client, cur[x].sid)
      BY <1>2, <2>1 DEF OrderInv, HostsHearLater
    <3> QED
      BY <1>0, <2>1, <3>1, <3>2
  <2>2. ASSUME NEW type \in {"Relay", "Bye"}, NEW s \in Sid, HostReceives(x, Msg(type, s, None))
        PROVE  cur'[x].sid = s /\ s \in known'[x]
    BY <2>2 DEF HostReceives, HandlersInv, HandlersType, Msg, agentVars
  <2>3. \/ cur'[x] = cur[x] \/ cur'[x] = None
        \/ \E type \in {"Relay", "Bye"}, s \in Sid : HostReceives(x, Msg(type, s, None))
    <3>1. ASSUME NEW y \in HostConn, HostStep(y), y # x
          PROVE  cur'[x] = cur[x]
      BY <3>1 DEF HostStep, HostRegisters, HostReceives, HostRelays, HostSaysBye, HostExits, HandlersInv, HandlersType
    <3>2. CASE HostStep(x)
      BY <3>2 DEF HostStep, HostRegisters, HostRelays, HostSaysBye, HostExits, HandlersInv, HandlersType
    <3>3. CASE cur' = cur
      BY <3>3
    <3>4. cur' = cur \/ \E y \in HostConn : HostStep(y)
      BY DEF SigNext, ClientStep, ClientConnectsDevice, ClientResolvesPin, ClientEnters, ClientIsRefused, ClientRotates,
             ClientRelays, ClientSaysBye, ClientExits, RotationStep, RotatorTicks, PinAges, Sends, Delivers,
             WriterTimesOut, sigVars, connVars
    <3> QED
      BY <3>1, <3>2, <3>3, <3>4
  <2> QED
    BY <1>1, <1>2, <2>1, <2>2, <2>3
<1>3. ASSUME NEW x \in HostConn, NEW i \in DOMAIN out'[x], out'[x][i].type = "PeerJoined"
      PROVE  issued'[out'[x][i].sid].client \in Client /\ HeardNext(issued'[out'[x][i].sid].client, out'[x][i].sid)
  <2> DEFINE m == out'[x][i]
             s == m.sid
  <2>1. x \in Conn
    BY DEF Conn
  <2>2. m \in Message /\ Fits(x, m) /\ Heard(issued[s].client, s)
    <3>1. ASSUME NEW j \in DOMAIN out[x], m = out[x][j]
          PROVE  m \in Message /\ Fits(x, m) /\ Heard(issued[s].client, s)
      <4>1. out[x][j] \in Message /\ Fits(x, out[x][j]) /\ Heard(issued[out[x][j].sid].client, out[x][j].sid)
        BY <1>3, <2>1, <3>1 DEF PartiesInv, FlightType, OutFits, OrderInv, HostsHearLater
      <4> QED
        BY <3>1, <4>1
    <3>2. ASSUME NEW a \in Actor, 1 \in DOMAIN todo[a], todo[a][1] = Send(x, m)
          PROVE  m \in Message /\ Fits(x, m) /\ Heard(issued[s].client, s)
      <4>1. todo[a][1] \in Sending /\ todo[a][1].to = x /\ todo[a][1].msg = m
        BY <3>2 DEF PartiesInv, FlightType, Send
      <4>2. Heard(issued[todo[a][1].msg.sid].client, todo[a][1].msg.sid)
        BY <1>3, <3>2, <4>1 DEF OrderInv, HostsHearLater
      <4>3. Fits(todo[a][1].to, todo[a][1].msg)
        BY <3>2 DEF PartiesInv, TodoFits
      <4> HIDE DEF m
      <4> QED
        BY <4>1, <4>2, <4>3 DEF Sending
    <3> QED
      BY <2>1, <3>1, <3>2, QueuedStep
  <2> HIDE DEF m
  <2>3. s \in Sid
    BY <1>3, <2>2 DEF m, Message, PinMessage, SidMessage
  <2>4. issued[s] # NotIssued
    BY <2>2, <2>3, NoneIsNoValue DEF Fits
  <2> QED
    BY <1>0, <2>2, <2>3, <2>4 DEF m
<1>4. ASSUME NEW b \in Actor, NEW i \in DOMAIN todo'[b], todo'[b][i].msg.type = "PeerJoined"
      PROVE  LET s == todo'[b][i].msg.sid IN
                \/ issued'[s].client \in Client /\ HeardNext(issued'[s].client, s)
                \/ b = issued'[s].client /\ i = 2 /\ todo'[b][1] = Send(b, Msg("Joined", s, None))
  <2>0. ASSUME NEW j \in DOMAIN todo[b], todo[b][j].msg.type = "PeerJoined"
        PROVE  LET s == todo[b][j].msg.sid IN
               /\ s \in Sid /\ issued'[s] = issued[s] /\ issued[s].client \in Client
               /\ \/ HeardNext(issued[s].client, s)
                  \/ b = issued[s].client /\ j = 2 /\ todo[b][1] = Send(b, Msg("Joined", s, None))
    <3> DEFINE s == todo[b][j].msg.sid
    <3>1. todo[b][j] \in Sending
      BY DEF PartiesInv, FlightType
    <3>2. s \in Sid
      BY <2>0, <3>1 DEF Sending, Message, PinMessage, SidMessage
    <3>3. Fits(todo[b][j].to, todo[b][j].msg)
      BY DEF PartiesInv, TodoFits
    <3>4. issued[s] # NotIssued
      BY <3>2, <3>3, NoneIsNoValue DEF Fits
    <3>5. \/ Heard(issued[s].client, s)
          \/ b = issued[s].client /\ j = 2 /\ todo[b][1] = Send(b, Msg("Joined", s, None))
      BY <2>0 DEF OrderInv, HostsHearLater
    <3>6. issued'[s] = issued[s] /\ issued[s].client \in Client
      BY <3>2, <3>4, IssuedTyped DEF Lasting, PartiesInv
    <3> HIDE DEF s
    <3>7. Heard(issued[s].client, s) => HeardNext(issued[s].client, s)
      BY <1>0, <3>2, <3>4
    <3>8. \/ HeardNext(issued[s].client, s)
          \/ b = issued[s].client /\ j = 2 /\ todo[b][1] = Send(b, Msg("Joined", s, None))
      BY <3>5, <3>7
    <3> QED
      BY <3>2, <3>6, <3>8 DEF s
  <2>1. CASE todo'[b] = todo[b]
    BY <1>4, <2>0, <2>1
  <2>2. CASE Sends(b)
    <3>1. PICK to \in Conn, m \in Message :
              /\ todo[b] \in Seq(Sending) /\ todo[b] # <<>>
              /\ todo[b][1] = Send(to, m)
              /\ todo' = [todo EXCEPT ![b] = Tail(todo[b])]
              /\ \/ out' = [out EXCEPT ![to] = Append(out[to], m)] /\ gate' = gate
                 \/ out' = out /\ gate[to] # "dead" /\ gate' = [gate EXCEPT ![to] = "killed"]
                 \/ out' = out /\ gate[to] = "dead" /\ gate' = gate
      BY <2>2, SendsOne DEF PartiesInv
    <3>2. todo[b] \in Seq(Sending) /\ todo[b] # <<>> /\ todo'[b] = Tail(todo[b])
      BY <3>1 DEF PartiesInv, FlightType
    <3>3. i + 1 \in DOMAIN todo[b] /\ todo'[b][i] = todo[b][i + 1]
      BY <3>2
    <3> DEFINE s == todo[b][i + 1].msg.sid
    <3>4. /\ s \in Sid /\ issued'[s] = issued[s] /\ issued[s].client \in Client
          /\ \/ HeardNext(issued[s].client, s)
             \/ b = issued[s].client /\ todo[b][1] = Send(b, Msg("Joined", s, None))
      BY <1>4, <2>0, <3>3
    <3> HIDE DEF s
    <3>5. ASSUME b = issued[s].client, todo[b][1] = Send(b, Msg("Joined", s, None))
          PROVE  HeardNext(b, s)
      <4>1. b \in Client /\ to = b /\ m.type = "Joined" /\ m.sid = s
        BY <3>1, <3>4, <3>5 DEF Send, Msg
      <4>2. out[b] \in Seq(Message) /\ b \in Conn
        BY <3>1, <4>1 DEF PartiesInv, FlightType
      <4>3. CASE out' = [out EXCEPT ![to] = Append(out[to], m)]
        <5>1. out'[b] = Append(out[b], m)
          BY <4>1, <4>2, <4>3 DEF PartiesInv, FlightType
        <5>2. Len(out[b]) + 1 \in DOMAIN out'[b] /\ out'[b][Len(out[b]) + 1] = m
          BY <4>2, <5>1
        <5> QED
          BY <4>1, <5>2 DEF HeardNext
      <4>4. CASE gate'[b] # "open"
        BY <4>4 DEF HeardNext
      <4> QED
        BY <3>1, <4>1, <4>2, <4>3, <4>4 DEF PartiesInv, FlightType
    <3>6. issued'[s].client \in Client /\ HeardNext(issued'[s].client, s)
      BY <3>4, <3>5
    <3> QED
      BY <3>3, <3>6 DEF s
  <2>3. CASE Starts(b)
    <3>1. MayStart(b, todo'[b])
      BY <2>3 DEF Starts, PartiesInv, FlightType
    <3> QED
      BY <1>4, <3>1 DEF MayStart
  <2>4. todo'[b] = todo[b] \/ Sends(b) \/ Starts(b)
    BY DEF TodoStep, Sends, Starts, Todo, PartiesInv, FlightType
  <2> QED
    BY <2>1, <2>2, <2>3, <2>4
<1>5. \A x \in HostConn : \A s \in known'[x] :
         /\ issued'[s] # NotIssued /\ issued'[s].host = regOf'[x]
         /\ issued'[s].client \in Client /\ HeardNext(issued'[s].client, s)
  <2>1. FlightType'
    BY TypedStep DEF PartiesInv
  <2>2. \A x \in HostConn : known'[x] \subseteq Sid
    BY <2>1 DEF FlightType, Conn
  <2> QED
    BY <1>1, <2>2
<1>6. \A c \in Client : \A s : HeardNext(c, s) => Heard(c, s)'
  BY OneRole DEF Heard, HeardNext
<1>7. (\A x \in HostConn : \A s \in known[x] :
          issued[s] # NotIssued /\ issued[s].host = regOf[x] /\ Heard(issued[s].client, s))'
  BY <1>5, <1>6
<1>8. (\A x \in HostConn : cur[x] # None =>
          issued[cur[x].sid] # NotIssued /\ Heard(issued[cur[x].sid].client, cur[x].sid))'
  BY <1>2, <1>6
<1>9. (\A x \in HostConn : \A i \in DOMAIN out[x] : out[x][i].type = "PeerJoined" =>
          Heard(issued[out[x][i].sid].client, out[x][i].sid))'
  BY <1>3, <1>6
<1>10. (\A a \in Actor : \A i \in DOMAIN todo[a] : todo[a][i].msg.type = "PeerJoined" =>
          LET s == todo[a][i].msg.sid IN
            \/ Heard(issued[s].client, s)
            \/ a = issued[s].client /\ i = 2 /\ todo[a][1] = Send(a, Msg("Joined", s, None)))'
  BY <1>4, <1>6
<1> QED
  BY <1>7, <1>8, <1>9, <1>10 DEF HostsHearLater

-----------------------------------------------------------------------------
(* How a session the registry holds next came to be held.                   *)
LEMMA LiveStep ==
    ASSUME HandlersInv, [SigNext]_sigVars, NEW s \in Sid, Live(s)'
    PROVE  \/ /\ Live(s) /\ sessions'[s].client = sessions[s].client
              /\ sessions'[s].hostTx = sessions[s].hostTx
           \/ \E x \in HostConn, h \in Host, pin \in Pin :
                 HostRegisters(x, h, s, pin) /\ sessions'[s].hostTx = x
           \/ \E c \in Client, h \in Host :
                 ClientConnectsDevice(c, h, s) /\ sessions'[s].client = c /\ sessions'[s].hostTx = hosts[h].tx
           \/ \E c \in Client :
                 ClientEnters(c, s) /\ sessions'[s].client = c /\ sessions'[s].hostTx = hosts[joining[c].host].tx
<1> DEFINE Same == Live(s) /\ sessions'[s].client = sessions[s].client /\ sessions'[s].hostTx = sessions[s].hostTx
<1>1. ASSUME sessions' = sessions \/ \E S : sessions' = Without(S)
      PROVE  Same
  BY <1>1 DEF Without, Live, NoSession
<1>2. ASSUME NEW x \in HostConn, NEW h \in Host, NEW claimed \in Sid \cup {None}, NEW pin \in Pin,
             HostRegisters(x, h, claimed, pin)
      PROVE  Same \/ (claimed = s /\ sessions'[s].hostTx = x)
  <2>1. CASE Owns(h, claimed)
    <3>1. sessions' = [sessions EXCEPT ![claimed].hostTx = x] /\ claimed \in Sid /\ sessions[claimed] \in SessionEntry
      BY <1>2, <2>1, Entries, NoneIsNoValue DEF HostRegisters, RegisterHost, Owns, HandlersInv, TypeOK, NoSession
    <3>2. CASE claimed = s
      BY <3>1, <3>2 DEF HandlersInv, TypeOK, SessionEntry
    <3>3. CASE claimed # s
      BY <3>1, <3>3 DEF Live, HandlersInv, TypeOK
    <3> QED
      BY <3>2, <3>3
  <2>2. CASE ~Owns(h, claimed)
    <3>1. \E S : sessions' = Without(S)
      BY <1>2, <2>2 DEF HostRegisters, RegisterHost
    <3> QED
      BY <1>1, <3>1
  <2> QED
    BY <2>1, <2>2
<1>3. ASSUME NEW c \in Client, NEW h \in Host, NEW t \in Sid, Enter(h, c, t)
      PROVE  Same \/ (t = s /\ sessions'[s].client = c /\ sessions'[s].hostTx = hosts[h].tx)
  BY <1>3 DEF Enter, Live, HandlersInv, TypeOK
<1> HIDE DEF Same
<1>4. ASSUME NEW x \in HostConn, HostStep(x)
      PROVE  \/ Same
             \/ \E h \in Host, pin \in Pin : HostRegisters(x, h, s, pin) /\ sessions'[s].hostTx = x
  <2>1. \/ sessions' = sessions \/ \E S : sessions' = Without(S)
        \/ \E h \in Host, claimed \in Sid \cup {None}, pin \in Pin : HostRegisters(x, h, claimed, pin)
    BY <1>4 DEF HostStep, HostReceives, HostRelays, HostSaysBye, CloseByHost, HostExits, UnregisterHost, regVars
  <2> QED
    BY <1>1, <1>2, <2>1
<1>5. ASSUME NEW c \in Client, ClientStep(c)
      PROVE  \/ Same
             \/ \E h \in Host :
                   ClientConnectsDevice(c, h, s) /\ sessions'[s].client = c /\ sessions'[s].hostTx = hosts[h].tx
             \/ ClientEnters(c, s) /\ sessions'[s].client = c /\ sessions'[s].hostTx = hosts[joining[c].host].tx
  <2>1. ASSUME NEW h \in Host, NEW t \in Sid, ClientConnectsDevice(c, h, t)
        PROVE  Same \/ (t = s /\ sessions'[s].client = c /\ sessions'[s].hostTx = hosts[h].tx)
    BY <1>3, <2>1 DEF ClientConnectsDevice, JoinByHostId
  <2>2. ASSUME NEW t \in Sid, ClientEnters(c, t)
        PROVE  Same \/ (t = s /\ sessions'[s].client = c /\ sessions'[s].hostTx = hosts[joining[c].host].tx)
    <3>1. joining[c].host \in Host /\ Enter(joining[c].host, c, t)
      BY <2>2, JoiningTypes DEF ClientEnters, JoinEnter, HandlersInv
    <3> QED
      BY <1>3, <3>1
  <2>3. \/ sessions' = sessions \/ \E S : sessions' = Without(S)
        \/ \E h \in Host, t \in Sid : ClientConnectsDevice(c, h, t)
        \/ \E t \in Sid : ClientEnters(c, t)
    BY <1>5 DEF ClientStep, ClientResolvesPin, JoinResolve, ClientIsRefused, JoinRefused, ClientRotates, JoinRotate,
                ClientRelays, ClientSaysBye, CloseByClient, ClientExits, DisconnectClient, EndSessions, regVars
  <2> QED
    BY <1>1, <2>1, <2>2, <2>3
<1>6. CASE \/ RotationStep \/ \E a \in Actor : Sends(a)
           \/ \E x \in Conn : Delivers(x) \/ WriterTimesOut(x)
           \/ UNCHANGED sigVars
  <2>1. sessions' = sessions
    BY <1>6 DEF RotationStep, RotatorTicks, RotateExpiredPins, PinAges, PinExpires, connVars, regVars,
                Sends, Delivers, WriterTimesOut, sigVars
  <2> QED
    BY <1>1, <2>1 DEF Same
<1> QED
  BY <1>4, <1>5, <1>6 DEF Same, SigNext

LEMMA AnnouncePuts ==
    ASSUME FlightType, NEW c \in Client, NEW s, NEW x, NEW pin, Announce(c, s, x, pin)
    PROVE  \E i \in DOMAIN todo'[c] : todo'[c][i] = Send(x, Msg("PeerJoined", s, None))
<1> DEFINE sends == <<Send(c, Msg("Joined", s, None)), Send(x, Msg("PeerJoined", s, None))>>
                    \o (IF pin = None THEN <<>> ELSE <<Send(x, Msg("PinChanged", None, pin))>>)
<1>1. todo'[c] = sends
  BY DEF Announce, Todo, FlightType, Actor, Conn
<1>2. sends[2] = Send(x, Msg("PeerJoined", s, None)) /\ 2 \in DOMAIN sends
  BY DEF Send, Msg
<1> HIDE DEF sends
<1> QED
  BY <1>1, <1>2

(* The agent of a live session has heard of it, or its client's handler     *)
(* goes on with announcing it.                                              *)
LEMMA AnnouncedStays ==
    ASSUME HandlersInv, PartiesInv, OrderInv, SessionBacked, TodoStep, [SigNext]_sigVars,
           NEW s \in Sid, Live(s), NEW c, c = sessions[s].client, NEW x, x = sessions[s].hostTx
    PROVE  \/ HeardNext(x, s)
           \/ joining'[c].step = "entered" /\ joining'[c].sid = s /\ joining'[c].tx = x
           \/ \E i \in DOMAIN todo'[c] : todo'[c][i] = Send(x, Msg("PeerJoined", s, None))
<1>0. c \in Client /\ x \in HostConn /\ regOf[x] # None /\ x \in Conn /\ x \notin Client
  <2>1. sessions[s] \in SessionEntry /\ regOf[sessions[s].hostTx] = sessions[s].host
    BY HostEnd
  <2>2. sessions[s].client \in Client /\ sessions[s].hostTx \in HostConn /\ sessions[s].host \in Host
    BY <2>1 DEF SessionEntry
  <2> QED
    BY <2>1, <2>2, OneRole, NoneIsNoValue DEF Conn
<1>1. CASE HeardOf(x, s)
  <2>1. HeardBy(x, s)
    BY <1>0, <1>1 DEF HeardBy
  <2> QED
    BY <1>0, <2>1, HeardStays
<1>2. CASE joining[c].step = "entered" /\ joining[c].sid = s /\ joining[c].tx = x
  <2>1. CASE joining'[c] = joining[c]
    BY <1>2, <2>1
  <2>2. ASSUME NEW pin \in Pin, ClientRotates(c, pin)
        PROVE  \E i \in DOMAIN todo'[c] : todo'[c][i] = Send(x, Msg("PeerJoined", s, None))
    BY <1>0, <1>2, <2>2, AnnouncePuts DEF ClientRotates, PartiesInv
  <2>3. joining'[c] = joining[c] \/ \E pin \in Pin : ClientRotates(c, pin)
    <3>1. ASSUME NEW d \in Client, ClientStep(d), d # c
          PROVE  joining'[c] = joining[c]
      BY <1>0, <3>1 DEF ClientStep, ClientConnectsDevice, JoinByHostId, ClientResolvesPin, JoinResolve,
              ClientEnters, JoinEnter, ClientIsRefused, JoinRefused, ClientRotates, JoinRotate, ClientRelays,
              ClientSaysBye, CloseByClient, ClientExits, DisconnectClient, EndSessions, regVars, HandlersInv, TypeOK
    <3>2. CASE ClientStep(c)
      <4>1. joining[c].step = "entered" /\ joining[c] # NotJoining
        BY <1>2 DEF NotJoining
      <4>2. ~ \E t \in Sid : ClientEnters(c, t)
        BY <4>1 DEF ClientEnters, JoinEnter
      <4>3. ~ClientIsRefused(c)
        BY <4>1 DEF ClientIsRefused, JoinRefused
      <4>4. ~ClientReading(c)
        BY <4>1 DEF ClientReading
      <4> QED
        BY <3>2, <4>2, <4>3, <4>4 DEF ClientStep, ClientConnectsDevice, ClientResolvesPin, ClientRelays,
              ClientSaysBye, ClientExits
    <3>3. ASSUME NEW y \in HostConn, HostStep(y)
          PROVE  joining' = joining
      BY <3>3 DEF HostStep, HostRegisters, RegisterHost, HostReceives, HostRelays, HostSaysBye, CloseByHost,
                  HostExits, UnregisterHost, regVars
    <3> QED
      BY <3>1, <3>2, <3>3, OthersKeepParties DEF SigNext
  <2> QED
    BY <2>1, <2>2, <2>3
<1>3. ASSUME NEW i \in DOMAIN todo[c], todo[c][i] = Send(x, Msg("PeerJoined", s, None))
      PROVE  \/ HeardNext(x, s)
             \/ \E j \in DOMAIN todo'[c] : todo'[c][j] = Send(x, Msg("PeerJoined", s, None))
  <2>0. c \in Actor /\ todo[c] \in Seq(Sending) /\ todo[c] # <<>>
    BY <1>0, <1>3 DEF Actor, Conn, PartiesInv, FlightType
  <2>1. todo'[c] = todo[c] \/ Sends(c)
    BY <2>0 DEF TodoStep, Sends, Starts, Todo, PartiesInv, FlightType
  <2>2. CASE Sends(c)
    <3>1. PICK to \in Conn, m \in Message :
              /\ todo[c][1] = Send(to, m)
              /\ todo' = [todo EXCEPT ![c] = Tail(todo[c])]
              /\ \/ out' = [out EXCEPT ![to] = Append(out[to], m)] /\ gate' = gate
                 \/ out' = out /\ gate[to] # "dead" /\ gate' = [gate EXCEPT ![to] = "killed"]
                 \/ out' = out /\ gate[to] = "dead" /\ gate' = gate
      BY <2>0, <2>2, SendsOne DEF PartiesInv
    <3>2. todo'[c] = Tail(todo[c])
      BY <2>0, <3>1 DEF PartiesInv, FlightType
    <3>3. CASE i # 1
      <4>1. i - 1 \in DOMAIN todo'[c] /\ todo'[c][i - 1] = todo[c][i]
        BY <2>0, <3>2, <3>3
      <4> QED
        BY <1>3, <4>1
    <3>4. CASE i = 1
      <4>1. to = x /\ m.type = "PeerJoined" /\ m.sid = s
        BY <1>3, <3>1, <3>4 DEF Send, Msg
      <4>2. out[x] \in Seq(Message)
        BY <1>0 DEF PartiesInv, FlightType
      <4>3. CASE out' = [out EXCEPT ![to] = Append(out[to], m)]
        <5>1. out'[x] = Append(out[x], m)
          BY <1>0, <4>1, <4>3 DEF PartiesInv, FlightType
        <5>2. Len(out[x]) + 1 \in DOMAIN out'[x] /\ out'[x][Len(out[x]) + 1] = m
          BY <4>2, <5>1
        <5> QED
          BY <1>0, <4>1, <5>2 DEF HeardNext
      <4>4. CASE gate'[x] # "open"
        BY <4>4 DEF HeardNext
      <4> QED
        BY <1>0, <3>1, <4>1, <4>3, <4>4 DEF PartiesInv, FlightType
    <3> QED
      BY <3>3, <3>4
  <2> QED
    BY <1>3, <2>1, <2>2
<1>4. Announced(s)
  BY DEF OrderInv
<1> QED
  BY <1>1, <1>2, <1>3, <1>4 DEF Announced

LEMMA AnnouncedStep ==
    ASSUME HandlersInv, PartiesInv, OrderInv, SessionBacked, TodoStep, [SigNext]_sigVars,
           NEW s \in Sid, Live(s)'
    PROVE  Announced(s)'
<1> DEFINE c == sessions'[s].client
           x == sessions'[s].hostTx
<1>1. SUFFICES /\ x \in HostConn
               /\ \/ HeardNext(x, s)
                  \/ joining'[c].step = "entered" /\ joining'[c].sid = s /\ joining'[c].tx = x
                  \/ \E i \in DOMAIN todo'[c] : todo'[c][i] = Send(x, Msg("PeerJoined", s, None))
  BY OneRole DEF Announced, HeardOf, HeardNext
<1>2. x \in HostConn
  <2>1. TypeOK'
    BY HandlersStep DEF HandlersInv
  <2> QED
    BY <2>1, NoneIsNoValue DEF TypeOK, Live, SessionEntry, NoSession
<1>3. CASE Live(s) /\ c = sessions[s].client /\ x = sessions[s].hostTx
  <2> HIDE DEF c, x
  <2> QED
    BY <1>2, <1>3, AnnouncedStays
<1>4. ASSUME NEW y \in HostConn, NEW h \in Host, NEW pin \in Pin, HostRegisters(y, h, s, pin), x = y
      PROVE  HeardNext(x, s)
  <2>1. s \in known'[y]
    BY <1>4, NoneIsNoValue DEF HostRegisters, Conn
  <2> QED
    BY <1>4, <2>1 DEF HeardNext
<1>5. ASSUME NEW d \in Client, NEW h \in Host, ClientConnectsDevice(d, h, s), c = d, x = hosts[h].tx
      PROVE  \E i \in DOMAIN todo'[c] : todo'[c][i] = Send(x, Msg("PeerJoined", s, None))
  <2>1. \E i \in DOMAIN todo'[d] : todo'[d][i] = Send(hosts[h].tx, Msg("PeerJoined", s, None))
    BY <1>5, AnnouncePuts DEF ClientConnectsDevice, PartiesInv
  <2> HIDE DEF c, x
  <2> QED
    BY <1>5, <2>1
<1>6. ASSUME NEW d \in Client, ClientEnters(d, s), c = d, x = hosts[joining[d].host].tx
      PROVE  joining'[c].step = "entered" /\ joining'[c].sid = s /\ joining'[c].tx = x
  <2>1. joining'[d] = [step |-> "entered", host |-> joining[d].host, tx |-> hosts[joining[d].host].tx, sid |-> s]
    BY <1>6 DEF ClientEnters, JoinEnter, HandlersInv, TypeOK
  <2> HIDE DEF c, x
  <2> QED
    BY <1>6, <2>1
<1> HIDE DEF c, x
<1> QED
  BY <1>2, <1>3, <1>4, <1>5, <1>6, LiveStep DEF c, x

LEMMA OrderStep ==
    ASSUME HandlersInv, PartiesInv, OrderInv, SessionBacked, [SigNext]_sigVars
    PROVE  OrderInv'
<1>1. TodoStep /\ Lasting
  BY TodoSteps, LastingStep DEF PartiesInv
<1>2. OneThing' /\ HostsHearLater' /\ TodoHeard'
  BY <1>1, OneThingStep, HostsHearLaterStep, TodoHeardStep DEF OrderInv
<1>3. AnnouncedFirst'
  <2>1. \A y \in Conn : Ordered(y)
    BY OrderedIsAnnouncedFirst DEF OrderInv
  <2>2. \A y \in Conn : Ordered(y)'
    BY <2>1, OrderKept DEF OrderInv
  <2> QED
    BY <2>2, OneRole DEF AnnouncedFirst, Ordered, Told, Conn
<1>4. (\A s \in Sid : Live(s) => Announced(s))'
  BY <1>1, AnnouncedStep
<1> QED
  BY <1>2, <1>3, <1>4 DEF OrderInv

LEMMA OrderInitially == SigInit => OrderInv
<1> SUFFICES ASSUME SigInit
             PROVE  OrderInv
  OBVIOUS
<1>1. OneThing
  BY DEF SigInit, OneThing, Actor, Conn
<1>2. HostsHearLater /\ TodoHeard
  BY DEF SigInit, HostsHearLater, TodoHeard, Conn
<1>3. AnnouncedFirst
  BY DEF SigInit, AnnouncedFirst, InOrder, Conn
<1>4. \A s \in Sid : ~Live(s)
  BY DEF SigInit, RegInit, Live, NoSession
<1> QED
  BY <1>1, <1>2, <1>3, <1>4 DEF OrderInv

LEMMA OrderInvariant == SigSpec => [](HandlersInv /\ PartiesInv /\ OrderInv)
<1>1. HandlersInv /\ PartiesInv /\ SessionBacked /\ OrderInv /\ [SigNext]_sigVars => OrderInv'
  BY OrderStep
<1> QED
  BY PartiesInvariant, OrderInitially, <1>1, ServerKeepsRegistry, PTL DEF SigSpec

(* Nothing of a session overtakes its announcement, for any number of       *)
(* connections, sessions and messages and whatever each queue loses: client *)
(* and agent hear of the session before the first message the other side    *)
(* sends in it, although the server performs the announcements one by one   *)
(* and outside the registry's lock.                                         *)
THEOREM SessionsAreAnnounced == SigSpec => []AnnouncedFirst
<1>1. OrderInv => AnnouncedFirst
  BY DEF OrderInv
<1> QED
  BY OrderInvariant, <1>1, PTL

-----------------------------------------------------------------------------
LEMMA RegisteredStep ==
    ASSUME HandlersInv, PartiesInv, RegisteredOnce, TodoStep, [SigNext]_sigVars
    PROVE  RegisteredOnce'
<1>0. ASSUME NEW y \in HostConn
      PROVE  out[y] \in Seq(Message) /\ todo[y] \in Seq(Sending) /\ y \in Conn /\ y \in Actor /\ y \notin Client
  BY OneRole DEF PartiesInv, FlightType, Conn, Actor
<1>1. ASSUME NEW y \in HostConn, Expects(y), regOf[y] # None, \A j \in DOMAIN out[y] : out[y][j].type # "Registered"
      PROVE  Expects(y)'
  <2>1. ASSUME NEW m \in Message, Hands(y, m)
        PROVE  Expects(y)'
    <3>1. 1 \in DOMAIN out[y] /\ m = out[y][1]
      BY <1>0, <2>1 DEF Hands
    <3>2. m.type # "Registered"
      BY <1>1, <3>1
    <3> QED
      BY <1>1, <2>1, <3>2 DEF Hands, Expects
  <2> QED
    BY <1>0, <1>1, <2>1, ConnSteps DEF ConnStep, Idle, Over, GivenUp, Opens, Gets, Expects
<1>2. ASSUME NEW y \in Conn, NEW i \in DOMAIN out'[y], out'[y][i].type = "Registered"
      PROVE  y \in HostConn /\ Expects(y)' /\ \A j \in DOMAIN out'[y] : out'[y][j].type = "Registered" => j = i
  <2>0. out[y] \in Seq(Message)
    BY DEF PartiesInv, FlightType
  <2>1. ASSUME NEW j \in DOMAIN out[y], out[y][j].type = "Registered"
        PROVE  /\ y \in HostConn /\ Expects(y) /\ regOf[y] # None
               /\ \A k \in DOMAIN out[y] : out[y][k].type = "Registered" => k = j
    BY <2>1 DEF RegisteredOnce, PartiesInv, OutFits, Fits
  <2>2. ASSUME out'[y] = out[y], y \in HostConn => link'[y] = link[y] \/ link'[y] = "gone"
        PROVE  y \in HostConn /\ Expects(y)' /\ \A j \in DOMAIN out'[y] : out'[y][j].type = "Registered" => j = i
    BY <1>2, <2>1, <2>2 DEF Expects
  <2>3. ASSUME NEW m \in Message, Gets(y, m)
        PROVE  y \in HostConn /\ Expects(y)' /\ \A j \in DOMAIN out'[y] : out'[y][j].type = "Registered" => j = i
    <3>1. /\ DOMAIN out'[y] = 1 .. Len(out[y]) + 1 /\ DOMAIN out[y] = 1 .. Len(out[y]) /\ Len(out[y]) \in Nat
          /\ \A j \in 1 .. Len(out[y]) : out'[y][j] = out[y][j]
          /\ out'[y][Len(out[y]) + 1] = m
      BY <2>0, <2>3 DEF Gets
    <3>2. y \in HostConn => link'[y] = link[y]
      BY <2>3 DEF Gets
    <3>3. m.type = "Registered" => /\ y \in HostConn /\ Expects(y)
                                   /\ \A j \in DOMAIN out[y] : out[y][j].type # "Registered"
      <4>1. PICK a \in Actor : todo[a] # <<>> /\ todo[a][1] = Send(y, m)
        BY <2>3 DEF Gets
      <4>2. 1 \in DOMAIN todo[a] /\ todo[a][1].to = y /\ todo[a][1].msg = m
        BY <4>1 DEF PartiesInv, FlightType, Send
      <4> QED
        BY <4>2 DEF RegisteredOnce
    <3>4. CASE m.type = "Registered"
      BY <1>2, <3>1, <3>2, <3>3, <3>4 DEF Expects
    <3>5. CASE m.type # "Registered"
      <4>1. \A j \in DOMAIN out'[y] : out'[y][j].type = "Registered" => j \in DOMAIN out[y] /\ out[y][j].type = "Registered"
        BY <3>1, <3>5
      <4> QED
        BY <1>2, <2>1, <3>2, <4>1 DEF Expects
    <3> QED
      BY <3>4, <3>5
  <2>4. ASSUME NEW m \in Message, Hands(y, m)
        PROVE  y \in HostConn /\ Expects(y)' /\ \A j \in DOMAIN out'[y] : out'[y][j].type = "Registered" => j = i
    <3>1. /\ out[y] # <<>> /\ m = out[y][1] /\ out'[y] = Tail(out[y])
          /\ DOMAIN out'[y] = 1 .. Len(out[y]) - 1 /\ DOMAIN out[y] = 1 .. Len(out[y]) /\ Len(out[y]) \in Nat
      BY <2>0, <2>4 DEF Hands
    <3>2. \A j \in DOMAIN out'[y] : j + 1 \in DOMAIN out[y] /\ out'[y][j] = out[y][j + 1]
      BY <2>0, <3>1
    <3>3. /\ y \in HostConn /\ Expects(y) /\ regOf[y] # None
          /\ \A k \in DOMAIN out[y] : out[y][k].type = "Registered" => k = i + 1
      BY <1>2, <2>1, <3>2
    <3>4. m.type # "Registered"
      <4>1. 1 \in DOMAIN out[y] /\ i \in Nat \ {0}
        BY <3>1
      <4> QED
        BY <3>1, <3>3, <4>1
    <3>5. Expects(y)'
      BY <2>4, <3>3, <3>4 DEF Hands, Expects
    <3> QED
      BY <3>1, <3>2, <3>3, <3>5
  <2>5. CASE Opens(y)
    BY <1>2, <2>1, <2>5 DEF Opens
  <2>6. CASE out'[y] = <<>>
    BY <1>2, <2>6
  <2> QED
    BY <2>2, <2>3, <2>4, <2>5, <2>6, ConnSteps DEF ConnStep, Idle, Over, GivenUp
<1>3. ASSUME NEW a \in Actor, NEW i \in DOMAIN todo'[a], todo'[a][i].msg.type = "Registered"
      PROVE  /\ a \in HostConn /\ todo'[a][i].to = a /\ Expects(a)' /\ Len(todo'[a]) = 1
             /\ \A j \in DOMAIN out'[a] : out'[a][j].type # "Registered"
  <2>1. CASE todo'[a] = todo[a]
    <3>1. /\ a \in HostConn /\ todo[a][i].to = a /\ Expects(a) /\ Len(todo[a]) = 1
          /\ \A j \in DOMAIN out[a] : out[a][j].type # "Registered"
      BY <1>3, <2>1 DEF RegisteredOnce
    <3>2. regOf[a] # None
      BY <1>3, <2>1, <3>1 DEF PartiesInv, TodoFits, Fits
    <3>3. Expects(a)'
      BY <1>1, <3>1, <3>2
    <3>4. ASSUME NEW j \in DOMAIN out'[a], out'[a][j].type = "Registered"
          PROVE  FALSE
      <4>1. PICK b \in Actor : /\ todo[b] # <<>> /\ 1 \in DOMAIN todo[b]
                              /\ todo[b][1] = Send(a, out'[a][j]) /\ todo'[b] = Tail(todo[b])
        BY <1>0, <3>1, <3>4, QueuedStep
      <4>2. b = a
        <5>1. todo[b][1].to = a /\ todo[b][1].msg.type = "Registered"
          BY <3>4, <4>1 DEF Send
        <5> QED
          BY <4>1, <5>1 DEF RegisteredOnce
      <4>0. Len(todo[a]) = 1
        BY <3>1
      <4>3. todo[a] \in Seq(Sending) /\ todo[a] # <<>>
        <5>1. todo[a] \in Seq(Sending)
          BY DEF PartiesInv, FlightType
        <5> QED
          BY <4>1, <4>2, <5>1
      <4>4. Len(Tail(todo[a])) = Len(todo[a]) - 1
        BY <4>3
      <4> QED
        <5>1. todo[a] = Tail(todo[a])
          BY <2>1, <4>1, <4>2
        <5>2. Len(Tail(todo[a])) = 0
          BY <4>0, <4>4
        <5>3. Len(todo[a]) = 0
          BY <5>1, <5>2, Zenon
        <5> QED
          BY <4>0, <4>3, <5>3
    <3> QED
      BY <2>1, <3>1, <3>3, <3>4
  <2>2. CASE Sends(a)
    <3>1. todo[a] \in Seq(Sending) /\ todo[a] # <<>> /\ todo'[a] = Tail(todo[a])
      BY <2>2 DEF Sends, Todo, PartiesInv, FlightType
    <3>2. i + 1 \in DOMAIN todo[a] /\ todo'[a][i] = todo[a][i + 1] /\ i + 1 \in 2 .. Len(todo[a])
      BY <3>1
    <3>3. Len(todo[a]) = 1
      BY <1>3, <3>2 DEF RegisteredOnce
    <3> QED
      BY <3>2, <3>3
  <2>3. CASE Starts(a)
    <3>1. MayStart(a, todo'[a])
      BY <2>3 DEF Starts, PartiesInv, FlightType
    <3>2. a \in HostConn /\ todo'[a][i].to = a /\ Len(todo'[a]) = 1 /\ regOf[a] = None /\ link'[a] = "handshake"
      BY <1>3, <3>1 DEF MayStart
    <3>3. ASSUME NEW j \in DOMAIN out'[a]
          PROVE  out'[a][j].type # "Registered"
      <4>1. /\ \A k \in DOMAIN out[a] : ~Fits(a, out[a][k])
            /\ \A b \in Actor : \A m : 1 \in DOMAIN todo[b] => todo[b][1] # Send(a, m)
        BY <3>2 DEF Fits, Send, PartiesInv, TodoFits
      <4> QED
        BY <1>0, <3>2, <4>1, QueuedStep DEF PartiesInv, OutFits
    <3> QED
      BY <3>2, <3>3 DEF Expects
  <2>4. todo'[a] = todo[a] \/ Sends(a) \/ Starts(a)
    BY DEF TodoStep, Sends, Starts, Todo, PartiesInv, FlightType
  <2> QED
    BY <2>1, <2>2, <2>3, <2>4
<1> QED
  BY <1>2, <1>3 DEF RegisteredOnce

-----------------------------------------------------------------------------
(* The PIN was taken by x's agent, is queued for it or is to be sent to it. *)
Reaches(x, p) ==
    \/ p \in Range(pins[x])
    \/ \E i \in DOMAIN out[x] : out[x][i].pin = p
    \/ \E a \in Actor : \E i \in DOMAIN todo[a] : todo[a][i].to = x /\ todo[a][i].msg.pin = p

ReachesNext(x, p) ==
    \/ p \in Range(pins'[x])
    \/ \E i \in DOMAIN out'[x] : out'[x][i].pin = p
    \/ \E a \in Actor : \E i \in DOMAIN todo'[a] : todo'[a][i].to = x /\ todo'[a][i].msg.pin = p

LEMMA ReachesIsTold ==
    ASSUME NEW x, NEW p
    PROVE  p \in Range(pins[x]) \cup PinsUnderway(x) <=> Reaches(x, p)
BY DEF PinsUnderway, Reaches

LEMMA ReachesIsToldNext ==
    ASSUME NEW x, NEW p
    PROVE  p \in Range(pins'[x]) \cup PinsUnderway(x)' <=> ReachesNext(x, p)
BY DEF PinsUnderway, ReachesNext

LEMMA AppendKeepsRange ==
    ASSUME NEW S, NEW q \in Seq(S), NEW e \in S
    PROVE  Range(q) \subseteq Range(Append(q, e)) /\ e \in Range(Append(q, e))
<1>1. /\ DOMAIN Append(q, e) = 1 .. Len(q) + 1 /\ DOMAIN q = 1 .. Len(q) /\ Len(q) \in Nat
      /\ \A i \in 1 .. Len(q) : Append(q, e)[i] = q[i]
      /\ Append(q, e)[Len(q) + 1] = e
  OBVIOUS
<1> QED
  BY <1>1 DEF Range

LEMMA ReachStays ==
    ASSUME HandlersInv, PartiesInv, RegisteredOnce, TodoStep, [SigNext]_sigVars,
           NEW x \in HostConn, NEW p \in Pin, Reaches(x, p), regOf[x] # None,
           gate'[x] = "open", link'[x] # "gone"
    PROVE  ReachesNext(x, p)
<1>0. /\ x \in Conn /\ out[x] \in Seq(Message) /\ pins[x] \in Seq(Pin)
      /\ link[x] \in {"none", "handshake", "up", "gone"} /\ link[x] # "none"
  BY DEF Conn, PartiesInv, FlightType, Registrations
<1>1. ASSUME NEW m \in Message, Hands(x, m)
      PROVE  /\ Range(pins[x]) \subseteq Range(pins'[x])
             /\ m.pin = p => p \in Range(pins'[x])
  <2>1. 1 \in DOMAIN out[x] /\ m = out[x][1]
    BY <1>0, <1>1 DEF Hands
  <2>2. m.pin = p => m.type \in {"Registered", "PinChanged"}
    BY NoneIsNoValue DEF Message, PinMessage, SidMessage
  <2>3. m.type = "Registered" => link[x] # "up"
    BY <1>0, <2>1 DEF RegisteredOnce, Expects
  <2>4. m.type \in {"Registered", "PinChanged"} => m.pin \in Pin
    BY DEF Message, PinMessage, SidMessage
  <2>5. CASE (link[x] = "handshake" /\ m.type = "Registered") \/ (link[x] = "up" /\ m.type = "PinChanged")
    <3>1. pins'[x] = Append(pins[x], m.pin) /\ m.pin \in Pin
      BY <1>1, <2>4, <2>5 DEF Hands
    <3> QED
      BY <1>0, <3>1, AppendKeepsRange
  <2>6. CASE ~((link[x] = "handshake" /\ m.type = "Registered") \/ (link[x] = "up" /\ m.type = "PinChanged"))
    <3>1. pins'[x] = pins[x]
      BY <1>1, <2>6 DEF Hands
    <3>2. m.type \notin {"Registered", "PinChanged"}
      BY <1>0, <1>1, <2>3, <2>6 DEF Hands
    <3> QED
      BY <2>2, <3>1, <3>2
  <2> QED
    BY <2>5, <2>6
<1>2. CASE p \in Range(pins[x])
  <2>1. CASE pins'[x] = pins[x]
    BY <1>2, <2>1 DEF ReachesNext
  <2>2. CASE Opens(x) \/ Over(x) \/ GivenUp(x)
    BY <2>2 DEF Opens, Over, GivenUp
  <2> QED
    BY <1>0, <1>1, <1>2, <2>1, <2>2, ConnSteps DEF ConnStep, Idle, Gets, ReachesNext
<1>3. ASSUME NEW i \in DOMAIN out[x], out[x][i].pin = p
      PROVE  ReachesNext(x, p)
  <2>1. CASE out'[x] = out[x]
    BY <1>3, <2>1 DEF ReachesNext
  <2>2. ASSUME NEW m \in Message, Gets(x, m)
        PROVE  ReachesNext(x, p)
    <3>1. out'[x] = Append(out[x], m)
      BY <2>2 DEF Gets
    <3>2. i \in DOMAIN out'[x] /\ out'[x][i] = out[x][i]
      BY <1>0, <3>1
    <3> QED
      BY <1>3, <3>2 DEF ReachesNext
  <2>3. ASSUME NEW m \in Message, Hands(x, m)
        PROVE  ReachesNext(x, p)
    <3>1. out[x] # <<>> /\ m = out[x][1] /\ out'[x] = Tail(out[x])
      BY <2>3 DEF Hands
    <3>2. CASE i = 1
      BY <1>1, <1>3, <2>3, <3>1, <3>2 DEF ReachesNext
    <3>3. CASE i # 1
      <4>1. i - 1 \in DOMAIN out'[x] /\ out'[x][i - 1] = out[x][i]
        BY <1>0, <3>1, <3>3
      <4> QED
        BY <1>3, <4>1 DEF ReachesNext
    <3> QED
      BY <3>2, <3>3
  <2> QED
    BY <1>0, <2>1, <2>2, <2>3, ConnSteps DEF ConnStep, Idle, Over, GivenUp, Opens
<1>4. ASSUME NEW a \in Actor, NEW i \in DOMAIN todo[a], todo[a][i].to = x, todo[a][i].msg.pin = p
      PROVE  ReachesNext(x, p)
  <2>0. todo[a] \in Seq(Sending) /\ todo[a] # <<>>
    BY <1>4 DEF PartiesInv, FlightType
  <2>1. CASE todo'[a] = todo[a]
    BY <1>4, <2>1 DEF ReachesNext
  <2>2. CASE Sends(a)
    <3>1. PICK to \in Conn, m \in Message :
              /\ todo[a][1] = Send(to, m)
              /\ todo' = [todo EXCEPT ![a] = Tail(todo[a])]
              /\ \/ out' = [out EXCEPT ![to] = Append(out[to], m)] /\ gate' = gate
                 \/ out' = out /\ gate[to] # "dead" /\ gate' = [gate EXCEPT ![to] = "killed"]
                 \/ out' = out /\ gate[to] = "dead" /\ gate' = gate
      BY <2>2, SendsOne DEF PartiesInv
    <3>2. todo'[a] = Tail(todo[a])
      BY <3>1 DEF PartiesInv, FlightType
    <3>3. CASE i # 1
      <4>1. i - 1 \in DOMAIN todo'[a] /\ todo'[a][i - 1] = todo[a][i]
        BY <2>0, <3>2, <3>3
      <4> QED
        BY <1>4, <4>1 DEF ReachesNext
    <3>4. CASE i = 1
      <4>1. to = x /\ m.pin = p
        BY <1>4, <3>1, <3>4 DEF Send
      <4>2. out' = [out EXCEPT ![to] = Append(out[to], m)]
        BY <1>0, <3>1, <4>1 DEF PartiesInv, FlightType
      <4>3. out'[x] = Append(out[x], m)
        BY <1>0, <4>1, <4>2 DEF PartiesInv, FlightType
      <4>4. Len(out[x]) + 1 \in DOMAIN out'[x] /\ out'[x][Len(out[x]) + 1] = m
        BY <1>0, <4>3
      <4> QED
        BY <4>1, <4>4 DEF ReachesNext
    <3> QED
      BY <3>3, <3>4
  <2>3. todo'[a] = todo[a] \/ Sends(a)
    BY <2>0 DEF TodoStep, Sends, Starts, Todo, PartiesInv, FlightType
  <2> QED
    BY <2>1, <2>2, <2>3
<1> QED
  BY <1>2, <1>3, <1>4 DEF Reaches

-----------------------------------------------------------------------------
(* No registry call but a registration and the rotations replaces a PIN.    *)
KeepsPins == \A h \in Host : hosts'[h].tx = None \/ (hosts'[h].tx = hosts[h].tx /\ hosts'[h].pin = hosts[h].pin)

LEMMA SameEntryPins ==
    ASSUME TypeOK, NEW g \in Host, NEW sid, hosts' = [hosts EXCEPT ![g].sid = sid]
    PROVE  KeepsPins
<1>1. hosts[g] \in HostEntry \cup {NoHost}
  BY DEF TypeOK
<1>2. hosts' = [hosts EXCEPT ![g] = [hosts[g] EXCEPT !.sid = sid]]
  BY DEF TypeOK
<1> QED
  BY <1>1, <1>2 DEF TypeOK, KeepsPins, HostEntry, NoHost

LEMMA EndSessionsKeepsPins ==
    ASSUME TypeOK, NEW S, EndSessions(S)
    PROVE  KeepsPins
<1> SUFFICES ASSUME NEW h \in Host
             PROVE  hosts'[h].tx = hosts[h].tx /\ hosts'[h].pin = hosts[h].pin
  BY DEF KeepsPins
<1>1. hosts'[h] = hosts[h] \/ hosts'[h] = [hosts[h] EXCEPT !.sid = None]
  BY DEF EndSessions
<1>2. hosts[h] \in HostEntry \cup {NoHost}
  BY DEF TypeOK
<1> QED
  BY <1>1, <1>2 DEF HostEntry, NoHost

LEMMA HostsKeepPins ==
    ASSUME HandlersInv, NEW x \in HostConn, HostStep(x)
    PROVE  \/ KeepsPins
           \/ \E h \in Host, claimed \in Sid \cup {None}, pin \in Pin : HostRegisters(x, h, claimed, pin)
<1>1. CASE hosts' = hosts
  BY <1>1 DEF KeepsPins
<1>2. CASE HostSaysBye(x)
  <2>1. hosts' = hosts \/ hosts' = [hosts EXCEPT ![regOf[x]].sid = None]
    BY <1>2 DEF HostSaysBye, CloseByHost, regVars
  <2>2. regOf[x] \in Host
    BY <1>2 DEF HostSaysBye, HandlersInv, ServesItsHost
  <2> QED
    BY <1>1, <2>1, <2>2, SameEntryPins DEF HandlersInv
<1>3. CASE HostExits(x)
  <2>1. hosts' = hosts \/ hosts' = [hosts EXCEPT ![regOf[x]] = NoHost]
    BY <1>3 DEF HostExits, UnregisterHost, regVars
  <2> QED
    BY <1>1, <2>1 DEF KeepsPins, HandlersInv, TypeOK, NoHost
<1> QED
  BY <1>1, <1>2, <1>3 DEF HostStep, HostReceives, HostRelays, regVars

LEMMA ClientsKeepPins ==
    ASSUME HandlersInv, NEW c \in Client, ClientStep(c)
    PROVE  \/ KeepsPins
           \/ \E pin \in Pin : ClientRotates(c, pin) /\ RotatesOnJoin(c)
<1>1. CASE hosts' = hosts
  BY <1>1 DEF KeepsPins
<1>2. ASSUME NEW h \in Host, NEW s \in Sid, Enter(h, c, s)
      PROVE  KeepsPins
  BY <1>2, SameEntryPins DEF Enter, HandlersInv
<1>3. ASSUME NEW s \in Sid, ClientEnters(c, s)
      PROVE  KeepsPins
  BY <1>2, <1>3, JoiningTypes DEF ClientEnters, JoinEnter, HandlersInv
<1>4. \/ hosts' = hosts \/ \E h \in Host, s \in Sid : Enter(h, c, s)
      \/ \E s \in Sid : ClientEnters(c, s)
      \/ \E S : EndSessions(S)
      \/ \E pin \in Pin : ClientRotates(c, pin) /\ RotatesOnJoin(c)
  BY DEF ClientStep, ClientConnectsDevice, JoinByHostId, ClientResolvesPin, JoinResolve, ClientIsRefused, JoinRefused,
         ClientRotates, JoinRotate, ClientRelays, ClientSaysBye, CloseByClient, ClientExits, DisconnectClient, regVars
<1> QED
  BY <1>1, <1>2, <1>3, <1>4, EndSessionsKeepsPins DEF HandlersInv

LEMMA NewPinReaches ==
    ASSUME HandlersInv, PartiesInv, OrderInv, [SigNext]_sigVars,
           NEW h \in Host, NEW x \in HostConn, hosts'[h].tx = x
    PROVE  \/ hosts[h].tx = x /\ hosts'[h].pin = hosts[h].pin
           \/ ReachesNext(x, hosts'[h].pin)
<1>0. FlightType /\ TypeOK /\ x # None /\ x \in Actor
  BY NoneIsNoValue DEF PartiesInv, HandlersInv, Actor, Conn
<1>1. CASE KeepsPins
  BY <1>0, <1>1 DEF KeepsPins
<1>2. CASE hosts'[h] = hosts[h]
  BY <1>2
<1>3. ASSUME NEW y \in HostConn, NEW g \in Host, NEW claimed \in Sid \cup {None}, NEW pin \in Pin,
             HostRegisters(y, g, claimed, pin)
      PROVE  \/ hosts[h].tx = x /\ hosts'[h].pin = hosts[h].pin
             \/ ReachesNext(x, hosts'[h].pin)
  <2>1. /\ hosts' = [hosts EXCEPT ![g] = [tx |-> y, pin |-> pin, sid |-> claimed,
                                          rotates |-> g \in Rotating, expired |-> FALSE]]
        /\ todo' = [todo EXCEPT ![y] = <<Send(y, Msg("Registered", None, pin))>>]
    BY <1>3 DEF HostRegisters, RegisterHost, Todo
  <2>2. CASE h = g
    <3>1. x = y /\ hosts'[h].pin = pin
      BY <1>0, <2>1, <2>2 DEF TypeOK
    <3>2. todo'[x] = <<Send(x, Msg("Registered", None, pin))>>
      BY <1>0, <2>1, <3>1 DEF FlightType
    <3>3. 1 \in DOMAIN todo'[x] /\ todo'[x][1].to = x /\ todo'[x][1].msg.pin = pin
      BY <3>2 DEF Send, Msg
    <3> QED
      BY <1>0, <3>1, <3>3 DEF ReachesNext
  <2> QED
    BY <1>0, <1>2, <2>1, <2>2 DEF TypeOK
<1>4. ASSUME NEW c \in Client, NEW pin \in Pin, ClientRotates(c, pin), RotatesOnJoin(c)
      PROVE  \/ hosts[h].tx = x /\ hosts'[h].pin = hosts[h].pin
             \/ ReachesNext(x, hosts'[h].pin)
  <2> DEFINE g == joining[c].host
  <2>1. /\ g \in Host /\ hosts[g].tx = joining[c].tx
        /\ hosts' = [hosts EXCEPT ![g].pin = pin, ![g].expired = FALSE]
        /\ Announce(c, joining[c].sid, joining[c].tx, pin) /\ pin # None
    BY <1>0, <1>4, JoiningTypes, NoneIsNoValue DEF ClientRotates, JoinRotate, RotatePin, RotatesOnJoin, IsCurrentHost
  <2>2. CASE h = g
    <3>1. hosts'[h] = [hosts[h] EXCEPT !.pin = pin, !.expired = FALSE] /\ hosts[h] \in HostEntry \cup {NoHost}
      BY <1>0, <2>1, <2>2 DEF TypeOK
    <3>2. hosts'[h].tx = hosts[h].tx /\ hosts'[h].pin = pin
      BY <3>1 DEF HostEntry, NoHost
    <3>3. joining[c].tx = x
      BY <2>1, <2>2, <3>2
    <3> DEFINE sends == <<Send(c, Msg("Joined", joining[c].sid, None)), Send(x, Msg("PeerJoined", joining[c].sid, None))>>
                        \o <<Send(x, Msg("PinChanged", None, pin))>>
    <3>4. c \in Actor /\ todo'[c] = sends
      BY <1>0, <2>1, <3>3 DEF Announce, Todo, FlightType, Actor, Conn
    <3>5. 3 \in DOMAIN sends /\ sends[3].to = x /\ sends[3].msg.pin = pin
      BY DEF Send, Msg
    <3> HIDE DEF sends
    <3> QED
      BY <3>2, <3>4, <3>5 DEF ReachesNext
  <2>3. CASE h # g
    BY <1>0, <1>2, <2>1, <2>3 DEF TypeOK
  <2> QED
    BY <2>2, <2>3
<1>5. ASSUME NEW new \in [Expired -> Pin], NEW order \in Bijection(1 .. Cardinality(Expired), Expired),
             RotatorTicks(new, order)
      PROVE  \/ hosts[h].tx = x /\ hosts'[h].pin = hosts[h].pin
             \/ ReachesNext(x, hosts'[h].pin)
  <2>1. /\ hosts'[h] = IF h \in Expired THEN [hosts[h] EXCEPT !.pin = new[h], !.expired = FALSE] ELSE hosts[h]
        /\ todo' = [todo EXCEPT ![Rotator] = PinSends(new, order)]
    BY <1>5 DEF RotatorTicks, RotateExpiredPins, Todo, PinSends
  <2>2. CASE h \in Expired
    <3>1. hosts[h] \in HostEntry
      BY <1>0, <2>2, ExpiredEntries
    <3>2. hosts'[h].tx = hosts[h].tx /\ hosts'[h].pin = new[h]
      BY <2>1, <2>2, <3>1 DEF HostEntry
    <3>3. \E i \in DOMAIN order : order[i] = h
      BY <2>2 DEF Bijection, Surjection, Injection
    <3>4. PICK i \in DOMAIN order : order[i] = h
      BY <3>3
    <3>5. todo'[Rotator] = PinSends(new, order) /\ Rotator \in Actor
      BY <1>0, <2>1 DEF FlightType, Actor
    <3>6. /\ i \in DOMAIN PinSends(new, order)
          /\ PinSends(new, order)[i].to = x
          /\ PinSends(new, order)[i].msg.pin = new[h]
      BY <3>2, <3>4 DEF PinSends, Send, Msg
    <3> QED
      BY <3>2, <3>5, <3>6 DEF ReachesNext
  <2> QED
    BY <1>2, <2>1, <2>2
<1>6. ASSUME NEW g \in Host, PinAges(g)
      PROVE  KeepsPins
  <2>1. hosts' = [hosts EXCEPT ![g] = [hosts[g] EXCEPT !.expired = TRUE]] /\ hosts[g] \in HostEntry \cup {NoHost}
    BY <1>0, <1>6 DEF PinAges, PinExpires, TypeOK
  <2> QED
    BY <1>0, <2>1 DEF TypeOK, KeepsPins, HostEntry, NoHost
<1>7. CASE \E a \in Actor : Sends(a)
  BY <1>2, <1>7 DEF Sends, regVars
<1>8. CASE \E y \in HostConn : HostStep(y)
  BY <1>0, <1>1, <1>3, <1>8, HostsKeepPins
<1>9. CASE \E c \in Client : ClientStep(c)
  BY <1>0, <1>1, <1>4, <1>9, ClientsKeepPins
<1>10. CASE RotationStep
  <2>1. CASE \E g \in Host : PinAges(g)
    BY <1>1, <1>6, <2>1
  <2>2. CASE \E new \in [Expired -> Pin], order \in Bijection(1 .. Cardinality(Expired), Expired) :
                RotatorTicks(new, order)
    BY <1>5, <2>2
  <2> QED
    BY <1>10, <2>1, <2>2 DEF RotationStep
<1>11. CASE \E y \in Conn : Delivers(y) \/ WriterTimesOut(y)
  BY <1>2, <1>11 DEF Delivers, WriterTimesOut, regVars
<1>12. CASE UNCHANGED sigVars
  BY <1>2, <1>12 DEF sigVars, regVars
<1> QED
  BY <1>7, <1>8, <1>9, <1>10, <1>11, <1>12 DEF SigNext

LEMMA PinTold ==
    ASSUME HandlersInv, PartiesInv, OrderInv, SessionBacked, RegisteredOnce, PinIsTold, [SigNext]_sigVars
    PROVE  RegisteredOnce' /\ PinIsTold'
<1>1. TodoStep
  BY TodoSteps
<1>2. RegisteredOnce'
  BY <1>1, RegisteredStep
<1>3. ASSUME NEW x \in HostConn, NEW h \in Host, hosts'[h].tx = x, gate'[x] = "open", link'[x] # "gone"
      PROVE  ReachesNext(x, hosts'[h].pin)
  <2>1. CASE hosts[h].tx = x /\ hosts'[h].pin = hosts[h].pin
    <3>1. hosts[h] \in HostEntry
      BY <2>1, Entries, NoneIsNoValue DEF Online, HandlersInv
    <3>2. hosts[h].pin \in Pin
      BY <3>1 DEF HostEntry
    <3>3. regOf[x] = h
      BY <2>1 DEF PartiesInv, Registrations, IsCurrentHost
    <3>4. gate[x] = "open"
      BY <1>3, GateStaysShut DEF PartiesInv, Conn
    <3>5. link[x] # "gone"
      <4>1. x \in Conn
        BY DEF Conn
      <4>2. regOf[x] # None
        BY <3>3, NoneIsNoValue
      <4> QED
        BY <1>3, <4>1, <4>2, ConnSteps DEF ConnStep, Idle, Over, GivenUp, Opens, Gets, Hands
    <3>6. Reaches(x, hosts[h].pin)
      BY <2>1, <3>3, <3>4, <3>5, ReachesIsTold DEF PinIsTold, IsCurrentHost
    <3> QED
      BY <1>1, <1>3, <2>1, <3>2, <3>3, <3>6, NoneIsNoValue, ReachStays
  <2> QED
    BY <1>3, <2>1, NewPinReaches
<1>4. PinIsTold'
  BY <1>3, ReachesIsToldNext DEF PinIsTold, IsCurrentHost
<1> QED
  BY <1>2, <1>4

LEMMA PinToldInitially == SigInit => RegisteredOnce /\ PinIsTold
<1> SUFFICES ASSUME SigInit
             PROVE  RegisteredOnce /\ PinIsTold
  OBVIOUS
<1>1. RegisteredOnce
  BY DEF SigInit, RegisteredOnce
<1>2. PinIsTold
  BY NoneIsNoValue DEF SigInit, PinIsTold
<1> QED
  BY <1>1, <1>2

(* D44, for any number of agents, joins and rotations: whoever replaces a   *)
(* PIN, the agent that holds the registration has it, has it queued, or is  *)
(* about to be sent it, unless its connection is already being closed.      *)
THEOREM PinsAreTold == SigSpec => []PinIsTold
<1>1. HandlersInv /\ PartiesInv /\ OrderInv /\ SessionBacked /\ RegisteredOnce /\ PinIsTold /\ [SigNext]_sigVars
      => RegisteredOnce' /\ PinIsTold'
  BY PinTold
<1> QED
  BY OrderInvariant, PinToldInitially, <1>1, ServerKeepsRegistry, PTL DEF SigSpec
=============================================================================
