--------------------------- MODULE HostAgentProofs ---------------------------
(***************************************************************************)
(* The agent's session slot for any number of sessions, clients, events    *)
(* and reconnects.                                                         *)
(***************************************************************************)
EXTENDS HostAgent, TLAPS

USE AgentConstants

Peer == [sid : Sid, open : BOOLEAN]
WireMsg == [type : {"PeerJoined", "BadAnswer", "PakeStart", "PakeFinish", "Bye"}, sid : Sid]

SlotTyped ==
    /\ active \in DOMAIN peers \cup {None} /\ current \in Sid \cup {None}
    /\ grace \in [epoch : Nat, pending : Nat]
    /\ peers \in Seq(Peer)
    /\ status \in {"offline", "registered", "in_session"}
    /\ active = None => grace = NoGrace
    /\ ~Online => status = "offline"

SlotInv == SlotTyped /\ SlotWhole /\ StatusIsTrue

LoginTyped ==
    /\ pending \in Wait \cup {None}
    /\ failures \in 0 .. MaxAttempts + 1 /\ locked \in BOOLEAN /\ gens \in Nat

-----------------------------------------------------------------------------
(* The slot's own operations.                                               *)
LEMMA ShutPeers ==
    ASSUME peers \in Seq(Peer), NEW t
    PROVE  /\ Shut(t) \in Seq(Peer) /\ Len(Shut(t)) = Len(peers)
           /\ \A u \in DOMAIN peers : /\ Shut(t)[u].sid = peers[u].sid
                                      /\ Shut(t)[u].open = (peers[u].open /\ u # t)
<1>1. /\ DOMAIN peers = 1 .. Len(peers) /\ Len(peers) \in Nat
      /\ \A u \in 1 .. Len(peers) : peers[u] \in Peer
  OBVIOUS
<1>2. Shut(t) = [u \in 1 .. Len(peers) |->
                   IF u = t THEN [peers[u] EXCEPT !.open = FALSE] ELSE peers[u]]
  BY <1>1 DEF Shut
<1>3. \A u \in 1 .. Len(peers) : /\ Shut(t)[u] \in Peer
                                 /\ Shut(t)[u].sid = peers[u].sid
                                 /\ Shut(t)[u].open = (peers[u].open /\ u # t)
  BY <1>1, <1>2 DEF Peer
<1>4. Shut(t) \in [1 .. Len(peers) -> Peer]
  BY <1>2, <1>3
<1> QED
  BY <1>1, <1>3, <1>4

LEMMA CloseActiveKeepsSlot ==
    ASSUME SlotInv, link' = link, CloseActive
    PROVE  SlotInv'
<1>1. /\ Shut(active) \in Seq(Peer) /\ Len(Shut(active)) = Len(peers)
      /\ \A u \in DOMAIN peers : Shut(active)[u].open = (peers[u].open /\ u # active)
  BY ShutPeers DEF SlotInv, SlotTyped
<1>2. DOMAIN Shut(active) = DOMAIN peers
  BY DEF Shut
<1>3. SlotTyped'
  BY <1>1 DEF SlotInv, SlotTyped, CloseActive, NoGrace, Shows, Online
<1>4. ASSUME NEW t \in DOMAIN peers'
      PROVE  ~peers'[t].open /\ t # active'
  <2>1. t \in DOMAIN peers /\ peers' = Shut(active) /\ active' = None
    BY <1>2 DEF CloseActive
  <2>2. t \in Nat
    BY <2>1 DEF SlotInv, SlotTyped
  <2>3. peers[t].open <=> t = active
    BY <2>1 DEF SlotInv, SlotWhole
  <2> QED
    BY <1>1, <2>1, <2>2, <2>3
<1>5. peers' \in Seq(Peer)
  BY <1>1 DEF CloseActive
<1>6. \A t \in DOMAIN peers' : peers'[t].open \in BOOLEAN
  <2>1. \A t \in DOMAIN peers' : peers'[t] \in Peer
    BY <1>5
  <2> QED
    BY <2>1 DEF Peer
<1>7. \A t \in DOMAIN peers' : peers'[t].open <=> t = active'
  BY <1>4, <1>6
<1>8. active' = None /\ current' = None
  BY DEF CloseActive
<1>9. StatusIsTrue'
  BY DEF SlotInv, SlotTyped, StatusIsTrue, CloseActive, Shows, Online
<1> QED
  BY <1>3, <1>7, <1>8, <1>9 DEF SlotInv, SlotWhole

LEMMA EndHereKeepsSlot ==
    ASSUME SlotInv, link' = link, NEW s, EndHere(s)
    PROVE  SlotInv'
BY CloseActiveKeepsSlot DEF EndHere

LEMMA TakeoverKeepsSlot ==
    ASSUME SlotInv, link' = link, NEW s \in Sid, Takeover(s)
    PROVE  /\ SlotInv'
           /\ active' # None => peers'[active'].sid = s
<1>1. CASE EndHere(s)
  BY <1>1, EndHereKeepsSlot DEF EndHere, CloseActive
<1>2. CASE ~EndHere(s)
  <2> DEFINE new == [sid |-> s, open |-> TRUE]
             old == Shut(active)
  <2>1. /\ peers' = Append(old, new) /\ active' = Len(peers) + 1
        /\ current' = s /\ grace' = NoGrace
        /\ (active = None /\ status' = status) \/ Shows("registered")
    BY <1>2 DEF Takeover
  <2>2. /\ old \in Seq(Peer) /\ Len(old) = Len(peers) /\ Len(peers) \in Nat
        /\ DOMAIN peers = 1 .. Len(peers)
        /\ \A u \in DOMAIN peers : old[u].open = (peers[u].open /\ u # active)
    BY ShutPeers DEF SlotInv, SlotTyped
  <2>3. new \in Peer
    BY DEF Peer
  <2> HIDE DEF new, old
  <2>4. /\ peers' \in Seq(Peer) /\ DOMAIN peers' = 1 .. Len(peers) + 1
        /\ peers'[Len(peers) + 1] = new
        /\ \A u \in 1 .. Len(peers) : peers'[u] = old[u]
    BY <2>1, <2>2, <2>3
  <2>5. SlotTyped'
    BY <2>1, <2>2, <2>4 DEF SlotInv, SlotTyped, NoGrace, Shows, Online
  <2>6. \A u \in 1 .. Len(peers) : ~peers'[u].open
    BY <2>2, <2>4 DEF SlotInv, SlotWhole
  <2>7. new.open = TRUE /\ new.sid = s
    BY DEF new
  <2>8. \A t \in DOMAIN peers' : peers'[t].open <=> t = active'
    BY <2>1, <2>2, <2>4, <2>6, <2>7
  <2>9. active' # None /\ current' # None /\ peers'[active'].sid = s
    BY <2>1, <2>2, <2>4, <2>7
  <2> QED
    BY <2>1, <2>5, <2>8, <2>9 DEF SlotInv, SlotWhole, StatusIsTrue
<1> QED
  BY <1>1, <1>2

-----------------------------------------------------------------------------
(* The inductive invariant: the slot with the login, the two channels, the  *)
(* link and the server's bookkeeping.                                       *)
PeerSent == [type : PeerEvents, tag : Nat, sid : {None}, gen : {0}]
TimerSent == [type : {"AuthTimeout", "DisconnectTimeout"}, tag : {None}, sid : Sid, gen : Nat]
Event == PeerSent \cup TimerSent

QueueTyped ==
    /\ events \in Seq(Event) /\ Len(events) <= QueueCap
    /\ inbox \in Seq(WireMsg)

LinkTyped ==
    /\ password \in {"missing", "present", "unusable"}
    /\ link \in {"offline", "connecting", "registering", "up"}
    /\ claim \in Sid \cup {None}

(* A session the server keeps is one of a registered device.                *)
ServerTyped ==
    /\ reg \in BOOLEAN /\ held \in BOOLEAN /\ busy \in Sid \cup {None}
    /\ fresh \subseteq Sid
    /\ busy # None => reg
    /\ held => busy # None

(* What a handler may change.                                               *)
HandlerInv ==
    /\ SlotInv /\ LoginTyped
    /\ pending # None => Online
    /\ timers \subseteq TimerSent

AgentInv == HandlerInv /\ QueueTyped /\ LinkTyped /\ ServerTyped

-----------------------------------------------------------------------------
(* Messages of the server.                                                  *)
LEMMA PeerJoinedKeeps ==
    ASSUME HandlerInv, LinkTyped, Online, link' = link, NEW s \in Sid, ReadsPeerJoined(s)
    PROVE  /\ HandlerInv'
           /\ active' # active /\ active' # None => password = "missing"
<1>1. CASE password = "unusable"
  BY <1>1 DEF ReadsPeerJoined, HandlerInv, SlotInv, SlotTyped, SlotWhole, StatusIsTrue,
              LoginTyped, NoWait, slotVars, Online
<1>2. CASE password = "present"
  <2>1. /\ pending' \in Wait /\ gens' \in Nat /\ UNCHANGED <<failures, locked>>
        /\ timers' \subseteq TimerSent
    <3>1. /\ gens \in Nat /\ gens + 1 \in Nat \ {0} /\ timers \subseteq TimerSent
          /\ pending' = [sid |-> s, login |-> FALSE, gen |-> gens + 1] /\ gens' = gens + 1
          /\ timers' = timers \cup {TimerEvent("AuthTimeout", s, gens + 1)}
          /\ UNCHANGED <<failures, locked>>
      BY <1>2 DEF ReadsPeerJoined, HandlerInv, LoginTyped
    <3>2. TimerEvent("AuthTimeout", s, gens + 1) \in TimerSent
      BY <3>1 DEF TimerEvent, TimerSent
    <3> QED
      BY <3>1, <3>2 DEF Wait
  <2>2. UNCHANGED <<active, current, grace, peers, status>>
    BY <1>2 DEF ReadsPeerJoined, slotVars
  <2>3. SlotInv'
    BY <2>2 DEF HandlerInv, SlotInv, SlotTyped, SlotWhole, StatusIsTrue, Online
  <2> QED
    BY <2>1, <2>2, <2>3 DEF HandlerInv, LoginTyped, Online
<1>3. CASE password = "missing"
  <2>1. SlotInv'
    BY <1>3, TakeoverKeepsSlot DEF ReadsPeerJoined, HandlerInv
  <2> QED
    BY <1>3, <2>1 DEF ReadsPeerJoined, HandlerInv, LoginTyped, NoWait
<1> QED
  BY <1>1, <1>2, <1>3 DEF LinkTyped

LEMMA BadAnswerKeeps ==
    ASSUME HandlerInv, link' = link, NEW s \in Sid, ReadsBadAnswer(s)
    PROVE  /\ HandlerInv'
           /\ active' # active => active' = None
<1>1. CASE EndHere(s)
  <2>1. SlotInv'
    BY <1>1, EndHereKeepsSlot DEF HandlerInv
  <2> QED
    BY <1>1, <2>1 DEF ReadsBadAnswer, HandlerInv, LoginTyped, loginVars, Online, EndHere, CloseActive
<1>2. CASE UNCHANGED <<slotVars, status, outbox>>
  BY <1>2 DEF ReadsBadAnswer, HandlerInv, SlotInv, SlotTyped, SlotWhole, StatusIsTrue,
              LoginTyped, loginVars, slotVars, Online
<1> QED
  BY <1>1, <1>2 DEF ReadsBadAnswer

LEMMA PakeStartKeeps ==
    ASSUME HandlerInv, link' = link, NEW s \in Sid, ReadsPakeStart(s)
    PROVE  HandlerInv' /\ active' = active
<1>1. UNCHANGED <<active, current, grace, peers, status, timers, gens>>
  BY DEF ReadsPakeStart, slotVars, loginVars
<1>2. SlotInv'
  BY <1>1 DEF HandlerInv, SlotInv, SlotTyped, SlotWhole, StatusIsTrue, Online
<1>3. LoginTyped' /\ (pending' # None => pending # None)
  <2>1. CASE UNCHANGED loginVars
    BY <2>1 DEF HandlerInv, LoginTyped, loginVars
  <2>2. CASE Waiting(s) /\ RunsAttempt(s)
    <3>1. /\ failures' \in 0 .. MaxAttempts + 1 /\ locked' \in BOOLEAN
          /\ MaxAttempts \in Nat
      BY <2>2 DEF RunsAttempt, HandlerInv, LoginTyped
    <3>2. pending' \in {pending, [pending EXCEPT !.login = TRUE]} /\ pending \in Wait
      BY <2>2 DEF RunsAttempt, HandlerInv, LoginTyped, Waiting
    <3> QED
      BY <1>1, <2>2, <3>1, <3>2 DEF HandlerInv, LoginTyped, Waiting, Wait
  <2> QED
    BY <2>1, <2>2 DEF ReadsPakeStart
<1> QED
  BY <1>1, <1>2, <1>3 DEF HandlerInv, Online

LEMMA PakeFinishKeeps ==
    ASSUME HandlerInv, link' = link, NEW s \in Sid, ReadsPakeFinish(s)
    PROVE  /\ HandlerInv'
           /\ active' # active /\ active' # None => peers'[active'].sid \in Knows
<1>1. CASE ~(Waiting(s) /\ pending.login)
  BY <1>1 DEF ReadsPakeFinish, HandlerInv, SlotInv, SlotTyped, SlotWhole, StatusIsTrue,
              LoginTyped, loginVars, slotVars, Online
<1>2. CASE Waiting(s) /\ pending.login /\ s \in Knows
  <2>1. SlotInv' /\ (active' # None => peers'[active'].sid = s)
    BY <1>2, TakeoverKeepsSlot DEF ReadsPakeFinish, HandlerInv
  <2>2. pending' = None /\ failures' = 0 /\ locked' = FALSE /\ UNCHANGED <<gens, timers>>
    BY <1>2 DEF ReadsPakeFinish
  <2>3. MaxAttempts \in Nat
    BY DEF AgentConstants
  <2>4. LoginTyped'
    <3>1. gens' \in Nat
      BY <2>2 DEF HandlerInv, LoginTyped
    <3>2. failures' \in 0 .. MaxAttempts + 1
      BY <2>2, <2>3
    <3>3. locked' \in BOOLEAN
      BY <2>2
    <3> QED
      BY <2>2, <3>1, <3>2, <3>3 DEF LoginTyped
  <2> QED
    BY <1>2, <2>1, <2>2, <2>4 DEF HandlerInv
<1>3. CASE Waiting(s) /\ pending.login /\ s \notin Knows
  <2>1. /\ UNCHANGED <<active, current, grace, peers, status, timers, failures, locked, gens>>
        /\ pending' = [pending EXCEPT !.login = FALSE]
    BY <1>3 DEF ReadsPakeFinish, slotVars
  <2>2. SlotInv'
    BY <2>1 DEF HandlerInv, SlotInv, SlotTyped, SlotWhole, StatusIsTrue, Online
  <2>3. pending' \in Wait /\ pending # None
    BY <1>3, <2>1 DEF HandlerInv, LoginTyped, Waiting, Wait
  <2> QED
    BY <2>1, <2>2, <2>3 DEF HandlerInv, LoginTyped, Online
<1> QED
  BY <1>1, <1>2, <1>3

LEMMA ByeKeeps ==
    ASSUME HandlerInv, link' = link, NEW s \in Sid, ReadsBye(s)
    PROVE  /\ HandlerInv'
           /\ active' # active => active' = None
<1>1. CASE CloseActive /\ UNCHANGED loginVars
  <2>1. SlotInv'
    BY <1>1, CloseActiveKeepsSlot DEF HandlerInv
  <2> QED
    BY <1>1, <2>1 DEF ReadsBye, HandlerInv, LoginTyped, loginVars, Online, CloseActive
<1>2. CASE UNCHANGED <<slotVars, status>>
  BY <1>2 DEF ReadsBye, HandlerInv, SlotInv, SlotTyped, SlotWhole, StatusIsTrue,
              LoginTyped, loginVars, slotVars, NoWait, CloseActive, Online
<1> QED
  BY <1>1, <1>2 DEF ReadsBye

-----------------------------------------------------------------------------
(* Session events and the owner.                                            *)
HasEnded == active' = None

LEMMA SlotUntouched ==
    ASSUME HandlerInv, link' = link, UNCHANGED <<slotVars, status>>
    PROVE  SlotInv' /\ active' = active
BY DEF HandlerInv, SlotInv, SlotTyped, SlotWhole, StatusIsTrue, slotVars, Online

LEMMA EndsOrNot ==
    ASSUME HandlerInv, link' = link, UNCHANGED <<loginVars, timers>>, NEW s, NEW P \in BOOLEAN,
           IF P THEN EndHere(s) ELSE UNCHANGED <<slotVars, status, outbox>>
    PROVE  HandlerInv' /\ (active' = active \/ (P /\ HasEnded))
<1>1. LoginTyped' /\ (pending' # None => Online') /\ timers' \subseteq TimerSent
  BY DEF HandlerInv, LoginTyped, loginVars, Online
<1>2. CASE P
  <2>1. SlotInv'
    BY <1>2, EndHereKeepsSlot DEF HandlerInv
  <2> QED
    BY <1>1, <1>2, <2>1 DEF HandlerInv, EndHere, CloseActive, HasEnded
<1>3. CASE ~P
  BY <1>1, <1>3, SlotUntouched DEF HandlerInv
<1> QED
  BY <1>2, <1>3

LEMMA ConnectedKeeps ==
    ASSUME HandlerInv, link' = link, NEW e \in Event, e.type = "Connected", OnConnected(e)
    PROVE  HandlerInv' /\ active' = active
<1>1. LoginTyped' /\ (pending' # None => Online') /\ timers' \subseteq TimerSent
  BY DEF OnConnected, HandlerInv, LoginTyped, loginVars, Online
<1>2. e.tag # None
  BY DEF AgentConstants, Event, PeerSent, TimerSent
<1>3. CASE e.tag = active
  <2>1. /\ grace' = [grace EXCEPT !.pending = 0] /\ Shows("in_session")
        /\ UNCHANGED <<active, current, peers>>
    BY <1>3 DEF OnConnected
  <2>2. grace' \in [epoch : Nat, pending : Nat]
    BY <2>1 DEF HandlerInv, SlotInv, SlotTyped
  <2> QED
    BY <1>1, <1>2, <1>3, <2>1, <2>2
    DEF HandlerInv, SlotInv, SlotTyped, SlotWhole, StatusIsTrue, Shows, Online
<1>4. CASE e.tag # active
  BY <1>1, <1>4, SlotUntouched DEF OnConnected, slotVars, HandlerInv
<1> QED
  BY <1>3, <1>4

LEMMA DisconnectedKeeps ==
    ASSUME HandlerInv, link' = link, NEW e \in Event, e.type = "Disconnected", OnDisconnected(e)
    PROVE  HandlerInv' /\ active' = active
<1>1. LoginTyped' /\ (pending' # None => Online')
  BY DEF OnDisconnected, HandlerInv, LoginTyped, loginVars, Online
<1>2. e.tag # None
  BY DEF AgentConstants, Event, PeerSent, TimerSent
<1>3. CASE e.tag = active /\ grace.pending = 0
  <2> DEFINE t == TimerEvent("DisconnectTimeout", current, grace.epoch + 1)
  <2>1. /\ grace' = [epoch |-> grace.epoch + 1, pending |-> grace.epoch + 1]
        /\ timers' = timers \cup {t}
        /\ UNCHANGED <<active, current, peers, status>>
    BY <1>3 DEF OnDisconnected
  <2>2. grace.epoch + 1 \in Nat
    BY DEF HandlerInv, SlotInv, SlotTyped
  <2>3. current \in Sid /\ active # None
    BY <1>2, <1>3 DEF HandlerInv, SlotInv, SlotTyped, SlotWhole
  <2>4. t \in TimerSent
    BY <2>2, <2>3 DEF TimerEvent, TimerSent
  <2>5. SlotInv'
    BY <2>1, <2>2, <2>3 DEF HandlerInv, SlotInv, SlotTyped, SlotWhole, StatusIsTrue, Online
  <2> QED
    BY <1>1, <2>1, <2>4, <2>5 DEF HandlerInv
<1>4. CASE ~(e.tag = active /\ grace.pending = 0)
  BY <1>1, <1>4, SlotUntouched DEF OnDisconnected, slotVars, HandlerInv
<1> QED
  BY <1>3, <1>4

LEMMA AuthTimeoutKeeps ==
    ASSUME HandlerInv, link' = link, NEW e, OnAuthTimeout(e)
    PROVE  HandlerInv' /\ active' = active
<1>1. SlotInv' /\ active' = active
  BY SlotUntouched DEF OnAuthTimeout
<1>2. LoginTyped' /\ (pending' # None => Online') /\ timers' \subseteq TimerSent
  BY DEF OnAuthTimeout, HandlerInv, LoginTyped, loginVars, NoWait, Online
<1> QED
  BY <1>1, <1>2 DEF HandlerInv

LEMMA EventKeeps ==
    ASSUME AgentInv, AgentHandlesEvent
    PROVE  /\ HandlerInv'
           /\ \/ active' = active
              \/ /\ HasEnded
                 /\ \/ Head(events).tag = active
                    \/ Head(events).sid = current /\ Head(events).gen = grace.pending
<1> DEFINE e == Head(events)
<1>1. e \in Event /\ link' = link /\ HandlerInv
  BY DEF AgentInv, QueueTyped, AgentHandlesEvent, linkVars
<1>2. CASE e.type = "Ice" /\ OnIce(e)
  <2>1. UNCHANGED <<slotVars, status, loginVars, timers>>
    BY <1>2 DEF OnIce
  <2> QED
    BY <1>1, <2>1, SlotUntouched DEF HandlerInv, LoginTyped, loginVars, Online
<1>3. CASE e.type = "Connected" /\ OnConnected(e)
  BY <1>1, <1>3, ConnectedKeeps
<1>4. CASE e.type = "Disconnected" /\ OnDisconnected(e)
  BY <1>1, <1>4, DisconnectedKeeps
<1>5. CASE e.type = "Over" /\ OnOver(e)
  BY <1>1, <1>5, EndsOrNot DEF OnOver
<1>6. CASE e.type = "DisconnectTimeout" /\ OnDisconnectTimeout(e)
  BY <1>1, <1>6, EndsOrNot DEF OnDisconnectTimeout
<1>7. CASE e.type = "AuthTimeout" /\ OnAuthTimeout(e)
  BY <1>1, <1>7, AuthTimeoutKeeps
<1> QED
  BY <1>2, <1>3, <1>4, <1>5, <1>6, <1>7 DEF AgentHandlesEvent

LEMMA MessageKeeps ==
    ASSUME AgentInv, AgentReads
    PROVE  /\ HandlerInv'
           /\ active' # active /\ active' # None =>
                 password = "missing" \/ peers'[active'].sid \in Knows
<1> DEFINE m == Head(inbox)
<1>1. m \in WireMsg /\ link' = link /\ HandlerInv /\ LinkTyped /\ Online
  BY DEF AgentInv, QueueTyped, AgentReads, linkVars
<1>2. m.sid \in Sid
  BY <1>1 DEF WireMsg
<1>3. CASE ReadsPeerJoined(m.sid)
  BY <1>1, <1>2, <1>3, PeerJoinedKeeps
<1>4. CASE ReadsBadAnswer(m.sid)
  BY <1>1, <1>2, <1>4, BadAnswerKeeps
<1>5. CASE ReadsPakeStart(m.sid)
  BY <1>1, <1>2, <1>5, PakeStartKeeps
<1>6. CASE ReadsPakeFinish(m.sid)
  BY <1>1, <1>2, <1>6, PakeFinishKeeps
<1>7. CASE ReadsBye(m.sid)
  BY <1>1, <1>2, <1>7, ByeKeeps
<1> QED
  BY <1>3, <1>4, <1>5, <1>6, <1>7 DEF AgentReads

LEMMA OwnerKeeps ==
    ASSUME HandlerInv, OwnerEndsSession
    PROVE  HandlerInv' /\ (active' # active => HasEnded)
<1>1. link' = link /\ UNCHANGED timers
  BY DEF OwnerEndsSession, linkVars
<1>2. CASE EndHere(current) /\ UNCHANGED loginVars
  <2>1. SlotInv'
    BY <1>1, <1>2, EndHereKeepsSlot DEF HandlerInv
  <2> QED
    BY <1>1, <1>2, <2>1 DEF HandlerInv, LoginTyped, loginVars, Online, EndHere, CloseActive, HasEnded
<1>3. CASE NoWait /\ UNCHANGED <<slotVars, status>>
  BY <1>1, <1>3, SlotUntouched DEF HandlerInv, LoginTyped, NoWait
<1> QED
  BY <1>2, <1>3 DEF OwnerEndsSession

-----------------------------------------------------------------------------
(* The other steps leave the slot alone.                                    *)
LEMMA HandlerUntouched ==
    ASSUME HandlerInv, UNCHANGED <<slotVars, pending, failures, gens>>, locked' \in BOOLEAN,
           timers' \subseteq timers, link' = link, UNCHANGED status
    PROVE  HandlerInv' /\ active' = active
<1>1. SlotInv' /\ active' = active
  BY SlotUntouched
<1> QED
  BY <1>1 DEF HandlerInv, LoginTyped, Online

LEMMA SurroundingsKeep ==
    ASSUME AgentInv, Surroundings
    PROVE  AgentInv' /\ active' = active
<1>0. HandlerInv /\ LinkTyped /\ ServerTyped /\ QueueTyped /\ locked \in BOOLEAN
  BY DEF AgentInv, HandlerInv, LoginTyped
<1>1. ASSUME NEW t \in DOMAIN peers, NEW type \in PeerEvents, PeerEmits(t, type)
      PROVE  AgentInv' /\ active' = active
  <2>1. /\ Len(events) < QueueCap /\ events' = Append(events, PeerEvent(type, t))
        /\ UNCHANGED <<inbox, locked, timers, status, pending, failures, gens, slotVars>>
        /\ UNCHANGED <<password, link, claim, reg, busy, held, fresh>>
    BY <1>1 DEF PeerEmits, loginVars, linkVars, serverVars
  <2>2. PeerEvent(type, t) \in Event
    BY <1>0 DEF PeerEvent, Event, PeerSent, HandlerInv, SlotInv, SlotTyped
  <2>3. QueueTyped'
    BY <1>0, <2>1, <2>2 DEF QueueTyped, AgentConstants
  <2> QED
    BY <1>0, <2>1, <2>3, HandlerUntouched DEF AgentInv, LinkTyped, ServerTyped
<1>2. ASSUME NEW e \in timers, TimerFires(e)
      PROVE  AgentInv' /\ active' = active
  <2>1. /\ Len(events) < QueueCap /\ events' = Append(events, e)
        /\ timers' \subseteq timers
        /\ UNCHANGED <<inbox, locked, status, pending, failures, gens, slotVars>>
        /\ UNCHANGED <<password, link, claim, reg, busy, held, fresh>>
    BY <1>2 DEF TimerFires, loginVars, linkVars, serverVars
  <2>2. e \in Event
    BY <1>0 DEF Event, HandlerInv
  <2>3. QueueTyped'
    BY <1>0, <2>1, <2>2 DEF QueueTyped, AgentConstants
  <2> QED
    BY <1>0, <2>1, <2>3, HandlerUntouched DEF AgentInv, LinkTyped, ServerTyped
<1>3. CASE PauseLapses
  BY <1>0, <1>3, HandlerUntouched
  DEF PauseLapses, linkVars, serverVars, AgentInv, LinkTyped, ServerTyped, QueueTyped
<1>4. ASSUME NEW p \in Passwords, PasswordChanges(p)
      PROVE  AgentInv' /\ active' = active
  <2>1. LinkTyped'
    BY <1>0, <1>4 DEF PasswordChanges, LinkTyped, linkVars, AgentConstants
  <2>2. UNCHANGED <<slotVars, pending, failures, gens, locked, timers, link, status>>
    BY <1>4 DEF PasswordChanges, loginVars, linkVars
  <2>3. UNCHANGED <<events, inbox, reg, busy, held, fresh>>
    BY <1>4 DEF PasswordChanges, serverVars
  <2>4. HandlerInv' /\ active' = active
    BY <1>0, <2>2, HandlerUntouched
  <2>5. ServerTyped' /\ QueueTyped'
    BY <1>0, <2>3 DEF ServerTyped, QueueTyped
  <2> QED
    BY <2>1, <2>4, <2>5 DEF AgentInv
<1> QED
  BY <1>1, <1>2, <1>3, <1>4 DEF Surroundings

LEMMA ServerUntouched ==
    ASSUME ServerTyped, UNCHANGED serverVars
    PROVE  ServerTyped'
<1>1. reg' = reg /\ busy' = busy /\ held' = held /\ fresh' = fresh
  BY DEF serverVars
<1> QED
  BY <1>1, Zenon DEF ServerTyped

LEMMA LeavesServerTyped ==
    ASSUME ServerTyped, busy' = None, held' = FALSE, reg' = reg, fresh' = fresh
    PROVE  ServerTyped'
BY Zenon DEF ServerTyped

LEMMA LinkStepKeeps ==
    ASSUME AgentInv, LinkStep
    PROVE  AgentInv' /\ active' = active
<1>0. HandlerInv /\ LinkTyped /\ ServerTyped /\ QueueTyped
  BY DEF AgentInv
<1>1. /\ UNCHANGED <<active, current, grace, peers, failures, locked, gens, timers, password, events>>
      /\ pending' \in {pending, None}
  BY DEF LinkStep, Connects, Registers, HandshakeEnds, LinkLost, slotVars, loginVars
<1>2. QueueTyped'
  <2>1. events' = events /\ (inbox' = inbox \/ inbox' = <<>>)
    BY <1>1 DEF LinkStep, Connects, Registers, HandshakeEnds, LinkLost
  <2>2. <<>> \in Seq(WireMsg)
    OBVIOUS
  <2>3. inbox' \in Seq(WireMsg)
    BY <1>0, <2>1, <2>2 DEF QueueTyped
  <2> QED
    BY <1>0, <2>1, <2>3 DEF QueueTyped
<1>3. LinkTyped'
  BY <1>0, <1>1
  DEF LinkStep, Connects, Registers, HandshakeEnds, LinkLost, LinkTyped, HandlerInv, SlotInv, SlotTyped
<1>4. ServerTyped'
  <2>1. CASE UNCHANGED serverVars
    BY <1>0, <2>1, ServerUntouched
  <2>2. CASE Registers
    <3>1. reg' = TRUE /\ busy' = claim /\ held' = (held /\ busy = claim) /\ fresh' = fresh
      BY <2>2 DEF Registers
    <3>2. held' \in BOOLEAN /\ (held' => held /\ busy = claim)
      BY <3>1
    <3> QED
      BY <1>0, <3>1, <3>2 DEF ServerTyped, LinkTyped
  <2> QED
    BY <2>1, <2>2 DEF LinkStep, Connects, HandshakeEnds, LinkLost
<1>5. LoginTyped' /\ timers' \subseteq TimerSent
  BY <1>0, <1>1 DEF HandlerInv, LoginTyped
<1>6. /\ status' \in {"offline", "registered", "in_session"}
      /\ ~Online' => status' = "offline"
      /\ status' = "in_session" => active # None
      /\ pending' # None => Online'
  BY <1>0 DEF LinkStep, Connects, Registers, HandshakeEnds, LinkLost, HandlerInv,
              SlotInv, SlotTyped, StatusIsTrue, Online, loginVars
<1>7. SlotInv'
  BY <1>0, <1>1, <1>6 DEF HandlerInv, SlotInv, SlotTyped, SlotWhole, StatusIsTrue
<1> QED
  BY <1>1, <1>2, <1>3, <1>4, <1>5, <1>6, <1>7 DEF AgentInv, HandlerInv

LEMMA ServerStepKeeps ==
    ASSUME AgentInv, ServerStep
    PROVE  AgentInv' /\ active' = active
<1>0. HandlerInv /\ LinkTyped /\ ServerTyped /\ QueueTyped /\ locked \in BOOLEAN
  BY DEF AgentInv, HandlerInv, LoginTyped
<1>1. Elsewhere
  BY DEF ServerStep, ServerNoticesLoss, ServerReads, ClientJoins, ClientSays, ClientLeaves
<1>2. HandlerInv' /\ active' = active
  BY <1>0, <1>1, HandlerUntouched DEF Elsewhere, loginVars, linkVars
<1>3. LinkTyped'
  BY <1>0, <1>1 DEF Elsewhere, LinkTyped, linkVars
<1>4. ASSUME NEW m \in WireMsg, inbox' = inbox \/ Reaches(m)
      PROVE  QueueTyped'
  BY <1>0, <1>1, <1>4 DEF Reaches, QueueTyped, Elsewhere
<1>5. CASE ServerNoticesLoss
  <2>1. ServerTyped' /\ inbox' = inbox
    BY <1>0, <1>5 DEF ServerNoticesLoss, ServerTyped
  <2>2. QueueTyped'
    BY <1>0, <1>1, <2>1 DEF QueueTyped, Elsewhere
  <2> QED
    BY <1>2, <1>3, <2>1, <2>2 DEF AgentInv
<1>6. CASE ServerReads
  <2>1. ServerTyped' /\ inbox' = inbox
    <3>1. inbox' = inbox
      BY <1>6 DEF ServerReads
    <3>2. \/ UNCHANGED serverVars
          \/ busy' = None /\ held' = FALSE /\ reg' = reg /\ fresh' = fresh
      BY <1>6 DEF ServerReads
    <3> QED
      BY <1>0, <3>1, <3>2, ServerUntouched, LeavesServerTyped
  <2>2. QueueTyped'
    BY <1>0, <1>1, <2>1 DEF QueueTyped, Elsewhere
  <2> QED
    BY <1>2, <1>3, <2>1, <2>2 DEF AgentInv
<1>7. ASSUME NEW s \in Sid, ClientJoins(s)
      PROVE  AgentInv'
  <2>1. ServerTyped'
    BY <1>0, <1>7 DEF ClientJoins, ServerTyped, AgentConstants
  <2>2. Msg("PeerJoined", s) \in WireMsg
    BY DEF Msg, WireMsg
  <2> QED
    BY <1>2, <1>3, <1>4, <1>7, <2>1, <2>2 DEF AgentInv, ClientJoins
<1>8. ASSUME NEW s \in Sid, ClientSays(s)
      PROVE  AgentInv'
  <2>1. ServerTyped'
    BY <1>0, <1>8 DEF ClientSays, ServerTyped, serverVars
  <2>2. PICK type \in NextOf(s) : Reaches(Msg(type, s))
    BY <1>8 DEF ClientSays
  <2>3. type \in {"PakeStart", "PakeFinish", "BadAnswer"}
    BY <2>2 DEF NextOf
  <2>4. Msg(type, s) \in WireMsg
    BY <2>3 DEF Msg, WireMsg
  <2> QED
    BY <1>2, <1>3, <1>4, <2>1, <2>2, <2>4 DEF AgentInv
<1>9. ASSUME NEW s \in Sid, ClientLeaves(s)
      PROVE  AgentInv'
  <2>1. ServerTyped'
    BY <1>0, <1>9 DEF ClientLeaves, ServerTyped
  <2>2. Msg("Bye", s) \in WireMsg
    BY DEF Msg, WireMsg
  <2> QED
    BY <1>2, <1>3, <1>4, <1>9, <2>1, <2>2 DEF AgentInv, ClientLeaves
<1> QED
  BY <1>2, <1>5, <1>6, <1>7, <1>8, <1>9 DEF ServerStep

-----------------------------------------------------------------------------
LEMMA AgentStarts ==
    AgentInit => AgentInv
<1> SUFFICES ASSUME AgentInit PROVE AgentInv
  OBVIOUS
<1>1. /\ peers = <<>> /\ peers \in Seq(Peer) /\ DOMAIN peers = {}
      /\ events \in Seq(Event) /\ inbox \in Seq(WireMsg) /\ Len(events) = 0
  BY DEF AgentInit
<1>2. MaxAttempts \in Nat /\ QueueCap \in Nat /\ Passwords \subseteq {"missing", "present", "unusable"}
  BY DEF AgentConstants
<1>3. SlotInv
  BY <1>1 DEF AgentInit, SlotInv, SlotTyped, SlotWhole, StatusIsTrue, NoGrace
<1>4. LoginTyped /\ timers = {} /\ pending = None
  <2>1. pending = None /\ failures = 0 /\ locked = FALSE /\ gens = 0 /\ timers = {}
    BY DEF AgentInit
  <2>2. locked \in BOOLEAN
    BY <2>1
  <2> QED
    BY <1>2, <2>1, <2>2 DEF LoginTyped
<1>5. QueueTyped /\ LinkTyped
  BY <1>1, <1>2 DEF AgentInit, QueueTyped, LinkTyped
<1>6. ServerTyped
  BY Zenon DEF AgentInit, ServerTyped
<1> QED
  BY <1>3, <1>4, <1>5, <1>6 DEF AgentInv, HandlerInv

LEMMA OthersUntouched ==
    ASSUME AgentInv, UNCHANGED <<password, linkVars, serverVars>>
    PROVE  LinkTyped' /\ ServerTyped'
BY ServerUntouched DEF AgentInv, LinkTyped, linkVars

LEMMA AgentStepKeeps ==
    AgentInv /\ [AgentNext]_agentVars => AgentInv'
<1> SUFFICES ASSUME AgentInv, [AgentNext]_agentVars PROVE AgentInv'
  OBVIOUS
<1>0. QueueTyped /\ HandlerInv
  BY DEF AgentInv
<1>1. CASE AgentReads
  <2>1. QueueTyped'
    BY <1>0, <1>1 DEF AgentReads, QueueTyped
  <2>2. UNCHANGED <<password, linkVars, serverVars>>
    BY <1>1 DEF AgentReads
  <2> QED
    BY <1>1, <2>1, <2>2, MessageKeeps, OthersUntouched DEF AgentInv
<1>2. CASE AgentHandlesEvent
  <2>1. QueueTyped'
    BY <1>0, <1>2 DEF AgentHandlesEvent, QueueTyped
  <2>2. UNCHANGED <<password, linkVars, serverVars>>
    BY <1>2 DEF AgentHandlesEvent
  <2> QED
    BY <1>2, <2>1, <2>2, EventKeeps, OthersUntouched DEF AgentInv
<1>3. CASE OwnerEndsSession
  <2>1. QueueTyped'
    BY <1>0, <1>3 DEF OwnerEndsSession, QueueTyped
  <2>2. UNCHANGED <<password, linkVars, serverVars>>
    BY <1>3 DEF OwnerEndsSession
  <2> QED
    BY <1>0, <1>3, <2>1, <2>2, OwnerKeeps, OthersUntouched DEF AgentInv
<1>4. CASE LinkStep
  BY <1>4, LinkStepKeeps
<1>5. CASE ServerStep
  BY <1>5, ServerStepKeeps
<1>6. CASE Surroundings
  BY <1>6, SurroundingsKeep
<1>7. CASE UNCHANGED agentVars
  <2>1. /\ UNCHANGED <<slotVars, pending, failures, gens, locked, timers, link, status>>
        /\ UNCHANGED <<events, inbox>> /\ UNCHANGED <<password, linkVars, serverVars>>
    BY <1>7 DEF agentVars, loginVars, linkVars
  <2>2. HandlerInv'
    BY <1>0, <2>1, HandlerUntouched DEF HandlerInv, LoginTyped
  <2>3. QueueTyped'
    BY <1>0, <2>1 DEF QueueTyped
  <2> QED
    BY <2>1, <2>2, <2>3, OthersUntouched DEF AgentInv
<1> QED
  BY <1>1, <1>2, <1>3, <1>4, <1>5, <1>6, <1>7 DEF AgentNext

(* In every behaviour the inductive invariant holds.                        *)
THEOREM AgentInvariant ==
    AgentSpec => []AgentInv
BY AgentStarts, AgentStepKeeps, PTL DEF AgentSpec

(* Every variable keeps its type: the event channel stays within QueueCap   *)
(* whatever peers and timers put in, and a login ends with its connection.  *)
THEOREM AgentTypeCorrect ==
    AgentSpec => []AgentTypeOK
<1>1. AgentInv => AgentTypeOK
  BY DEF AgentInv, HandlerInv, SlotInv, SlotTyped, LoginTyped, QueueTyped, LinkTyped,
         ServerTyped, AgentTypeOK, Peer
<1> QED
  BY <1>1, AgentInvariant, PTL

(* However sessions begin, are replaced and end, the slot stays whole: no   *)
(* PeerConnection is left open that is not the active session's.            *)
THEOREM SlotStaysWhole ==
    AgentSpec => []SlotWhole
<1>1. AgentInv => SlotWhole
  BY DEF AgentInv, HandlerInv, SlotInv
<1> QED
  BY <1>1, AgentInvariant, PTL

(* The tray never shows a session that is over, online, offline or after a  *)
(* reconnect.                                                               *)
THEOREM StatusStaysTrue ==
    AgentSpec => []StatusIsTrue
<1>1. AgentInv => StatusIsTrue
  BY DEF AgentInv, HandlerInv, SlotInv
<1> QED
  BY <1>1, AgentInvariant, PTL

(* With an access password set, or unreadable, no session begins for a      *)
(* client that does not know it, whatever it sends and in whatever order.   *)
THEOREM PasswordIsRequired ==
    AgentSpec => NoSessionWithoutPassword
<1> DEFINE A == active' # active /\ active' # None =>
                    password = "missing" \/ peers'[active'].sid \in Knows
<1>1. AgentInv /\ [AgentNext]_agentVars => [A]_agentVars
  <2> SUFFICES ASSUME AgentInv, AgentNext PROVE A
    OBVIOUS
  <2>1. CASE AgentReads
    BY <2>1, MessageKeeps
  <2>2. CASE AgentHandlesEvent
    BY <2>2, EventKeeps DEF HasEnded
  <2>3. CASE OwnerEndsSession
    BY <2>3, OwnerKeeps DEF HasEnded, AgentInv
  <2>4. CASE LinkStep \/ ServerStep \/ Surroundings
    BY <2>4, LinkStepKeeps, ServerStepKeeps, SurroundingsKeep
  <2> QED
    BY <2>1, <2>2, <2>3, <2>4 DEF AgentNext
<1> QED
  BY <1>1, AgentInvariant, PTL DEF AgentSpec, NoSessionWithoutPassword

(* An event or a timer left over from a session that was replaced, or from  *)
(* a disconnect that was recovered from, never ends the running session.    *)
THEOREM EndedByItsOwnEvents ==
    AgentSpec => OnlyItsOwnEventsEndIt
<1> DEFINE A == LET e == Head(events) IN
                active # None /\ active' = None /\ Len(events') < Len(events)
                => e.tag = active \/ (e.sid = current /\ e.gen = grace.pending)
<1>1. AgentInv /\ [AgentNext]_agentVars => [A]_agentVars
  <2> SUFFICES ASSUME AgentInv, AgentNext PROVE A
    OBVIOUS
  <2>1. CASE AgentHandlesEvent
    BY <2>1, EventKeeps DEF HasEnded
  <2>2. CASE AgentReads \/ OwnerEndsSession
    <3>1. events' = events /\ Len(events) \in Nat
      BY <2>2 DEF AgentReads, OwnerEndsSession, AgentInv, QueueTyped
    <3> QED
      BY <3>1
  <2>3. CASE LinkStep \/ ServerStep \/ Surroundings
    BY <2>3, LinkStepKeeps, ServerStepKeeps, SurroundingsKeep
  <2> QED
    BY <2>1, <2>2, <2>3 DEF AgentNext
<1> QED
  BY <1>1, AgentInvariant, PTL DEF AgentSpec, OnlyItsOwnEventsEndIt

-----------------------------------------------------------------------------
(* The server's bookkeeping of the device is Occupancy's, for one host.     *)
Standing == IF ~reg THEN "offline" ELSE IF busy = None THEN "free"
            ELSE IF held THEN "held" ELSE "detached"
Holder == IF held THEN busy ELSE None

LEMMA OccBecomes ==
    ASSUME NEW st, NEW who, Standing' = st, Holder' = who
    PROVE  Occ!Becomes("device", st, who)
BY DEF Occ!Becomes, Standing, Holder

LEMMA OccStays ==
    ASSUME Standing' = Standing, Holder' = Holder
    PROVE  UNCHANGED Occ!occVars
BY DEF Occ!occVars, Standing, Holder

LEMMA OccStep ==
    ASSUME AgentInv, AgentNext
    PROVE  [Occ!OccNext]_Occ!occVars
<1>0. ServerTyped /\ ServerTyped' /\ LinkTyped
  BY AgentStepKeeps DEF AgentInv
<1>1. CASE UNCHANGED serverVars
  <2>1. Standing' = Standing /\ Holder' = Holder
    BY <1>1 DEF serverVars, Standing, Holder
  <2> QED
    BY <2>1, OccStays
<1>2. CASE ~UNCHANGED serverVars
  <2>1. CASE Registers /\ held /\ busy = claim
    <3>1. reg /\ reg' /\ busy' = busy /\ held'
      BY <1>0, <2>1 DEF Registers, ServerTyped
    <3>2. Standing' = Standing /\ Holder' = Holder
      BY <2>1, <3>1 DEF Standing, Holder
    <3> QED
      BY <3>2, OccStays
  <2>2. CASE Registers /\ ~(held /\ busy = claim)
    <3>1. reg' /\ ~held' /\ busy' = claim
      BY <2>2 DEF Registers
    <3>2. Standing' \in {"free", "detached"} /\ Holder' = None
      BY <3>1 DEF Standing, Holder
    <3>3. Occ!ComesOnline("device")
      BY <3>2, OccBecomes DEF Occ!ComesOnline
    <3> QED
      BY <3>3 DEF Occ!OccNext
  <2>3. CASE ServerNoticesLoss
    <3>1. Standing # "offline" /\ Standing' = "offline" /\ Holder' = None
      BY <2>3 DEF ServerNoticesLoss, Standing, Holder
    <3>2. Occ!GoesOffline("device")
      BY <3>1, OccBecomes DEF Occ!GoesOffline, Standing
    <3> QED
      BY <3>2 DEF Occ!OccNext
  <2>4. ASSUME NEW s \in Sid, ClientJoins(s)
        PROVE  Occ!OccNext
    <3>1. reg /\ busy = None /\ ~held /\ reg' = reg /\ busy' = s /\ held' /\ s # None
      BY <1>0, <2>4 DEF ClientJoins, ServerTyped, AgentConstants
    <3>2. /\ Standing = "free" /\ Holder = None
          /\ Standing' = "held" /\ Holder' = s
      BY <3>1 DEF Standing, Holder
    <3>3. Occ!Occupies("device", s)
      BY <3>1, <3>2, OccBecomes DEF Occ!Occupies, Standing, Holder
    <3> QED
      BY <3>3 DEF Occ!OccNext
  <2>5. CASE reg' = reg /\ busy' = None /\ ~held' /\ busy # None
    <3>1. /\ Standing \in {"held", "detached"}
          /\ Standing' = "free" /\ Holder' = None
      BY <1>0, <2>5 DEF Standing, Holder, ServerTyped
    <3>2. Occ!Leaves("device")
      BY <3>1, OccBecomes DEF Occ!Leaves, Standing
    <3> QED
      BY <3>2 DEF Occ!OccNext
  <2>6. ASSUME NEW s \in Sid, ClientLeaves(s)
        PROVE  [Occ!OccNext]_Occ!occVars
    BY <1>0, <2>5, <2>6 DEF ClientLeaves, ServerTyped
  <2>7. CASE ServerReads
    <3>1. reg' = reg /\ fresh' = fresh /\ busy' = None /\ ~held'
      BY <1>2, <2>7 DEF ServerReads
    <3>2. CASE busy # None
      BY <2>5, <3>1, <3>2
    <3>3. CASE busy = None
      <4>1. Standing' = Standing /\ Holder' = Holder
        BY <1>0, <3>1, <3>3 DEF Standing, Holder, ServerTyped
      <4> QED
        BY <4>1, OccStays
    <3> QED
      BY <3>2, <3>3
  <2>8. CASE AgentReads \/ AgentHandlesEvent \/ OwnerEndsSession \/ Surroundings
    BY <1>2, <2>8 DEF AgentReads, AgentHandlesEvent, OwnerEndsSession, Surroundings,
                      PeerEmits, TimerFires, PauseLapses, PasswordChanges
  <2>9. CASE LinkStep
    BY <1>2, <2>1, <2>2, <2>9 DEF LinkStep, Connects, HandshakeEnds, LinkLost
  <2>10. CASE ServerStep
    <3>1. ASSUME NEW s \in Sid, ClientSays(s)
          PROVE  FALSE
      BY <1>2, <3>1 DEF ClientSays
    <3> QED
      BY <2>3, <2>4, <2>6, <2>7, <2>10, <3>1 DEF ServerStep
  <2> QED
    BY <2>8, <2>9, <2>10 DEF AgentNext
<1> QED
  BY <1>1, <1>2

(* What this module assumes of the server is what Registry is shown to      *)
(* implement, with one device and its sessions.                             *)
THEOREM ServerIsOccupancy ==
    AgentSpec => ServerKeepsOccupancy
<1>1. AgentInit => Occ!OccInit
  BY DEF AgentInit, Occ!OccInit
<1>2. AgentInv /\ [AgentNext]_agentVars => [Occ!OccNext]_Occ!occVars
  <2> SUFFICES ASSUME AgentInv, [AgentNext]_agentVars PROVE [Occ!OccNext]_Occ!occVars
    OBVIOUS
  <2>1. CASE AgentNext
    BY <2>1, OccStep
  <2>2. CASE UNCHANGED agentVars
    <3>1. reg' = reg /\ busy' = busy /\ held' = held
      BY <2>2 DEF agentVars, serverVars
    <3>2. Standing' = Standing /\ Holder' = Holder
      BY <3>1 DEF Standing, Holder
    <3> QED
      BY <3>2, OccStays
  <2> QED
    BY <2>1, <2>2
<1> QED
  BY <1>1, <1>2, AgentInvariant, PTL DEF AgentSpec, ServerKeepsOccupancy, Occ!OccSpec

-----------------------------------------------------------------------------
(* Every wait has its timer: where it is, in the sleeping tasks or in the   *)
(* channel, and that no step but the one that ends the wait takes it away.  *)
InHand(asleep, queue, e) == e \in asleep \/ \E i \in DOMAIN queue : queue[i] = e

LoginTimed(p, asleep, queue) ==
    p # None => InHand(asleep, queue, TimerEvent("AuthTimeout", p.sid, p.gen))

GraceTimed(g, s, asleep, queue) ==
    g.pending # 0 => InHand(asleep, queue, TimerEvent("DisconnectTimeout", s, g.pending))

LEMMA TimedIs ==
    /\ WaitsAreTimed <=> LoginTimed(pending, timers, events) /\ GraceTimed(grace, current, timers, events)
    /\ WaitsAreTimed' <=> LoginTimed(pending', timers', events')
                           /\ GraceTimed(grace', current', timers', events')
BY Zenon DEF WaitsAreTimed, LoginTimed, GraceTimed, InHand, Due

LEMMA StaysInHand ==
    ASSUME NEW asleep, NEW queue \in Seq(Event), NEW e, InHand(asleep, queue, e)
    PROVE  /\ \A more : asleep \subseteq more => InHand(more, queue, e)
           /\ \A x : InHand(asleep, Append(queue, x), e)
           /\ \A x \in asleep : InHand(asleep \ {x}, Append(queue, x), e)
           /\ queue # <<>> /\ Head(queue) # e => InHand(asleep, Tail(queue), e)
<1>1. \A more : asleep \subseteq more => InHand(more, queue, e)
  BY DEF InHand
<1>2. ASSUME NEW x
      PROVE  /\ InHand(asleep, Append(queue, x), e)
             /\ x \in asleep => InHand(asleep \ {x}, Append(queue, x), e)
  <2>1. /\ DOMAIN Append(queue, x) = 1 .. Len(queue) + 1 /\ DOMAIN queue = 1 .. Len(queue)
        /\ Len(queue) \in Nat
        /\ Append(queue, x)[Len(queue) + 1] = x
        /\ \A i \in 1 .. Len(queue) : Append(queue, x)[i] = queue[i]
    OBVIOUS
  <2> QED
    BY <2>1 DEF InHand
<1>3. ASSUME queue # <<>>, Head(queue) # e
      PROVE  InHand(asleep, Tail(queue), e)
  <2>1. /\ DOMAIN Tail(queue) = 1 .. Len(queue) - 1 /\ DOMAIN queue = 1 .. Len(queue)
        /\ Len(queue) \in Nat /\ Head(queue) = queue[1]
        /\ \A i \in 1 .. Len(queue) - 1 : Tail(queue)[i] = queue[i + 1]
    BY <1>3
  <2>2. ASSUME NEW i \in DOMAIN queue, queue[i] = e
        PROVE  i - 1 \in DOMAIN Tail(queue) /\ Tail(queue)[i - 1] = e
    <3>1. i # 1
      BY <1>3, <2>1, <2>2
    <3>2. i - 1 \in 1 .. Len(queue) - 1 /\ (i - 1) + 1 = i
      BY <2>1, <3>1
    <3> QED
      BY <2>1, <2>2, <3>2
  <2> QED
    BY <2>2 DEF InHand
<1> QED
  BY <1>1, <1>2, <1>3

(* A step that takes no timer away, and begins no wait without one.         *)
LEMMA WaitsCarry ==
    ASSUME WaitsAreTimed,
           \A e : InHand(timers, events, e) => InHand(timers', events', e),
           \/ pending' = None
           \/ pending # None /\ pending'.sid = pending.sid /\ pending'.gen = pending.gen
           \/ InHand(timers', events', TimerEvent("AuthTimeout", pending'.sid, pending'.gen)),
           \/ grace'.pending = 0
           \/ grace'.pending = grace.pending /\ current' = current
           \/ InHand(timers', events', TimerEvent("DisconnectTimeout", current', grace'.pending))
    PROVE  WaitsAreTimed'
<1>1. LoginTimed(pending, timers, events) /\ GraceTimed(grace, current, timers, events)
  BY TimedIs
<1>2. LoginTimed(pending', timers', events')
  BY <1>1 DEF LoginTimed
<1>3. GraceTimed(grace', current', timers', events')
  BY <1>1 DEF GraceTimed
<1> QED
  BY <1>2, <1>3, TimedIs

LEMMA HandsOver ==
    ASSUME events \in Seq(Event), timers \subseteq timers', events' = events
    PROVE  \A e : InHand(timers, events, e) => InHand(timers', events', e)
BY StaysInHand

LEMMA TakeoverWaits ==
    ASSUME NEW s, Takeover(s) \/ EndHere(s) \/ CloseActive
    PROVE  grace'.pending = 0
BY DEF Takeover, EndHere, CloseActive, NoGrace

LEMMA MessageKeepsTimers ==
    ASSUME AgentInv, WaitsAreTimed, AgentReads
    PROVE  WaitsAreTimed'
<1> DEFINE m == Head(inbox)
<1>1. events' = events /\ events \in Seq(Event) /\ LoginTyped /\ LinkTyped
  BY DEF AgentReads, AgentInv, QueueTyped, HandlerInv
<1>2. \A s : Takeover(s) \/ EndHere(s) \/ CloseActive => grace'.pending = 0
  BY TakeoverWaits
<1>3. CASE ReadsPeerJoined(m.sid) /\ password = "present"
  <2>1. /\ pending' = [sid |-> m.sid, login |-> FALSE, gen |-> gens + 1]
        /\ timers' = timers \cup {TimerEvent("AuthTimeout", m.sid, gens + 1)}
        /\ UNCHANGED <<grace, current>>
    BY <1>3 DEF ReadsPeerJoined, slotVars
  <2>2. InHand(timers', events', TimerEvent("AuthTimeout", pending'.sid, pending'.gen))
    BY <2>1 DEF InHand
  <2> QED
    BY <1>1, <2>1, <2>2, HandsOver, WaitsCarry
<1>4. CASE ReadsPeerJoined(m.sid) /\ password # "present"
  <2>1. timers' = timers /\ pending' = None
    BY <1>1, <1>4 DEF ReadsPeerJoined, LinkTyped, NoWait
  <2>2. grace'.pending = 0 \/ UNCHANGED <<grace, current>>
    BY <1>1, <1>2, <1>4 DEF ReadsPeerJoined, LinkTyped, slotVars
  <2> QED
    BY <1>1, <2>1, <2>2, HandsOver, WaitsCarry
<1>5. CASE ReadsBadAnswer(m.sid)
  <2>1. timers' = timers /\ pending' = pending
    BY <1>5 DEF ReadsBadAnswer, loginVars
  <2>2. grace'.pending = 0 \/ UNCHANGED <<grace, current>>
    BY <1>2, <1>5 DEF ReadsBadAnswer, slotVars
  <2> QED
    BY <1>1, <2>1, <2>2, HandsOver, WaitsCarry
<1>6. CASE ReadsPakeStart(m.sid)
  <2>1. /\ timers' = timers /\ UNCHANGED <<grace, current>>
        /\ \/ pending' = pending
           \/ Waiting(m.sid) /\ pending' = [pending EXCEPT !.login = TRUE]
    BY <1>6 DEF ReadsPakeStart, RunsAttempt, slotVars, loginVars
  <2>2. \/ pending' = pending
        \/ pending # None /\ pending'.sid = pending.sid /\ pending'.gen = pending.gen
    BY <1>1, <2>1 DEF LoginTyped, Wait, Waiting
  <2> QED
    BY <1>1, <2>1, <2>2, HandsOver, WaitsCarry
<1>7. CASE ReadsPakeFinish(m.sid)
  <2>1. timers' = timers
    BY <1>7 DEF ReadsPakeFinish
  <2>2. grace'.pending = 0 \/ UNCHANGED <<grace, current>>
    BY <1>2, <1>7 DEF ReadsPakeFinish, slotVars
  <2>3. \/ pending' = pending \/ pending' = None
        \/ Waiting(m.sid) /\ pending' = [pending EXCEPT !.login = FALSE]
    BY <1>7 DEF ReadsPakeFinish, loginVars
  <2>4. \/ pending' = pending \/ pending' = None
        \/ pending # None /\ pending'.sid = pending.sid /\ pending'.gen = pending.gen
    BY <1>1, <2>3 DEF LoginTyped, Wait, Waiting
  <2> QED
    BY <1>1, <2>1, <2>2, <2>4, HandsOver, WaitsCarry
<1>8. CASE ReadsBye(m.sid)
  <2>1. timers' = timers /\ pending' \in {pending, None}
    BY <1>8 DEF ReadsBye, loginVars, NoWait
  <2>2. grace'.pending = 0 \/ UNCHANGED <<grace, current>>
    BY <1>2, <1>8 DEF ReadsBye, slotVars
  <2> QED
    BY <1>1, <2>1, <2>2, HandsOver, WaitsCarry
<1> QED
  BY <1>3, <1>4, <1>5, <1>6, <1>7, <1>8 DEF AgentReads

LEMMA EventKeepsTimers ==
    ASSUME AgentInv, WaitsAreTimed, AgentHandlesEvent
    PROVE  WaitsAreTimed'
<1> DEFINE e == Head(events)
           auth == TimerEvent("AuthTimeout", pending.sid, pending.gen)
           lost == TimerEvent("DisconnectTimeout", current, grace.pending)
<1>0. /\ events \in Seq(Event) /\ events # <<>> /\ events' = Tail(events)
      /\ SlotTyped /\ LoginTyped
  BY DEF AgentHandlesEvent, AgentInv, QueueTyped, HandlerInv, SlotInv
<1>1. LoginTimed(pending, timers, events) /\ GraceTimed(grace, current, timers, events)
  BY TimedIs
<1>2. timers \subseteq timers'
  BY DEF AgentHandlesEvent, OnIce, OnConnected, OnDisconnected, OnOver, OnDisconnectTimeout, OnAuthTimeout
<1>3. ASSUME NEW d, d # e, InHand(timers, events, d)
      PROVE  InHand(timers', events', d)
  BY <1>0, <1>2, <1>3, StaysInHand
<1>4. pending' \in {pending, None}
  BY DEF AgentHandlesEvent, OnIce, OnConnected, OnDisconnected, OnOver, OnDisconnectTimeout,
         OnAuthTimeout, loginVars, NoWait
<1>5. pending # None /\ e = auth => pending' = None
  <2>1. e = auth => e.type = "AuthTimeout" /\ e.sid = pending.sid /\ e.gen = pending.gen
    BY DEF TimerEvent
  <2> QED
    BY <2>1 DEF AgentHandlesEvent, OnAuthTimeout, Waiting, NoWait
<1>6. LoginTimed(pending', timers', events')
  BY <1>1, <1>3, <1>4, <1>5 DEF LoginTimed
<1>7. /\ grace.pending \in Nat /\ grace.epoch \in Nat
      /\ grace.pending # 0 => active # None
  BY <1>0 DEF SlotTyped, NoGrace
<1>8. \/ UNCHANGED <<grace, current>> \/ grace'.pending = 0
      \/ InHand(timers', events', TimerEvent("DisconnectTimeout", current', grace'.pending))
  <2>1. CASE e.type = "Disconnected" /\ OnDisconnected(e) /\ e.tag = active /\ grace.pending = 0
    <3>1. /\ grace' = [epoch |-> grace.epoch + 1, pending |-> grace.epoch + 1]
          /\ timers' = timers \cup {TimerEvent("DisconnectTimeout", current, grace.epoch + 1)}
          /\ current' = current
      BY <2>1 DEF OnDisconnected
    <3>2. grace'.pending = grace.epoch + 1
      BY <3>1
    <3> QED
      BY <3>1, <3>2 DEF InHand
  <2>2. CASE e.type = "Connected" /\ OnConnected(e) /\ e.tag = active
    <3>1. grace' = [grace EXCEPT !.pending = 0]
      BY <2>2 DEF OnConnected
    <3> QED
      BY <1>0, <3>1 DEF SlotTyped
  <2>3. CASE EndHere(current)
    BY <2>3, TakeoverWaits
  <2> QED
    BY <2>1, <2>2, <2>3 DEF AgentHandlesEvent, OnIce, OnConnected, OnDisconnected, OnOver,
                            OnDisconnectTimeout, OnAuthTimeout, slotVars
<1>9. grace.pending # 0 /\ e = lost => grace'.pending = 0
  <2>1. e = lost => e.type = "DisconnectTimeout" /\ e.sid = current /\ e.gen = grace.pending
    BY DEF TimerEvent
  <2>2. grace.pending # 0 /\ e = lost => EndHere(current)
    BY <1>7, <2>1 DEF AgentHandlesEvent, OnDisconnectTimeout
  <2> QED
    BY <2>2, TakeoverWaits
<1>10. GraceTimed(grace', current', timers', events')
  BY <1>1, <1>3, <1>8, <1>9 DEF GraceTimed
<1> QED
  BY <1>6, <1>10, TimedIs

LEMMA StepKeepsTimers ==
    AgentInv /\ WaitsAreTimed /\ [AgentNext]_agentVars => WaitsAreTimed'
<1> SUFFICES ASSUME AgentInv, WaitsAreTimed, [AgentNext]_agentVars PROVE WaitsAreTimed'
  OBVIOUS
<1>0. events \in Seq(Event)
  BY DEF AgentInv, QueueTyped
<1>1. CASE AgentReads
  BY <1>1, MessageKeepsTimers
<1>2. CASE AgentHandlesEvent
  BY <1>2, EventKeepsTimers
<1>3. CASE OwnerEndsSession
  <2>1. UNCHANGED <<events, timers>> /\ pending' \in {pending, None}
    BY <1>3 DEF OwnerEndsSession, loginVars, NoWait
  <2>2. grace'.pending = 0 \/ UNCHANGED <<grace, current>>
    BY <1>3, TakeoverWaits DEF OwnerEndsSession, slotVars
  <2> QED
    BY <1>0, <2>1, <2>2, HandsOver, WaitsCarry
<1>4. CASE LinkStep \/ ServerStep \/ UNCHANGED agentVars
  <2>1. UNCHANGED <<events, timers, grace, current>> /\ pending' \in {pending, None}
    BY <1>4 DEF LinkStep, Connects, Registers, HandshakeEnds, LinkLost, ServerStep, ServerNoticesLoss,
                ServerReads, ClientJoins, ClientSays, ClientLeaves, Elsewhere, agentVars, slotVars, loginVars
  <2> QED
    BY <1>0, <2>1, HandsOver, WaitsCarry
<1>5. CASE Surroundings
  <2>1. UNCHANGED <<pending, grace, current>>
    BY <1>5 DEF Surroundings, PeerEmits, TimerFires, PauseLapses, PasswordChanges, slotVars, loginVars
  <2>2. \/ UNCHANGED <<events, timers>>
        \/ timers' = timers /\ \E x : events' = Append(events, x)
        \/ \E x \in timers : timers' = timers \ {x} /\ events' = Append(events, x)
    BY <1>5 DEF Surroundings, PeerEmits, TimerFires, PauseLapses, PasswordChanges
  <2>3. ASSUME NEW d, InHand(timers, events, d)
        PROVE  InHand(timers', events', d)
    <3>1. /\ \A x : InHand(timers, Append(events, x), d)
          /\ \A x \in timers : InHand(timers \ {x}, Append(events, x), d)
      BY <1>0, <2>3, StaysInHand
    <3> QED
      BY <2>2, <2>3, <3>1
  <2> QED
    BY <2>1, <2>3, WaitsCarry
<1> QED
  BY <1>1, <1>2, <1>3, <1>4, <1>5 DEF AgentNext

(* No login and no lost connection is ever left waiting with nothing to end *)
(* the wait: its own timer sleeps or its event is queued.                   *)
THEOREM WaitsStayTimed ==
    AgentSpec => []WaitsAreTimed
<1>1. AgentInit => WaitsAreTimed
  BY DEF AgentInit, WaitsAreTimed, NoGrace
<1> QED
  BY <1>1, AgentInvariant, StepKeepsTimers, PTL DEF AgentSpec
-----------------------------------------------------------------------------
(* Why the server holds the device busy: where the message about the session *)
(* is, until the agent has met it, and what the agent does with it.         *)
OutMsg ==
    [type : {"Bye", "Offer", "AuthRequired", "AuthFailed", "PakeResponse"}, sid : Sid]
    \cup [type : {"Ice"}, sid : Sid, of : Nat \cup {None}]

OutTyped == outbox \in Seq(OutMsg)

Listening == link \in {"registering", "up"}

(* Ids that the server has not issued appear nowhere, and a client that     *)
(* left has not come back: what is on the way about it is stale.            *)
IdsIssued ==
    /\ busy \notin fresh /\ current \notin fresh /\ claim \notin fresh
    /\ \A i \in DOMAIN inbox : /\ inbox[i].sid \notin fresh
                               /\ inbox[i].type = "Bye" => inbox[i].sid # busy
    /\ ~Listening => inbox = <<>>

(* The agent is still to hear of s, and of nobody after s.                  *)
LastAsked(s) ==
    \E i \in DOMAIN inbox :
       /\ inbox[i] = Msg("PeerJoined", s)
       /\ \A j \in DOMAIN inbox : j > i => inbox[j].type # "PeerJoined"

NobodyAsks == \A i \in DOMAIN inbox : inbox[i].type # "PeerJoined"

(* The agent has heard of s: no newcomer since then has taken its place.    *)
Met(s) ==
    /\ pending # None => pending.sid = s
    /\ s = current \/ Waiting(s) \/ Underway(outbox, "Bye", s)

AskedOrMet ==
    Listening /\ busy \notin {None, claim} =>
       LastAsked(busy) \/ (Online /\ NobodyAsks /\ Met(busy))

BusyInv == OutTyped /\ IdsIssued /\ AskedOrMet

LEMMA InboxGrows ==
    ASSUME inbox \in Seq(WireMsg), NEW m \in WireMsg, inbox' = Append(inbox, m)
    PROVE  /\ \A i \in DOMAIN inbox' : inbox'[i] = m \/ \E j \in DOMAIN inbox : inbox'[i] = inbox[j]
           /\ \A s : m.type # "PeerJoined" /\ LastAsked(s) => LastAsked(s)'
           /\ \A s : m = Msg("PeerJoined", s) => LastAsked(s)'
<1>1. /\ DOMAIN inbox = 1 .. Len(inbox) /\ DOMAIN inbox' = 1 .. Len(inbox) + 1 /\ Len(inbox) \in Nat
      /\ inbox'[Len(inbox) + 1] = m
      /\ \A i \in 1 .. Len(inbox) : inbox'[i] = inbox[i]
  OBVIOUS
<1>2. \A i \in DOMAIN inbox' : inbox'[i] = m \/ \E j \in DOMAIN inbox : inbox'[i] = inbox[j]
  BY <1>1
<1>3. ASSUME NEW s, m.type # "PeerJoined", LastAsked(s) PROVE LastAsked(s)'
  <2>1. PICK i \in DOMAIN inbox : /\ inbox[i] = Msg("PeerJoined", s)
                                  /\ \A j \in DOMAIN inbox : j > i => inbox[j].type # "PeerJoined"
    BY <1>3 DEF LastAsked
  <2>2. i \in DOMAIN inbox' /\ inbox'[i] = Msg("PeerJoined", s)
    BY <1>1, <2>1
  <2>3. \A j \in DOMAIN inbox' : j > i => inbox'[j].type # "PeerJoined"
    BY <1>1, <1>3, <2>1
  <2> QED
    BY <2>2, <2>3 DEF LastAsked
<1>4. ASSUME NEW s, m = Msg("PeerJoined", s) PROVE LastAsked(s)'
  <2>1. Len(inbox) + 1 \in DOMAIN inbox' /\ \A j \in DOMAIN inbox' : ~(j > Len(inbox) + 1)
    BY <1>1
  <2> QED
    BY <1>1, <1>4, <2>1 DEF LastAsked
<1> QED
  BY <1>2, <1>3, <1>4

LEMMA InboxShrinks ==
    ASSUME inbox \in Seq(WireMsg), inbox # <<>>, inbox' = Tail(inbox)
    PROVE  /\ Head(inbox) \in WireMsg
           /\ \A i \in DOMAIN inbox' : \E j \in DOMAIN inbox : inbox'[i] = inbox[j]
           /\ \E j \in DOMAIN inbox : Head(inbox) = inbox[j]
           /\ \A s : LastAsked(s) => LastAsked(s)' \/ (Head(inbox) = Msg("PeerJoined", s) /\ NobodyAsks')
           /\ NobodyAsks => Head(inbox).type # "PeerJoined" /\ NobodyAsks'
<1>1. /\ DOMAIN inbox = 1 .. Len(inbox) /\ DOMAIN inbox' = 1 .. Len(inbox) - 1 /\ Len(inbox) \in Nat /\ Len(inbox) >= 1
      /\ Head(inbox) = inbox[1] /\ inbox[1] \in WireMsg
      /\ \A i \in 1 .. Len(inbox) - 1 : inbox'[i] = inbox[i + 1]
  OBVIOUS
<1>2. /\ \A i \in DOMAIN inbox' : \E j \in DOMAIN inbox : inbox'[i] = inbox[j]
      /\ 1 \in DOMAIN inbox
  BY <1>1
<1>3. ASSUME NEW s, LastAsked(s)
      PROVE  LastAsked(s)' \/ (Head(inbox) = Msg("PeerJoined", s) /\ NobodyAsks')
  <2>1. PICK i \in DOMAIN inbox : /\ inbox[i] = Msg("PeerJoined", s)
                                  /\ \A j \in DOMAIN inbox : j > i => inbox[j].type # "PeerJoined"
    BY <1>3 DEF LastAsked
  <2>2. CASE i = 1
    <3>1. ASSUME NEW k \in DOMAIN inbox' PROVE inbox'[k].type # "PeerJoined"
      <4>1. k + 1 \in DOMAIN inbox /\ k + 1 > i /\ inbox'[k] = inbox[k + 1]
        BY <1>1, <2>2
      <4> QED
        BY <2>1, <4>1
    <3> QED
      BY <1>1, <2>1, <2>2, <3>1 DEF NobodyAsks
  <2>3. CASE i # 1
    <3>1. i - 1 \in DOMAIN inbox' /\ inbox'[i - 1] = inbox[i]
      BY <1>1, <2>3
    <3>2. ASSUME NEW k \in DOMAIN inbox', k > i - 1 PROVE inbox'[k].type # "PeerJoined"
      <4>1. k + 1 \in DOMAIN inbox /\ k + 1 > i /\ inbox'[k] = inbox[k + 1]
        BY <1>1, <2>3, <3>2
      <4> QED
        BY <2>1, <4>1
    <3> QED
      BY <2>1, <3>1, <3>2 DEF LastAsked
  <2> QED
    BY <2>2, <2>3
<1>4. NobodyAsks => Head(inbox).type # "PeerJoined" /\ NobodyAsks'
  BY <1>1, <1>2 DEF NobodyAsks
<1> QED
  BY <1>1, <1>2, <1>3, <1>4

LEMMA SaysMore ==
    ASSUME OutTyped, NEW msgs \in Seq(OutMsg), Says(msgs)
    PROVE  /\ OutTyped'
           /\ \A s : Underway(outbox, "Bye", s) => Underway(outbox', "Bye", s)
           /\ \A s : Online /\ Underway(msgs, "Bye", s) => Underway(outbox', "Bye", s)
<1>1. CASE ~Online
  BY <1>1 DEF Says, OutTyped
<1>2. CASE Online
  <2>1. outbox' = outbox \o msgs /\ outbox \in Seq(OutMsg)
    BY <1>2 DEF Says, OutTyped
  <2>2. /\ outbox' \in Seq(OutMsg) /\ DOMAIN outbox = 1 .. Len(outbox) /\ DOMAIN msgs = 1 .. Len(msgs)
        /\ DOMAIN outbox' = 1 .. Len(outbox) + Len(msgs) /\ Len(outbox) \in Nat /\ Len(msgs) \in Nat
        /\ \A i \in DOMAIN outbox : outbox'[i] = outbox[i]
        /\ \A i \in DOMAIN msgs : outbox'[Len(outbox) + i] = msgs[i]
    BY <2>1
  <2>3. \A i \in DOMAIN outbox : i \in DOMAIN outbox'
    BY <2>2
  <2>4. \A i \in DOMAIN msgs : Len(outbox) + i \in DOMAIN outbox'
    BY <2>2
  <2>5. \A s : Underway(outbox, "Bye", s) => Underway(outbox', "Bye", s)
    BY <2>2, <2>3 DEF Underway
  <2>6. \A s : Underway(msgs, "Bye", s) => Underway(outbox', "Bye", s)
    BY <2>2, <2>4 DEF Underway
  <2> QED
    BY <2>2, <2>5, <2>6 DEF OutTyped
<1> QED
  BY <1>1, <1>2

(* One message, which may be a Bye.                                         *)
LEMMA SaysOne ==
    ASSUME OutTyped, NEW m \in OutMsg, Says(<<m>>)
    PROVE  /\ OutTyped'
           /\ \A s : Underway(outbox, "Bye", s) => Underway(outbox', "Bye", s)
           /\ \A s : Online /\ m = Msg("Bye", s) => Underway(outbox', "Bye", s)
<1> DEFINE msgs == <<m>>
<1>1. msgs \in Seq(OutMsg) /\ 1 \in DOMAIN msgs /\ msgs[1] = m /\ Says(msgs)
  OBVIOUS
<1> HIDE DEF msgs
<1>2. \A s : m = Msg("Bye", s) => Underway(msgs, "Bye", s)
  BY <1>1 DEF Underway
<1> QED
  BY <1>1, <1>2, SaysMore

LEMMA MsgTyped ==
    \A s \in Sid : \A type \in {"Bye", "Offer", "AuthRequired", "AuthFailed", "PakeResponse"} :
        Msg(type, s) \in OutMsg
BY DEF Msg, OutMsg

LEMMA EndHereTells ==
    ASSUME OutTyped, NEW s \in Sid, EndHere(s)
    PROVE  /\ OutTyped' /\ current' = None
           /\ \A t : Underway(outbox, "Bye", t) => Underway(outbox', "Bye", t)
           /\ Online => Underway(outbox', "Bye", s)
BY SaysOne, MsgTyped DEF EndHere, CloseActive

LEMMA TakeoverTells ==
    ASSUME OutTyped, NEW s \in Sid, Takeover(s)
    PROVE  /\ OutTyped' /\ current' \in {s, None}
           /\ \A t : Underway(outbox, "Bye", t) => Underway(outbox', "Bye", t)
           /\ Online => current' = s \/ Underway(outbox', "Bye", s)
<1>1. CASE EndHere(s)
  BY <1>1, EndHereTells
<1>2. CASE current' = s /\ Says(<<Msg("Offer", s)>>)
  BY <1>2, SaysOne, MsgTyped
<1> QED
  BY <1>1, <1>2 DEF Takeover

(* What every handler does to the explanation: it keeps the outbox typed,   *)
(* the id of the session it knew or none, and of whom it has met, all.      *)
Tells ==
    /\ OutTyped' /\ current' \in {current, None}
    /\ \A b \in Sid : Online /\ Met(b) => Met(b)'

LEMMA NothingSaid ==
    ASSUME OutTyped, UNCHANGED <<current, pending, outbox>>
    PROVE  Tells
BY DEF Tells, OutTyped, Met, Waiting, Underway

LEMMA OneSaid ==
    ASSUME OutTyped, NEW m \in OutMsg, Says(<<m>>), UNCHANGED current,
           pending' # None => pending # None /\ pending'.sid = pending.sid,
           pending' = None /\ pending # None => m = Msg("Bye", pending.sid)
    PROVE  Tells
<1>1. /\ OutTyped'
      /\ \A s : Underway(outbox, "Bye", s) => Underway(outbox', "Bye", s)
      /\ \A s : Online /\ m = Msg("Bye", s) => Underway(outbox', "Bye", s)
  BY SaysOne
<1>2. ASSUME NEW b \in Sid, Online, Met(b) PROVE Met(b)'
  <2>1. pending' # None => pending'.sid = b
    BY <1>2 DEF Met
  <2>2. b = current' \/ (pending' # None /\ pending'.sid = b) \/ Underway(outbox', "Bye", b)
    BY <1>1, <1>2 DEF Met, Waiting
  <2> QED
    BY <2>1, <2>2 DEF Met, Waiting
<1> QED
  BY <1>1, <1>2 DEF Tells

LEMMA EndTells ==
    ASSUME OutTyped, current \in Sid, EndHere(current), UNCHANGED pending
    PROVE  Tells
<1>1. /\ OutTyped' /\ current' = None
      /\ \A t : Underway(outbox, "Bye", t) => Underway(outbox', "Bye", t)
      /\ Online => Underway(outbox', "Bye", current)
  BY EndHereTells
<1>2. ASSUME NEW b \in Sid, Online, Met(b) PROVE Met(b)'
  <2>1. b = current \/ Waiting(b) \/ Underway(outbox, "Bye", b)
    BY <1>2 DEF Met
  <2>2. Waiting(b)' \/ Underway(outbox', "Bye", b)
    BY <1>1, <1>2, <2>1 DEF Waiting
  <2> QED
    BY <1>2, <2>2 DEF Met
<1> QED
  BY <1>1, <1>2 DEF Tells

(* A session the slot is in has an id.                                      *)
LEMMA ActiveHasId ==
    ASSUME HandlerInv, active # None
    PROVE  current \in Sid
BY DEF HandlerInv, SlotInv, SlotTyped, SlotWhole

LEMMA BadAnswerTells ==
    ASSUME OutTyped, NEW s \in Sid, ReadsBadAnswer(s)
    PROVE  Tells
<1>1. UNCHANGED pending
  BY DEF ReadsBadAnswer, loginVars
<1>2. CASE s = current /\ EndHere(current)
  BY <1>1, <1>2, EndTells
<1>3. CASE UNCHANGED <<slotVars, status, outbox>>
  BY <1>1, <1>3, NothingSaid DEF slotVars
<1> QED
  BY <1>2, <1>3 DEF ReadsBadAnswer

LEMMA PakeStartTells ==
    ASSUME OutTyped, LoginTyped, NEW s \in Sid, ReadsPakeStart(s)
    PROVE  Tells
<1>1. UNCHANGED current
  BY DEF ReadsPakeStart, slotVars
<1>2. CASE UNCHANGED <<loginVars, outbox>>
  BY <1>1, <1>2, NothingSaid DEF loginVars
<1>3. CASE Waiting(s) /\ Says(<<Msg("AuthFailed", s)>>) /\ UNCHANGED pending
  BY <1>1, <1>3, OneSaid, MsgTyped DEF Waiting
<1>4. CASE Waiting(s) /\ Says(<<Msg("PakeResponse", s)>>) /\ pending' = [pending EXCEPT !.login = TRUE]
  <2>1. pending \in Wait /\ pending # None /\ pending' \in Wait /\ pending'.sid = pending.sid
    BY <1>4 DEF Waiting, LoginTyped, Wait
  <2>2. pending' # None
    BY <2>1, <1>4 DEF Wait
  <2> QED
    BY <1>1, <1>4, <2>1, <2>2, OneSaid, MsgTyped
<1> QED
  BY <1>2, <1>3, <1>4 DEF ReadsPakeStart, RunsAttempt, loginVars

LEMMA PakeFinishTells ==
    ASSUME OutTyped, LoginTyped, NEW s \in Sid, ReadsPakeFinish(s)
    PROVE  /\ OutTyped' /\ current' \in {current, None, s}
           /\ \A b \in Sid : Online /\ Met(b) => Met(b)'
<1>1. CASE UNCHANGED <<slotVars, status, loginVars, outbox>>
  BY <1>1, NothingSaid DEF loginVars, slotVars, Tells
<1>2. CASE Waiting(s) /\ pending' = None /\ Takeover(s)
  <2>1. /\ OutTyped' /\ current' \in {s, None}
        /\ \A t : Underway(outbox, "Bye", t) => Underway(outbox', "Bye", t)
        /\ Online => current' = s \/ Underway(outbox', "Bye", s)
    BY <1>2, TakeoverTells
  <2>2. ASSUME NEW b \in Sid, Online, Met(b) PROVE Met(b)'
    <3>1. b = s
      BY <1>2, <2>2 DEF Met, Waiting
    <3> QED
      BY <1>2, <2>1, <2>2, <3>1 DEF Met
  <2> QED
    BY <1>2, <2>1, <2>2
<1>3. CASE Waiting(s) /\ pending' = [pending EXCEPT !.login = FALSE] /\ Says(<<Msg("AuthFailed", s)>>)
           /\ UNCHANGED <<slotVars, status, failures, locked, gens>>
  <2>1. pending \in Wait /\ pending # None /\ pending' \in Wait /\ pending'.sid = pending.sid
    BY <1>3 DEF Waiting, LoginTyped, Wait
  <2>2. pending' # None /\ UNCHANGED current
    BY <2>1, <1>3 DEF Wait, slotVars
  <2>3. Tells
    BY <1>3, <2>1, <2>2, OneSaid, MsgTyped
  <2> QED
    BY <2>3, <1>3 DEF Tells
<1> QED
  BY <1>1, <1>2, <1>3 DEF ReadsPakeFinish

(* A stale Bye is about a session the server has left: of the one it is     *)
(* busy with, nothing is lost.                                              *)
LEMMA ByeTells ==
    ASSUME OutTyped, LoginTyped, NEW s \in Sid, ReadsBye(s)
    PROVE  /\ OutTyped' /\ current' \in {current, None}
           /\ \A b \in Sid : b # s /\ Met(b) => Met(b)'
<1>1. outbox' = outbox /\ OutTyped'
  BY DEF ReadsBye, OutTyped
<1>2. \A b : Underway(outbox, "Bye", b) => Underway(outbox', "Bye", b)
  BY <1>1
<1>3. CASE current = s /\ CloseActive /\ UNCHANGED loginVars
  <2>1. current' = None /\ UNCHANGED pending
    BY <1>3 DEF CloseActive, loginVars
  <2>2. ASSUME NEW b \in Sid, b # s, Met(b) PROVE Met(b)'
    BY <1>2, <1>3, <2>1, <2>2 DEF Met, Waiting
  <2> QED
    BY <1>1, <2>1, <2>2
<1>4. CASE current # s /\ Waiting(s) /\ NoWait /\ UNCHANGED <<slotVars, status>>
  <2>1. current' = current /\ pending' = None
    BY <1>4 DEF NoWait, slotVars
  <2>2. ASSUME NEW b \in Sid, b # s, Met(b) PROVE Met(b)'
    BY <1>2, <1>4, <2>1, <2>2 DEF Met, Waiting
  <2> QED
    BY <1>1, <2>1, <2>2
<1>5. CASE UNCHANGED <<slotVars, status, loginVars>>
  BY <1>1, <1>5, NothingSaid DEF slotVars, loginVars, Tells, Met, Waiting
<1> QED
  BY <1>3, <1>4, <1>5 DEF ReadsBye

(* A newcomer is met by being asked, let in or turned away.                 *)
LEMMA PeerJoinedTells ==
    ASSUME OutTyped, LinkTyped, LoginTyped, Online, NEW s \in Sid, ReadsPeerJoined(s)
    PROVE  /\ OutTyped' /\ current' \in {current, None, s}
           /\ \A b \in Sid : b = s => Met(b)'
<1>1. CASE password = "unusable"
  <2>1. pending' = None /\ Says(<<Msg("Bye", s)>>) /\ UNCHANGED current
    BY <1>1 DEF ReadsPeerJoined, NoWait, slotVars
  <2>2. OutTyped' /\ Underway(outbox', "Bye", s)
    BY <2>1, SaysOne, MsgTyped
  <2> QED
    BY <2>1, <2>2 DEF Met
<1>2. CASE password = "present"
  <2>1. /\ pending' = [sid |-> s, login |-> FALSE, gen |-> gens + 1]
        /\ Says(<<Msg("AuthRequired", s)>>) /\ UNCHANGED current
    BY <1>2 DEF ReadsPeerJoined, slotVars
  <2>2. OutTyped'
    BY <2>1, SaysOne, MsgTyped
  <2>3. gens + 1 \in Nat \ {0}
    BY DEF LoginTyped
  <2>4. pending' \in Wait /\ pending'.sid = s
    BY <2>1, <2>3 DEF Wait
  <2>5. pending' # None
    BY <2>4 DEF Wait
  <2> QED
    BY <2>1, <2>2, <2>4, <2>5 DEF Met, Waiting
<1>3. CASE password = "missing"
  <2>1. pending' = None /\ Takeover(s)
    BY <1>3 DEF ReadsPeerJoined, NoWait
  <2>2. OutTyped' /\ current' \in {s, None} /\ (current' = s \/ Underway(outbox', "Bye", s))
    BY <2>1, TakeoverTells
  <2> QED
    BY <2>1, <2>2 DEF Met
<1> QED
  BY <1>1, <1>2, <1>3 DEF LinkTyped

LEMMA EventTells ==
    ASSUME AgentInv, OutTyped, AgentHandlesEvent
    PROVE  Tells
<1> DEFINE e == Head(events)
<1>1. e \in Event /\ HandlerInv /\ LoginTyped
  BY DEF AgentHandlesEvent, AgentInv, HandlerInv, QueueTyped
<1>2. \/ e.type = "Ice" /\ OnIce(e)
      \/ e.type = "Connected" /\ OnConnected(e)
      \/ e.type = "Disconnected" /\ OnDisconnected(e)
      \/ e.type = "Over" /\ OnOver(e)
      \/ e.type = "DisconnectTimeout" /\ OnDisconnectTimeout(e)
      \/ e.type = "AuthTimeout" /\ OnAuthTimeout(e)
  BY DEF AgentHandlesEvent
<1> HIDE DEF e
<1>3. CASE e.type = "Ice" /\ OnIce(e)
  <2>1. UNCHANGED <<current, pending>>
    BY <1>3 DEF OnIce, slotVars, loginVars
  <2>2. CASE current = None
    <3>1. Says(<<>>) /\ <<>> \in Seq(OutMsg)
      BY <1>3, <2>2 DEF OnIce
    <3>2. OutTyped' /\ \A s : Underway(outbox, "Bye", s) => Underway(outbox', "Bye", s)
      BY <3>1, SaysMore
    <3> QED
      BY <2>1, <3>2 DEF Tells, Met, Waiting
  <2>3. CASE current # None
    <3> DEFINE m == [type |-> "Ice", sid |-> current, of |-> e.tag]
    <3>1. current \in Sid
      BY <2>3, <1>1 DEF HandlerInv, SlotInv, SlotTyped
    <3>2. e.tag \in Nat
      BY <1>1, <1>3 DEF Event, PeerSent, TimerSent
    <3>3. m \in OutMsg
      BY <3>1, <3>2 DEF OutMsg
    <3>4. Says(<<m>>)
      BY <1>3, <2>3 DEF OnIce
    <3> HIDE DEF m
    <3> QED
      BY <2>1, <3>3, <3>4, OneSaid
  <2> QED
    BY <2>2, <2>3
<1>4. CASE OnConnected(e) \/ OnDisconnected(e)
  BY <1>4, NothingSaid DEF OnConnected, OnDisconnected, loginVars
<1>5. CASE e.type = "Over" /\ OnOver(e)
  <2>1. UNCHANGED pending
    BY <1>5 DEF OnOver, loginVars
  <2>2. CASE UNCHANGED <<slotVars, status, outbox>>
    BY <2>1, <2>2, NothingSaid DEF slotVars
  <2>3. CASE e.tag = active /\ EndHere(current)
    <3>1. active # None
      BY <1>1, <1>5, <2>3 DEF Event, PeerSent, TimerSent
    <3> QED
      BY <1>1, <2>1, <2>3, <3>1, ActiveHasId, EndTells
  <2> QED
    BY <1>5, <2>2, <2>3 DEF OnOver
<1>6. CASE OnDisconnectTimeout(e)
  <2>1. UNCHANGED pending
    BY <1>6 DEF OnDisconnectTimeout, loginVars
  <2>2. CASE UNCHANGED <<slotVars, status, outbox>>
    BY <2>1, <2>2, NothingSaid DEF slotVars
  <2>3. CASE active # None /\ EndHere(current)
    BY <1>1, <2>1, <2>3, ActiveHasId, EndTells
  <2> QED
    BY <1>6, <2>2, <2>3 DEF OnDisconnectTimeout
<1>7. CASE OnAuthTimeout(e)
  <2>1. UNCHANGED current
    BY <1>7 DEF OnAuthTimeout, slotVars
  <2>2. CASE UNCHANGED <<loginVars, outbox>>
    BY <2>1, <2>2, NothingSaid DEF loginVars
  <2>3. CASE Waiting(e.sid) /\ NoWait /\ Says(<<Msg("Bye", e.sid)>>)
    <3>1. pending' = None /\ pending # None /\ e.sid = pending.sid /\ pending.sid \in Sid
      BY <1>1, <2>3 DEF Waiting, NoWait, LoginTyped, Wait
    <3> QED
      BY <2>1, <2>3, <3>1, OneSaid, MsgTyped
  <2> QED
    BY <1>7, <2>2, <2>3 DEF OnAuthTimeout
<1> QED
  BY <1>2, <1>3, <1>4, <1>5, <1>6, <1>7

LEMMA OwnerTells ==
    ASSUME AgentInv, OutTyped, OwnerEndsSession
    PROVE  Tells
<1>1. HandlerInv /\ LoginTyped
  BY DEF AgentInv, HandlerInv
<1>2. CASE active # None /\ EndHere(current) /\ UNCHANGED loginVars
  BY <1>1, <1>2, ActiveHasId, EndTells DEF loginVars
<1>3. CASE pending # None /\ NoWait /\ Says(<<Msg("Bye", pending.sid)>>) /\ UNCHANGED <<slotVars, status>>
  <2>1. pending' = None /\ pending.sid \in Sid /\ UNCHANGED current
    BY <1>1, <1>3 DEF NoWait, LoginTyped, Wait, slotVars
  <2> QED
    BY <1>3, <2>1, OneSaid, MsgTyped
<1> QED
  BY <1>2, <1>3 DEF OwnerEndsSession

-----------------------------------------------------------------------------
(* The steps.                                                               *)

(* A message read: the newcomer it announces has been met; whoever was met  *)
(* before stays so, unless it is their own Bye.                             *)
LEMMA MessageTells ==
    ASSUME AgentInv, OutTyped, AgentReads
    PROVE  /\ OutTyped' /\ current' \in {current, None, Head(inbox).sid}
           /\ \A b \in Sid : Head(inbox) = Msg("PeerJoined", b) => Met(b)'
           /\ \A b \in Sid : /\ Head(inbox).type # "PeerJoined" /\ Head(inbox) # Msg("Bye", b)
                             /\ Met(b)
                             => Met(b)'
<1> DEFINE m == Head(inbox)
<1>1. /\ m \in WireMsg /\ LinkTyped /\ LoginTyped /\ Online
      /\ \/ m.type = "PeerJoined" /\ ReadsPeerJoined(m.sid)
         \/ m.type = "BadAnswer" /\ ReadsBadAnswer(m.sid)
         \/ m.type = "PakeStart" /\ ReadsPakeStart(m.sid)
         \/ m.type = "PakeFinish" /\ ReadsPakeFinish(m.sid)
         \/ m.type = "Bye" /\ ReadsBye(m.sid)
  BY DEF AgentReads, AgentInv, HandlerInv, QueueTyped
<1> HIDE DEF m
<1>2. m.sid \in Sid /\ (m.type = "Bye" => m = Msg("Bye", m.sid))
  BY <1>1 DEF WireMsg, Msg
<1>3. \A b : m = Msg("PeerJoined", b) => m.sid = b /\ m.type = "PeerJoined"
  BY DEF Msg
<1>4. CASE m.type = "PeerJoined" /\ ReadsPeerJoined(m.sid)
  <2>1. /\ OutTyped' /\ current' \in {current, None, m.sid}
        /\ \A b \in Sid : b = m.sid => Met(b)'
    BY <1>1, <1>2, <1>4, PeerJoinedTells
  <2>2. \A b \in Sid : m = Msg("PeerJoined", b) => Met(b)'
    BY <1>3, <2>1
  <2> QED
    BY <1>4, <2>1, <2>2 DEF m
<1>5. CASE m.type = "Bye" /\ ReadsBye(m.sid)
  <2>1. /\ OutTyped' /\ current' \in {current, None}
        /\ \A b \in Sid : b # m.sid /\ Met(b) => Met(b)'
    BY <1>1, <1>2, <1>5, ByeTells
  <2>2. \A b \in Sid : m # Msg("Bye", b) => b # m.sid
    BY <1>2, <1>5
  <2>3. \A b : m # Msg("PeerJoined", b)
    BY <1>3, <1>5
  <2> QED
    BY <2>1, <2>2, <2>3 DEF m
<1>6. CASE m.type = "PakeFinish" /\ ReadsPakeFinish(m.sid)
  <2>1. /\ OutTyped' /\ current' \in {current, None, m.sid}
        /\ \A b \in Sid : Met(b) => Met(b)'
    BY <1>1, <1>2, <1>6, PakeFinishTells
  <2>2. \A b : m # Msg("PeerJoined", b)
    BY <1>3, <1>6
  <2> QED
    BY <2>1, <2>2 DEF m
<1>7. CASE (m.type = "BadAnswer" /\ ReadsBadAnswer(m.sid)) \/ (m.type = "PakeStart" /\ ReadsPakeStart(m.sid))
  <2>1. OutTyped' /\ current' \in {current, None} /\ \A b \in Sid : Met(b) => Met(b)'
    BY <1>1, <1>2, <1>7, BadAnswerTells, PakeStartTells DEF Tells
  <2>2. \A b : m # Msg("PeerJoined", b)
    BY <1>3, <1>7
  <2> QED
    BY <2>1, <2>2 DEF m
<1> QED
  BY <1>1, <1>4, <1>5, <1>6, <1>7

LEMMA ReadingKeepsBusy ==
    ASSUME AgentInv, BusyInv, AgentReads
    PROVE  BusyInv'
<1> DEFINE m == Head(inbox)
<1>1. /\ OutTyped /\ IdsIssued /\ AskedOrMet /\ Online /\ Listening /\ Listening'
      /\ inbox \in Seq(WireMsg) /\ inbox # <<>> /\ inbox' = Tail(inbox)
      /\ UNCHANGED <<busy, claim, fresh, link>> /\ fresh \subseteq Sid /\ busy \in Sid \cup {None}
  BY DEF BusyInv, AgentReads, AgentInv, QueueTyped, ServerTyped, Online, Listening, linkVars, serverVars
<1>2. /\ m \in WireMsg
      /\ \A i \in DOMAIN inbox' : \E j \in DOMAIN inbox : inbox'[i] = inbox[j]
      /\ \E j \in DOMAIN inbox : m = inbox[j]
      /\ \A s : LastAsked(s) => LastAsked(s)' \/ (m = Msg("PeerJoined", s) /\ NobodyAsks')
      /\ NobodyAsks => m.type # "PeerJoined" /\ NobodyAsks'
  BY <1>1, InboxShrinks
<1>3. /\ OutTyped' /\ current' \in {current, None, m.sid}
      /\ \A b \in Sid : m = Msg("PeerJoined", b) => Met(b)'
      /\ \A b \in Sid : m.type # "PeerJoined" /\ m # Msg("Bye", b) /\ Met(b) => Met(b)'
  BY <1>1, MessageTells
<1> HIDE DEF m
<1>4. IdsIssued'
  <2>1. m.sid \notin fresh
    BY <1>1, <1>2 DEF IdsIssued
  <2>2. current' \notin fresh
    BY <1>1, <1>3, <2>1 DEF IdsIssued
  <2>3. \A i \in DOMAIN inbox' : /\ inbox'[i].sid \notin fresh
                                 /\ inbox'[i].type = "Bye" => inbox'[i].sid # busy
    BY <1>1, <1>2 DEF IdsIssued
  <2> QED
    BY <1>1, <2>2, <2>3 DEF IdsIssued
<1>5. ASSUME busy \notin {None, claim}
      PROVE  LastAsked(busy)' \/ (Online' /\ NobodyAsks' /\ Met(busy)')
  <2>1. Online' /\ busy' = busy /\ busy \in Sid
    BY <1>1, <1>5 DEF Online
  <2>2. m # Msg("Bye", busy)
    <3>1. PICK j \in DOMAIN inbox : m = inbox[j]
      BY <1>2
    <3>2. m.type = "Bye" => m.sid # busy
      BY <1>1, <3>1 DEF IdsIssued
    <3> QED
      BY <3>2 DEF Msg
  <2>3. CASE LastAsked(busy)
    BY <1>2, <1>3, <2>1, <2>3
  <2>4. CASE NobodyAsks /\ Met(busy)
    BY <1>2, <1>3, <2>1, <2>2, <2>4
  <2> QED
    BY <1>1, <1>5, <2>3, <2>4 DEF AskedOrMet
<1>6. AskedOrMet'
  BY <1>1, <1>5 DEF AskedOrMet
<1> QED
  BY <1>3, <1>4, <1>6 DEF BusyInv

(* Between messages: events, the owner, and what the slot does not notice.  *)
LEMMA TellingKeepsBusy ==
    ASSUME AgentInv, BusyInv, Tells, UNCHANGED <<inbox, linkVars, serverVars>>
    PROVE  BusyInv'
<1>1. /\ UNCHANGED <<inbox, busy, claim, fresh, link>>
      /\ fresh \subseteq Sid /\ busy \in Sid \cup {None}
  BY DEF linkVars, serverVars, AgentInv, ServerTyped
<1>2. OutTyped' /\ IdsIssued'
  BY <1>1 DEF BusyInv, Tells, IdsIssued, Listening
<1>3. AskedOrMet'
  BY <1>1 DEF BusyInv, Tells, AskedOrMet, Listening, Online, LastAsked, NobodyAsks
<1> QED
  BY <1>2, <1>3 DEF BusyInv

LEMMA LinkKeepsBusy ==
    ASSUME AgentInv, BusyInv, LinkStep
    PROVE  BusyInv'
<1>1. /\ UNCHANGED <<current, fresh>> /\ current \notin fresh /\ claim \notin fresh /\ None \notin fresh
      /\ OutTyped /\ IdsIssued /\ AskedOrMet
  BY DEF LinkStep, Connects, Registers, HandshakeEnds, LinkLost, slotVars, serverVars, BusyInv,
         IdsIssued, AgentInv, ServerTyped
<1>2. CASE Connects
  <2>1. /\ UNCHANGED <<inbox, outbox, busy>> /\ claim' = current /\ inbox = <<>> /\ ~Listening'
    BY <1>1, <1>2 DEF Connects, IdsIssued, Listening, serverVars
  <2> QED
    BY <1>1, <2>1 DEF BusyInv, OutTyped, IdsIssued, AskedOrMet
<1>3. CASE Registers
  <2>1. UNCHANGED <<inbox, outbox, claim>> /\ busy' = claim /\ inbox = <<>>
    BY <1>1, <1>3 DEF Registers, IdsIssued, Listening
  <2> QED
    BY <1>1, <2>1 DEF BusyInv, OutTyped, IdsIssued, AskedOrMet
<1>4. CASE HandshakeEnds
  <2>1. UNCHANGED <<inbox, outbox, claim, busy>> /\ Listening /\ Listening' /\ ~Online
    BY <1>4 DEF HandshakeEnds, Listening, Online, serverVars
  <2> QED
    BY <1>1, <2>1 DEF BusyInv, OutTyped, IdsIssued, AskedOrMet, LastAsked
<1>5. CASE LinkLost
  <2>1. UNCHANGED busy /\ inbox' = <<>> /\ outbox' = <<>> /\ claim' = None /\ ~Listening'
    BY <1>5 DEF LinkLost, Listening, serverVars
  <2> QED
    BY <1>1, <2>1 DEF BusyInv, OutTyped, IdsIssued, AskedOrMet
<1> QED
  BY <1>2, <1>3, <1>4, <1>5 DEF LinkStep

LEMMA OutboxShrinks ==
    ASSUME OutTyped, outbox # <<>>, outbox' = Tail(outbox)
    PROVE  /\ OutTyped'
           /\ \A s : Underway(outbox, "Bye", s) => Underway(outbox', "Bye", s) \/ Head(outbox) = Msg("Bye", s)
<1>1. /\ DOMAIN outbox = 1 .. Len(outbox) /\ DOMAIN outbox' = 1 .. Len(outbox) - 1 /\ Len(outbox) \in Nat
      /\ Head(outbox) = outbox[1] /\ outbox' \in Seq(OutMsg)
      /\ \A i \in 1 .. Len(outbox) - 1 : outbox'[i] = outbox[i + 1]
  BY DEF OutTyped
<1>2. ASSUME NEW s, Underway(outbox, "Bye", s), Head(outbox) # Msg("Bye", s)
      PROVE  Underway(outbox', "Bye", s)
  <2>1. PICK i \in DOMAIN outbox : outbox[i] = Msg("Bye", s)
    BY <1>2 DEF Underway
  <2>2. i - 1 \in DOMAIN outbox' /\ outbox'[i - 1] = outbox[i]
    BY <1>1, <1>2, <2>1
  <2> QED
    BY <2>1, <2>2 DEF Underway
<1> QED
  BY <1>1, <1>2 DEF OutTyped

LEMMA InboxSids ==
    ASSUME inbox \in Seq(WireMsg)
    PROVE  \A i \in DOMAIN inbox : inbox[i].sid \in Sid /\ inbox[i].sid # None
<1>1. \A i \in DOMAIN inbox : inbox[i] \in WireMsg
  OBVIOUS
<1>2. \A i \in DOMAIN inbox : inbox[i].sid \in Sid
  BY <1>1 DEF WireMsg
<1> QED
  BY <1>2

LEMMA ServerKeepsBusy ==
    ASSUME AgentInv, BusyInv, ServerStep
    PROVE  BusyInv'
<1>1. /\ UNCHANGED <<current, pending, claim, link>> /\ current \notin fresh /\ claim \notin fresh
      /\ None \notin fresh /\ OutTyped /\ IdsIssued /\ AskedOrMet /\ inbox \in Seq(WireMsg)
      /\ busy \in Sid \cup {None}
  BY DEF ServerStep, ServerNoticesLoss, ServerReads, ClientJoins, ClientSays, ClientLeaves, Elsewhere,
         slotVars, loginVars, linkVars, BusyInv, IdsIssued, AgentInv, ServerTyped, QueueTyped
<1>2. CASE ServerNoticesLoss
  <2>1. UNCHANGED <<fresh, inbox, outbox>> /\ busy' = None /\ inbox = <<>> /\ ~Listening'
    BY <1>1, <1>2 DEF ServerNoticesLoss, IdsIssued, Listening
  <2> QED
    BY <1>1, <2>1 DEF BusyInv, OutTyped, IdsIssued, AskedOrMet
<1>3. CASE ServerReads
  <2>1. /\ outbox # <<>> /\ outbox' = Tail(outbox) /\ UNCHANGED <<fresh, inbox>>
        /\ busy' \in {busy, None}
        /\ Head(outbox).type = "Bye" /\ Head(outbox).sid = busy => busy' = None
    BY <1>3 DEF ServerReads, serverVars
  <2>2. /\ OutTyped'
        /\ \A s : Underway(outbox, "Bye", s) => Underway(outbox', "Bye", s) \/ Head(outbox) = Msg("Bye", s)
    BY <1>1, <2>1, OutboxShrinks
  <2>3. IdsIssued'
    <3>1. \A i \in DOMAIN inbox : inbox[i].type = "Bye" => inbox[i].sid # busy'
      BY <1>1, <2>1, InboxSids DEF IdsIssued
    <3> QED
      BY <1>1, <2>1, <3>1 DEF IdsIssued, Listening
  <2>4. AskedOrMet'
    <3>1. CASE busy' = None
      BY <3>1 DEF AskedOrMet
    <3>2. CASE busy' = busy /\ busy # None
      <4>1. Head(outbox) # Msg("Bye", busy)
        BY <2>1, <3>2 DEF Msg
      <4>2. Met(busy) => Met(busy)'
        BY <1>1, <2>2, <3>2, <4>1 DEF Met, Waiting
      <4> QED
        BY <1>1, <2>1, <3>2, <4>2 DEF AskedOrMet, Listening, Online, LastAsked, NobodyAsks
    <3> QED
      BY <2>1, <3>1, <3>2
  <2> QED
    BY <2>2, <2>3, <2>4 DEF BusyInv
<1>4. ASSUME NEW s \in Sid, ClientJoins(s) PROVE BusyInv'
  <2> DEFINE m == Msg("PeerJoined", s)
  <2>1. /\ busy = None /\ s \in fresh /\ busy' = s /\ fresh' = fresh \ {s} /\ UNCHANGED outbox
        /\ inbox' = IF Listening THEN Append(inbox, m) ELSE inbox
    BY <1>4 DEF ClientJoins, Reaches, Listening
  <2>2. m \in WireMsg /\ m.sid = s /\ m.type = "PeerJoined"
    BY DEF WireMsg, Msg
  <2>3. CASE ~Listening
    BY <1>1, <2>1, <2>3 DEF BusyInv, OutTyped, IdsIssued, AskedOrMet, Listening
  <2>4. CASE Listening
    <3>1. inbox' = Append(inbox, m)
      BY <2>1, <2>4
    <3> HIDE DEF m
    <3>2. \A i \in DOMAIN inbox' : inbox'[i] = m \/ \E j \in DOMAIN inbox : inbox'[i] = inbox[j]
      BY <1>1, <2>2, <3>1, InboxGrows
    <3>3. LastAsked(s)'
      BY <1>1, <2>2, <3>1, InboxGrows DEF m
    <3>4. \A i \in DOMAIN inbox' : /\ inbox'[i].sid \notin fresh'
                                   /\ inbox'[i].type = "Bye" => inbox'[i].sid # s
      BY <1>1, <2>1, <2>2, <3>2 DEF IdsIssued
    <3>5. IdsIssued'
      BY <1>1, <2>1, <2>4, <3>4 DEF IdsIssued, Listening
    <3>6. AskedOrMet'
      BY <2>1, <3>3 DEF AskedOrMet, LastAsked
    <3> QED
      BY <1>1, <2>1, <3>5, <3>6 DEF BusyInv, OutTyped
  <2> QED
    BY <2>3, <2>4
<1>5. ASSUME NEW s \in Sid, ClientSays(s) PROVE BusyInv'
  <2>1. PICK type \in NextOf(s) : Reaches(Msg(type, s))
    BY <1>5 DEF ClientSays
  <2>2. type \in {"PakeStart", "PakeFinish", "BadAnswer"}
    BY <2>1 DEF NextOf
  <2> DEFINE m == Msg(type, s)
  <2>3. /\ m \in WireMsg /\ m.sid = s /\ m.type # "PeerJoined" /\ m.type # "Bye"
    BY <2>2 DEF WireMsg, Msg
  <2>4. /\ busy = s /\ UNCHANGED <<busy, fresh, outbox>>
        /\ inbox' = IF Listening THEN Append(inbox, m) ELSE inbox
    BY <1>5, <2>1 DEF ClientSays, Reaches, Listening, serverVars
  <2>5. Met(s) => Met(s)'
    BY <1>1, <2>4 DEF Met, Waiting
  <2> HIDE DEF m
  <2>6. CASE ~Listening
    BY <1>1, <2>4, <2>6 DEF BusyInv, OutTyped, IdsIssued, AskedOrMet, Listening
  <2>7. CASE Listening
    <3>1. inbox' = Append(inbox, m)
      BY <2>4, <2>7
    <3>2. /\ \A i \in DOMAIN inbox' : inbox'[i] = m \/ \E j \in DOMAIN inbox : inbox'[i] = inbox[j]
          /\ LastAsked(s) => LastAsked(s)'
      BY <1>1, <2>3, <3>1, InboxGrows
    <3>3. IdsIssued'
      BY <1>1, <2>3, <2>4, <2>7, <3>2 DEF IdsIssued, Listening
    <3>4. NobodyAsks => NobodyAsks'
      BY <2>3, <3>2 DEF NobodyAsks
    <3>5. LastAsked(busy)' <=> LastAsked(s)'
      BY <2>4
    <3>6. AskedOrMet'
      BY <1>1, <2>4, <2>5, <3>2, <3>4 DEF AskedOrMet, Listening, Online, LastAsked
    <3> QED
      BY <1>1, <2>4, <3>3, <3>6 DEF BusyInv, OutTyped
  <2> QED
    BY <2>6, <2>7
<1>6. ASSUME NEW s \in Sid, ClientLeaves(s) PROVE BusyInv'
  <2> DEFINE m == Msg("Bye", s)
  <2>1. /\ busy = s /\ busy' = None /\ UNCHANGED <<fresh, outbox>>
        /\ \/ inbox' = inbox
           \/ Listening /\ inbox' = Append(inbox, m)
    BY <1>6 DEF ClientLeaves, Reaches, Listening
  <2>2. m \in WireMsg /\ m.sid = s
    BY DEF WireMsg, Msg
  <2> HIDE DEF m
  <2>3. \A i \in DOMAIN inbox' : inbox'[i] = m \/ \E j \in DOMAIN inbox : inbox'[i] = inbox[j]
    BY <1>1, <2>1, <2>2, InboxGrows
  <2>4. \A i \in DOMAIN inbox' : inbox'[i].sid \notin fresh /\ inbox'[i].sid \in Sid
    BY <1>1, <2>1, <2>2, <2>3, InboxSids DEF IdsIssued
  <2>5. IdsIssued'
    BY <1>1, <2>1, <2>4 DEF IdsIssued, Listening
  <2> QED
    BY <1>1, <2>1, <2>5 DEF BusyInv, OutTyped, AskedOrMet
<1> QED
  BY <1>2, <1>3, <1>4, <1>5, <1>6 DEF ServerStep

LEMMA BusyStepKeeps ==
    AgentInv /\ BusyInv /\ [AgentNext]_agentVars => BusyInv'
<1> SUFFICES ASSUME AgentInv, BusyInv, [AgentNext]_agentVars PROVE BusyInv'
  OBVIOUS
<1>0. OutTyped
  BY DEF BusyInv
<1>1. CASE AgentReads
  BY <1>1, ReadingKeepsBusy
<1>2. CASE AgentHandlesEvent
  BY <1>0, <1>2, EventTells, TellingKeepsBusy DEF AgentHandlesEvent
<1>3. CASE OwnerEndsSession
  BY <1>0, <1>3, OwnerTells, TellingKeepsBusy DEF OwnerEndsSession
<1>4. CASE LinkStep
  BY <1>4, LinkKeepsBusy
<1>5. CASE ServerStep
  BY <1>5, ServerKeepsBusy
<1>6. CASE Surroundings \/ UNCHANGED agentVars
  <2>1. UNCHANGED <<current, pending, outbox, inbox, linkVars, serverVars>>
    BY <1>6 DEF Surroundings, PeerEmits, TimerFires, PauseLapses, PasswordChanges, agentVars,
                slotVars, loginVars
  <2> QED
    BY <1>0, <2>1, NothingSaid, TellingKeepsBusy
<1> QED
  BY <1>1, <1>2, <1>3, <1>4, <1>5, <1>6 DEF AgentNext

(* D35, through every order of newcomers, logins, ends, reconnects and       *)
(* stale messages: while the agent is online, the server holds the device   *)
(* busy only with a session the agent is in or lets log in, one it is about *)
(* to hear of, one it has reported ended -- or the one it registered with.  *)
THEOREM BusyStaysExplained ==
    AgentSpec => []BusyIsExplained
<1>1. AgentInit => BusyInv
  <2>1. AgentInit => OutTyped
    BY DEF AgentInit, OutTyped
  <2>2. AgentInit => IdsIssued
    BY DEF AgentInit, IdsIssued
  <2>3. AgentInit => AskedOrMet
    BY DEF AgentInit, AskedOrMet
  <2> QED
    BY <2>1, <2>2, <2>3 DEF BusyInv
<1>2. BusyInv => BusyIsExplained
  <2>1. \A s : LastAsked(s) => Underway(inbox, "PeerJoined", s)
    BY DEF LastAsked, Underway
  <2>2. Online => Listening
    BY DEF Online, Listening
  <2> QED
    BY <2>1, <2>2 DEF BusyInv, AskedOrMet, Met, BusyIsExplained, Explained
<1> QED
  BY <1>1, <1>2, AgentInvariant, BusyStepKeeps, PTL DEF AgentSpec
=============================================================================
