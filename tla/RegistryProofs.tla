--------------------------- MODULE RegistryProofs ---------------------------
(***************************************************************************)
(* Proofs about Registry, for any sets of hosts, connections, clients,     *)
(* session ids and PINs, finite or not.                                    *)
(***************************************************************************)
EXTENDS Registry, TLAPS

(* An entry is present in every field or absent in every field.             *)
LEMMA Entries ==
    ASSUME TypeOK
    PROVE  /\ \A h \in Host : Online(h) => hosts[h] \in HostEntry
           /\ \A h \in Host : ~Online(h) => hosts[h] = NoHost
           /\ \A s \in Sid : Live(s) => sessions[s] \in SessionEntry
           /\ \A s \in Sid : ~Live(s) => sessions[s] = NoSession
BY NoneIsNoValue DEF TypeOK, Online, Live, HostEntry, SessionEntry, NoHost, NoSession

LEMMA WithoutType ==
    ASSUME TypeOK, NEW S
    PROVE  Without(S) \in [Sid -> SessionEntry \cup {NoSession}]
BY DEF TypeOK, Without

-----------------------------------------------------------------------------
LEMMA TypeInit == RegInit => TypeOK
BY DEF RegInit, TypeOK, JoinLocals

LEMMA TypeRegister ==
    ASSUME TypeOK, NEW h \in Host, NEW c \in HostConn, NEW claimed \in Sid \cup {None},
           NEW rotates \in BOOLEAN, NEW pin \in Pin,
           RegisterHost(h, c, claimed, rotates, pin)
    PROVE  TypeOK'
<1>1. hosts' \in [Host -> HostEntry \cup {NoHost}]
  BY DEF TypeOK, RegisterHost, HostEntry
<1>2. pinToHost' \in [Pin -> Host \cup {None}]
  BY DEF TypeOK, RegisterHost
<1>3. sessions' \in [Sid -> SessionEntry \cup {NoSession}]
  <2>1. CASE Owns(h, claimed)
    <3>1. sessions[claimed] \in SessionEntry
      BY <2>1, NoneIsNoValue DEF TypeOK, Owns, NoSession
    <3>2. sessions' = [sessions EXCEPT ![claimed].hostTx = c]
      BY <2>1 DEF RegisterHost
    <3>3. claimed \in Sid
      BY <2>1 DEF Owns
    <3> QED
      BY <3>1, <3>2, <3>3 DEF TypeOK, SessionEntry
  <2>2. CASE ~Owns(h, claimed)
    BY <2>2, WithoutType DEF RegisterHost
  <2> QED
    BY <2>1, <2>2
<1>4. joining' \in [Client -> JoinLocals]
  BY DEF TypeOK, RegisterHost
<1> QED
  BY <1>1, <1>2, <1>3, <1>4 DEF TypeOK

LEMMA TypeUnregister ==
    ASSUME TypeOK, NEW h \in Host, NEW c \in HostConn, UnregisterHost(h, c)
    PROVE  TypeOK'
<1>1. CASE IsCurrentHost(h, c)
  <2>1. hosts[h].pin \in Pin
    BY <1>1, NoneIsNoValue DEF TypeOK, IsCurrentHost, HostEntry, NoHost
  <2>2. sessions' \in [Sid -> SessionEntry \cup {NoSession}]
    BY <1>1, WithoutType DEF UnregisterHost
  <2> QED
    BY <1>1, <2>1, <2>2 DEF TypeOK, UnregisterHost
<1>2. CASE ~IsCurrentHost(h, c)
  BY <1>2 DEF UnregisterHost, TypeOK, regVars
<1> QED
  BY <1>1, <1>2

(* The part of an entry that JoinByHostId and JoinEnter share.              *)
LEMMA TypeEnter ==
    ASSUME TypeOK, NEW h \in Host, NEW c \in Client, NEW s \in Sid, Enter(h, c, s)
    PROVE  /\ hosts[h] \in HostEntry
           /\ hosts' \in [Host -> HostEntry \cup {NoHost}]
           /\ pinToHost' \in [Pin -> Host \cup {None}]
           /\ sessions' \in [Sid -> SessionEntry \cup {NoSession}]
<1>1. hosts[h] \in HostEntry
  BY Entries DEF Enter, CanEnter
<1>2. [hosts[h] EXCEPT !.sid = s] \in HostEntry
  BY <1>1 DEF HostEntry
<1>3. hosts' \in [Host -> HostEntry \cup {NoHost}]
  BY <1>2 DEF TypeOK, Enter
<1>4. [host |-> h, hostTx |-> hosts[h].tx, client |-> c] \in SessionEntry
  BY <1>1 DEF HostEntry, SessionEntry
<1>5. sessions' \in [Sid -> SessionEntry \cup {NoSession}]
  BY <1>4 DEF TypeOK, Enter
<1> QED
  BY <1>1, <1>3, <1>5 DEF TypeOK, Enter

LEMMA TypeJoinByHostId ==
    ASSUME TypeOK, NEW h \in Host, NEW c \in Client, NEW s \in Sid, JoinByHostId(h, c, s)
    PROVE  TypeOK'
BY TypeEnter DEF JoinByHostId, TypeOK

LEMMA TypeJoinResolve ==
    ASSUME TypeOK, NEW c \in Client, NEW pin \in Pin, NEW h \in Host, JoinResolve(c, pin, h)
    PROVE  TypeOK'
<1>1. [NotJoining EXCEPT !.step = "resolved", !.host = h] \in JoinLocals
  BY DEF JoinLocals, NotJoining
<1> QED
  BY <1>1 DEF TypeOK, JoinResolve

LEMMA TypeJoinEnter ==
    ASSUME TypeOK, NEW c \in Client, NEW s \in Sid, JoinEnter(c, s)
    PROVE  TypeOK'
<1> DEFINE h == joining[c].host
<1>1. h \in Host
  BY DEF TypeOK, JoinEnter, JoinLocals, NotJoining
<1>2. Enter(h, c, s)
  BY DEF JoinEnter
<1>3. [step |-> "entered", host |-> h, tx |-> hosts[h].tx, sid |-> s] \in JoinLocals
  BY <1>1, <1>2, TypeEnter DEF JoinLocals, HostEntry
<1>4. joining' \in [Client -> JoinLocals]
  BY <1>3 DEF TypeOK, JoinEnter
<1> QED
  BY <1>1, <1>2, <1>4, TypeEnter DEF TypeOK

LEMMA TypeJoinRefused ==
    ASSUME TypeOK, NEW c \in Client, JoinRefused(c)
    PROVE  TypeOK'
BY DEF TypeOK, JoinRefused, JoinLocals

LEMMA TypeJoinRotate ==
    ASSUME TypeOK, NEW c \in Client, NEW pin \in Pin, JoinRotate(c, pin)
    PROVE  TypeOK'
<1> DEFINE h == joining[c].host
<1>1. joining' \in [Client -> JoinLocals]
  BY DEF TypeOK, JoinRotate, JoinLocals
<1>2. CASE RotatesOnJoin(c)
  <2>1. h \in Host
    BY DEF TypeOK, JoinRotate, JoinLocals, NotJoining
  <2>2. hosts[h] \in HostEntry
    BY <1>2, <2>1 DEF TypeOK, RotatesOnJoin, NoHost
  <2>3. [hosts[h] EXCEPT !.pin = pin, !.expired = FALSE] \in HostEntry
    BY <2>2 DEF HostEntry
  <2>4. RotatePin(h, pin)
    BY <1>2 DEF JoinRotate
  <2>5. hosts' \in [Host -> HostEntry \cup {NoHost}]
    BY <2>1, <2>2, <2>3, <2>4 DEF TypeOK, RotatePin, HostEntry
  <2>6. pinToHost' \in [Pin -> Host \cup {None}]
    BY <2>1, <2>4 DEF TypeOK, RotatePin
  <2> QED
    BY <1>1, <2>5, <2>6 DEF TypeOK, JoinRotate
<1>3. CASE ~RotatesOnJoin(c)
  BY <1>1, <1>3 DEF TypeOK, JoinRotate
<1> QED
  BY <1>2, <1>3

LEMMA ExpiredEntries ==
    ASSUME TypeOK, NEW h \in Expired
    PROVE  h \in Host /\ hosts[h] \in HostEntry
BY DEF TypeOK, Expired, NoHost

LEMMA TypeRotateExpired ==
    ASSUME TypeOK, NEW new \in [Expired -> Pin], RotateExpiredPins(new)
    PROVE  TypeOK'
<1>1. ASSUME NEW h \in Expired
      PROVE  [hosts[h] EXCEPT !.pin = new[h], !.expired = FALSE] \in HostEntry
  BY <1>1, ExpiredEntries DEF HostEntry
<1>2. hosts' \in [Host -> HostEntry \cup {NoHost}]
  BY <1>1 DEF TypeOK, RotateExpiredPins
<1>3. ASSUME NEW p \in Pin
      PROVE  pinToHost'[p] \in Host \cup {None}
  <2>1. CASE \E h \in Expired : new[h] = p
    <3>1. PICK g \in Expired : g = CHOOSE h \in Expired : new[h] = p
      BY <2>1
    <3>2. pinToHost'[p] = g
      BY <2>1, <3>1 DEF RotateExpiredPins
    <3> QED
      BY <3>2 DEF Expired
  <2>2. CASE ~\E h \in Expired : new[h] = p
    BY <2>2 DEF TypeOK, RotateExpiredPins
  <2> QED
    BY <2>1, <2>2
<1>4. pinToHost' \in [Pin -> Host \cup {None}]
  BY <1>3 DEF RotateExpiredPins
<1> QED
  BY <1>2, <1>4 DEF TypeOK, RotateExpiredPins

LEMMA TypePinExpires ==
    ASSUME TypeOK, NEW h \in Host, PinExpires(h)
    PROVE  TypeOK'
<1>1. hosts[h] \in HostEntry
  BY DEF TypeOK, PinExpires, NoHost
<1>2. [hosts[h] EXCEPT !.expired = TRUE] \in HostEntry
  BY <1>1 DEF HostEntry
<1> QED
  BY <1>1, <1>2 DEF TypeOK, PinExpires, HostEntry

LEMMA TypeCloseByHost ==
    ASSUME TypeOK, NEW h \in Host, NEW s \in Sid, CloseByHost(h, s)
    PROVE  TypeOK'
<1>1. hosts[h] \in HostEntry
  BY NoneIsNoValue DEF TypeOK, CloseByHost, NoHost
<1>2. [hosts[h] EXCEPT !.sid = None] \in HostEntry
  BY <1>1 DEF HostEntry
<1> QED
  BY <1>1, <1>2, WithoutType DEF TypeOK, CloseByHost, HostEntry

LEMMA TypeEndSessions ==
    ASSUME TypeOK, NEW S, EndSessions(S)
    PROVE  TypeOK'
<1>1. ASSUME NEW h \in Host, Online(h)
      PROVE  [hosts[h] EXCEPT !.sid = None] \in HostEntry
  BY <1>1, Entries DEF HostEntry
<1> QED
  BY <1>1, WithoutType DEF TypeOK, EndSessions

LEMMA TypeStep == TypeOK /\ [RegNext]_regVars => TypeOK'
<1> SUFFICES ASSUME TypeOK, [RegNext]_regVars
             PROVE  TypeOK'
  OBVIOUS
<1>1. CASE \E c \in HostConn : HostCalls(c)
  BY <1>1, TypeRegister, TypeUnregister, TypeCloseByHost DEF HostCalls
<1>2. CASE \E c \in Client : JoinSteps(c)
  BY <1>2, TypeJoinResolve, TypeJoinEnter, TypeJoinRefused, TypeJoinRotate DEF JoinSteps
<1>3. CASE \E c \in Client : ClientCalls(c)
  BY <1>3, TypeJoinByHostId, TypeEndSessions DEF ClientCalls, CloseByClient, DisconnectClient
<1>4. CASE PinUpkeep
  BY <1>4, TypePinExpires, TypeRotateExpired DEF PinUpkeep
<1>5. CASE UNCHANGED regVars
  BY <1>5 DEF regVars, TypeOK
<1> QED
  BY <1>1, <1>2, <1>3, <1>4, <1>5 DEF RegNext

(* Every registry variable always holds what its Rust type admits, and an   *)
(* entry of `hosts` or `sessions` is never half filled in.                  *)
THEOREM TypeCorrect == RegSpec => []TypeOK
<1>1. RegInit => TypeOK
  BY TypeInit
<1>2. TypeOK /\ [RegNext]_regVars => TypeOK'
  BY TypeStep
<1> QED
  BY <1>1, <1>2, PTL DEF RegSpec

-----------------------------------------------------------------------------
(* SessionBacked: the invariant that ties `sessions` to `hosts`.            *)

LEMMA BackedRegister ==
    ASSUME TypeOK, SessionBacked, NEW h \in Host, NEW c \in HostConn,
           NEW claimed \in Sid \cup {None}, NEW rotates \in BOOLEAN, NEW pin \in Pin,
           RegisterHost(h, c, claimed, rotates, pin)
    PROVE  SessionBacked'
<1> SUFFICES ASSUME NEW s \in Sid, Live(s)'
             PROVE  /\ Online(sessions[s].host)'
                    /\ (hosts[sessions[s].host].sid = s)'
                    /\ (hosts[sessions[s].host].tx = sessions[s].hostTx)'
  BY DEF SessionBacked
<1>1. CASE Owns(h, claimed)
  <2>1. sessions' = [sessions EXCEPT ![claimed].hostTx = c] /\ claimed \in Sid
    BY <1>1 DEF RegisterHost, Owns
  <2>2. /\ sessions[claimed] \in SessionEntry
        /\ sessions[claimed].host = h
        /\ hosts[h].sid = claimed
    BY <1>1, NoneIsNoValue, Entries DEF Owns, Live, SessionBacked
  <2>3. CASE s = claimed
    BY <2>1, <2>2, <2>3, NoneIsNoValue DEF TypeOK, RegisterHost, SessionEntry, Online, HostEntry
  <2>4. CASE s # claimed
    <3>1. sessions'[s] = sessions[s] /\ Live(s) /\ sessions[s].host \in Host
      BY <2>1, <2>4, Entries DEF TypeOK, Live, SessionEntry
    <3>2. sessions[s].host # h
      BY <2>2, <2>4, <3>1 DEF SessionBacked
    <3> QED
      BY <3>1, <3>2 DEF TypeOK, RegisterHost, SessionBacked, Online
  <2> QED
    BY <2>3, <2>4
<1>2. CASE ~Owns(h, claimed)
  <2>1. sessions' = Without({t \in Sid : t = hosts[h].sid /\ Owns(h, t)})
    BY <1>2 DEF RegisterHost
  <2>2. sessions'[s] = sessions[s] /\ Live(s) /\ sessions[s].host \in Host
    BY <2>1, Entries DEF Without, Live, NoSession, SessionEntry
  <2>3. sessions[s].host # h
    BY <2>1, <2>2, NoneIsNoValue DEF SessionBacked, Without, Owns, Live, NoSession
  <2> QED
    BY <2>2, <2>3 DEF TypeOK, RegisterHost, SessionBacked, Online
<1> QED
  BY <1>1, <1>2

LEMMA BackedUnregister ==
    ASSUME TypeOK, SessionBacked, NEW h \in Host, NEW c \in HostConn, UnregisterHost(h, c)
    PROVE  SessionBacked'
<1>1. CASE IsCurrentHost(h, c)
  <2> SUFFICES ASSUME NEW s \in Sid, Live(s)'
               PROVE  /\ Online(sessions[s].host)'
                      /\ (hosts[sessions[s].host].sid = s)'
                      /\ (hosts[sessions[s].host].tx = sessions[s].hostTx)'
    BY DEF SessionBacked
  <2>1. hosts' = [hosts EXCEPT ![h] = NoHost]
    BY <1>1 DEF UnregisterHost
  <2>2. sessions' = Without({t \in Sid : t = hosts[h].sid /\ Owns(h, t)})
    BY <1>1 DEF UnregisterHost
  <2>3. sessions'[s] = sessions[s] /\ Live(s) /\ sessions[s].host \in Host
    BY <2>2, Entries DEF Without, Live, NoSession, SessionEntry
  <2>4. sessions[s].host # h
    BY <2>2, <2>3 DEF SessionBacked, Without, Owns, Live, NoSession
  <2> QED
    BY <2>1, <2>3, <2>4 DEF TypeOK, SessionBacked, Online
<1>2. CASE ~IsCurrentHost(h, c)
  BY <1>2 DEF UnregisterHost, regVars, SessionBacked, Live, Online
<1> QED
  BY <1>1, <1>2

LEMMA BackedEnter ==
    ASSUME TypeOK, SessionBacked, NEW h \in Host, NEW c \in Client, NEW s \in Sid,
           Enter(h, c, s)
    PROVE  SessionBacked'
<1> SUFFICES ASSUME NEW t \in Sid, Live(t)'
             PROVE  /\ Online(sessions[t].host)'
                    /\ (hosts[sessions[t].host].sid = t)'
                    /\ (hosts[sessions[t].host].tx = sessions[t].hostTx)'
  BY DEF SessionBacked
<1>1. hosts[h] \in HostEntry /\ hosts[h].sid = None
  BY TypeEnter DEF Enter, CanEnter
<1>2. CASE t = s
  BY <1>1, <1>2, NoneIsNoValue DEF TypeOK, Enter, HostEntry, Online
<1>3. CASE t # s
  <2>1. sessions'[t] = sessions[t] /\ Live(t) /\ sessions[t].host \in Host
    BY <1>3, Entries DEF TypeOK, Enter, Live, SessionEntry
  <2>2. sessions[t].host # h
    BY <1>1, <2>1, NoneIsNoValue DEF SessionBacked
  <2> QED
    BY <2>1, <2>2 DEF TypeOK, Enter, SessionBacked, Online
<1> QED
  BY <1>2, <1>3

(* Changing PINs, and what a joining client remembers, disturbs no session. *)
LEMMA BackedPins ==
    ASSUME TypeOK, SessionBacked, UNCHANGED sessions,
           \A h \in Host : hosts'[h].tx = hosts[h].tx /\ hosts'[h].sid = hosts[h].sid
    PROVE  SessionBacked'
BY Entries DEF TypeOK, SessionBacked, Live, Online, SessionEntry

LEMMA BackedCloseByHost ==
    ASSUME TypeOK, SessionBacked, NEW h \in Host, NEW s \in Sid, CloseByHost(h, s)
    PROVE  SessionBacked'
<1> SUFFICES ASSUME NEW t \in Sid, Live(t)'
             PROVE  /\ Online(sessions[t].host)'
                    /\ (hosts[sessions[t].host].sid = t)'
                    /\ (hosts[sessions[t].host].tx = sessions[t].hostTx)'
  BY DEF SessionBacked
<1>1. sessions'[t] = sessions[t] /\ Live(t) /\ sessions[t].host \in Host
  BY Entries DEF CloseByHost, Without, Live, NoSession, SessionEntry
<1>2. ~(t = s /\ Owns(h, t))
  BY DEF CloseByHost, Without, Live, NoSession
<1>3. sessions[t].host # h
  BY <1>1, <1>2 DEF SessionBacked, CloseByHost, Owns
<1> QED
  BY <1>1, <1>3 DEF TypeOK, CloseByHost, SessionBacked, Online

LEMMA BackedEndSessions ==
    ASSUME TypeOK, SessionBacked, NEW S \in SUBSET Sid, EndSessions(S)
    PROVE  SessionBacked'
<1> SUFFICES ASSUME NEW t \in Sid, Live(t)'
             PROVE  /\ Online(sessions[t].host)'
                    /\ (hosts[sessions[t].host].sid = t)'
                    /\ (hosts[sessions[t].host].tx = sessions[t].hostTx)'
  BY DEF SessionBacked
<1>1. sessions'[t] = sessions[t] /\ Live(t) /\ sessions[t].host \in Host
  BY Entries DEF EndSessions, Without, Live, NoSession, SessionEntry
<1>2. t \notin S
  BY DEF EndSessions, Without, Live, NoSession
<1> DEFINE g == sessions[t].host
<1>3. ~\E s \in S : sessions[s].host = g
  BY <1>1, <1>2, NoneIsNoValue DEF SessionBacked, TypeOK, Live
<1>4. hosts'[g] = hosts[g]
  BY <1>1, <1>3 DEF EndSessions
<1> QED
  BY <1>1, <1>4 DEF SessionBacked, Online

(* What the PIN actions leave of a host.                                    *)
LEMMA PinActionsKeepHosts ==
    ASSUME TypeOK, PinUpkeep \/ \E c \in Client, pin \in Pin : JoinRotate(c, pin)
    PROVE  /\ UNCHANGED sessions
           /\ \A h \in Host : hosts'[h].tx = hosts[h].tx /\ hosts'[h].sid = hosts[h].sid
<1>1. CASE \E h \in Host : PinExpires(h)
  BY <1>1, Entries DEF TypeOK, PinExpires, HostEntry, NoHost
<1>2. ASSUME NEW new \in [Expired -> Pin], RotateExpiredPins(new)
      PROVE  /\ UNCHANGED sessions
             /\ \A h \in Host : hosts'[h].tx = hosts[h].tx /\ hosts'[h].sid = hosts[h].sid
  <2>1. UNCHANGED sessions
    BY <1>2 DEF RotateExpiredPins
  <2>2. ASSUME NEW h \in Host
        PROVE  hosts'[h].tx = hosts[h].tx /\ hosts'[h].sid = hosts[h].sid
    <3>1. hosts'[h] = IF h \in Expired
                      THEN [hosts[h] EXCEPT !.pin = new[h], !.expired = FALSE]
                      ELSE hosts[h]
      BY <1>2 DEF RotateExpiredPins
    <3>2. CASE h \in Expired
      BY <3>1, <3>2, ExpiredEntries DEF HostEntry
    <3> QED
      BY <3>1, <3>2
  <2> QED
    BY <2>1, <2>2
<1>3. ASSUME NEW c \in Client, NEW pin \in Pin, JoinRotate(c, pin)
      PROVE  /\ UNCHANGED sessions
             /\ \A h \in Host : hosts'[h].tx = hosts[h].tx /\ hosts'[h].sid = hosts[h].sid
  <2>1. CASE RotatesOnJoin(c)
    <3> DEFINE g == joining[c].host
    <3>1. hosts' = [hosts EXCEPT ![g] = [hosts[g] EXCEPT !.pin = pin, !.expired = FALSE]]
      BY <1>3, <2>1 DEF JoinRotate, RotatePin, TypeOK
    <3>2. \A h \in Host : hosts[h] \in HostEntry \cup {NoHost}
      BY DEF TypeOK
    <3> QED
      BY <1>3, <3>1, <3>2 DEF TypeOK, JoinRotate, HostEntry, NoHost
  <2>2. CASE ~RotatesOnJoin(c)
    BY <1>3, <2>2 DEF JoinRotate
  <2> QED
    BY <2>1, <2>2
<1> QED
  BY <1>1, <1>2, <1>3 DEF PinUpkeep

LEMMA BackedStep == TypeOK /\ SessionBacked /\ [RegNext]_regVars => SessionBacked'
<1> SUFFICES ASSUME TypeOK, SessionBacked, [RegNext]_regVars
             PROVE  SessionBacked'
  OBVIOUS
<1>1. CASE \E c \in HostConn : HostCalls(c)
  BY <1>1, BackedRegister, BackedUnregister, BackedCloseByHost DEF HostCalls
<1>2. CASE \E c \in Client : JoinSteps(c)
  <2>1. ASSUME NEW c \in Client, NEW pin \in Pin, NEW h \in Host, JoinResolve(c, pin, h)
        PROVE  SessionBacked'
    BY <2>1, BackedPins DEF JoinResolve
  <2>2. ASSUME NEW c \in Client, NEW s \in Sid, JoinEnter(c, s)
        PROVE  SessionBacked'
    <3>1. joining[c].host \in Host
      BY <2>2 DEF TypeOK, JoinEnter, JoinLocals, NotJoining
    <3> QED
      BY <2>2, <3>1, BackedEnter DEF JoinEnter
  <2>3. ASSUME NEW c \in Client, JoinRefused(c)
        PROVE  SessionBacked'
    BY <2>3, BackedPins DEF JoinRefused
  <2>4. ASSUME NEW c \in Client, NEW pin \in Pin, JoinRotate(c, pin)
        PROVE  SessionBacked'
    BY <2>4, BackedPins, PinActionsKeepHosts
  <2> QED
    BY <1>2, <2>1, <2>2, <2>3, <2>4 DEF JoinSteps
<1>3. CASE \E c \in Client : ClientCalls(c)
  <2>1. ASSUME NEW c \in Client, NEW h \in Host, NEW s \in Sid, JoinByHostId(h, c, s)
        PROVE  SessionBacked'
    BY <2>1, BackedEnter DEF JoinByHostId
  <2>2. ASSUME NEW c \in Client, NEW s \in Sid, CloseByClient(s, c)
        PROVE  SessionBacked'
    BY <2>2, BackedEndSessions DEF CloseByClient
  <2>3. ASSUME NEW c \in Client, DisconnectClient(c)
        PROVE  SessionBacked'
    BY <2>3, BackedEndSessions DEF DisconnectClient
  <2> QED
    BY <1>3, <2>1, <2>2, <2>3 DEF ClientCalls
<1>4. CASE PinUpkeep
  BY <1>4, BackedPins, PinActionsKeepHosts
<1>5. CASE UNCHANGED regVars
  BY <1>5, BackedPins DEF regVars
<1> QED
  BY <1>1, <1>2, <1>3, <1>4, <1>5 DEF RegNext

(* A live session's host is online, busy with exactly that session, and     *)
(* reached through the connection the session records: in any state, a      *)
(* client's message goes to the connection that holds the registration.     *)
THEOREM SessionsBacked == RegSpec => []SessionBacked
<1>1. RegInit => SessionBacked
  BY DEF RegInit, SessionBacked, Live, NoSession
<1>2. TypeOK /\ SessionBacked /\ [RegNext]_regVars => SessionBacked'
  BY BackedStep
<1> QED
  BY <1>1, <1>2, TypeCorrect, PTL DEF RegSpec

-----------------------------------------------------------------------------
(* OneSessionPerClient: only Enter creates a session, after CanEnter has    *)
(* looked for one under the same lock.                                      *)

LEMMA OneSessionEnter ==
    ASSUME TypeOK, OneSessionPerClient,
           NEW h \in Host, NEW c \in Client, NEW s \in Sid, Enter(h, c, s)
    PROVE  OneSessionPerClient'
BY Entries, NoneIsNoValue DEF TypeOK, OneSessionPerClient, Enter, CanEnter, InSession, Live,
       SessionEntry, NoSession

LEMMA OneSessionWithout ==
    ASSUME TypeOK, OneSessionPerClient, NEW S, sessions' = Without(S)
    PROVE  OneSessionPerClient'
BY Entries, NoneIsNoValue DEF TypeOK, OneSessionPerClient, Without, Live, SessionEntry, NoSession

LEMMA OneSessionReattach ==
    ASSUME TypeOK, OneSessionPerClient, NEW s \in Sid, NEW c,
           sessions' = [sessions EXCEPT ![s].hostTx = c]
    PROVE  OneSessionPerClient'
BY DEF TypeOK, OneSessionPerClient, Live, SessionEntry, NoSession

LEMMA OneSessionStep ==
    TypeOK /\ OneSessionPerClient /\ [RegNext]_regVars => OneSessionPerClient'
<1> SUFFICES ASSUME TypeOK, OneSessionPerClient, [RegNext]_regVars
             PROVE  OneSessionPerClient'
  OBVIOUS
<1>0. ASSUME UNCHANGED sessions PROVE OneSessionPerClient'
  BY <1>0 DEF OneSessionPerClient, Live
<1>1. ASSUME NEW c \in HostConn, HostCalls(c)
      PROVE  OneSessionPerClient'
  <2>1. ASSUME NEW h \in Host, NEW claimed \in Sid \cup {None}, NEW rotates \in BOOLEAN,
               NEW pin \in Pin, RegisterHost(h, c, claimed, rotates, pin)
        PROVE  OneSessionPerClient'
    <3>1. CASE Owns(h, claimed)
      BY <2>1, <3>1, OneSessionReattach DEF RegisterHost, Owns
    <3>2. CASE ~Owns(h, claimed)
      BY <2>1, <3>2, OneSessionWithout DEF RegisterHost
    <3> QED
      BY <3>1, <3>2
  <2>2. ASSUME NEW h \in Host, UnregisterHost(h, c)
        PROVE  OneSessionPerClient'
    BY <2>2, <1>0, OneSessionWithout DEF UnregisterHost, regVars
  <2>3. ASSUME NEW h \in Host, NEW s \in Sid, CloseByHost(h, s)
        PROVE  OneSessionPerClient'
    BY <2>3, OneSessionWithout DEF CloseByHost
  <2> QED
    BY <1>1, <2>1, <2>2, <2>3 DEF HostCalls
<1>2. ASSUME NEW c \in Client, JoinSteps(c)
      PROVE  OneSessionPerClient'
  <2>1. ASSUME NEW s \in Sid, JoinEnter(c, s)
        PROVE  OneSessionPerClient'
    <3>1. joining[c].host \in Host
      BY <2>1 DEF TypeOK, JoinEnter, JoinLocals, NotJoining
    <3> QED
      BY <2>1, <3>1, OneSessionEnter DEF JoinEnter
  <2> QED
    BY <1>0, <1>2, <2>1 DEF JoinSteps, JoinResolve, JoinRefused, JoinRotate
<1>3. ASSUME NEW c \in Client, ClientCalls(c)
      PROVE  OneSessionPerClient'
  BY <1>3, OneSessionEnter, OneSessionWithout
     DEF ClientCalls, JoinByHostId, CloseByClient, DisconnectClient, EndSessions
<1>4. CASE PinUpkeep
  BY <1>0, <1>4 DEF PinUpkeep, PinExpires, RotateExpiredPins
<1>5. CASE UNCHANGED regVars
  BY <1>0, <1>5 DEF regVars
<1> QED
  BY <1>1, <1>2, <1>3, <1>4, <1>5 DEF RegNext

(* B4 for any number of clients, hosts and interleaved joins.               *)
THEOREM OneSession == RegSpec => []OneSessionPerClient
<1>1. RegInit => OneSessionPerClient
  BY DEF RegInit, OneSessionPerClient, Live, NoSession
<1>2. TypeOK /\ OneSessionPerClient /\ [RegNext]_regVars => OneSessionPerClient'
  BY OneSessionStep
<1> QED
  BY <1>1, <1>2, TypeCorrect, PTL DEF RegSpec

-----------------------------------------------------------------------------
(* PinIndexExact: the three places that touch both maps.                    *)

LEMMA IndexKept ==
    ASSUME PinIndexExact, UNCHANGED pinToHost,
           \A h \in Host : hosts'[h].pin = hosts[h].pin
    PROVE  PinIndexExact'
BY DEF PinIndexExact

LEMMA IndexRegister ==
    ASSUME TypeOK, PinIndexExact, NEW h \in Host, NEW c \in HostConn,
           NEW claimed \in Sid \cup {None}, NEW rotates \in BOOLEAN, NEW pin \in Pin,
           RegisterHost(h, c, claimed, rotates, pin)
    PROVE  PinIndexExact'
<1> SUFFICES ASSUME NEW p \in Pin, NEW g \in Host
             PROVE  (pinToHost[p] = g)' <=> (hosts[g].pin = p)'
  BY DEF PinIndexExact
<1>1. /\ hosts'[h].pin = pin
      /\ g # h => hosts'[g] = hosts[g]
  BY DEF TypeOK, RegisterHost
<1>2. pinToHost'[p] = IF p = pin THEN h
                      ELSE IF p = hosts[h].pin THEN None ELSE pinToHost[p]
  BY DEF RegisterHost
<1>3. pinToHost[pin] = None \/ pinToHost[pin] = h
  BY DEF RegisterHost, PinIndexExact
<1>4. CASE g = h
  BY <1>1, <1>2, <1>4, NoneIsNoValue DEF PinIndexExact
<1>5. CASE g # h
  <2>1. hosts[g].pin # pin
    BY <1>3, <1>5, NoneIsNoValue DEF PinIndexExact
  <2>2. p = hosts[h].pin => pinToHost[p] = h
    BY DEF PinIndexExact
  <2> QED
    BY <1>1, <1>2, <1>5, <2>1, <2>2, NoneIsNoValue DEF PinIndexExact
<1> QED
  BY <1>4, <1>5

LEMMA IndexUnregister ==
    ASSUME TypeOK, PinIndexExact, NEW h \in Host, NEW c \in HostConn, UnregisterHost(h, c)
    PROVE  PinIndexExact'
<1>1. CASE IsCurrentHost(h, c)
  <2> SUFFICES ASSUME NEW p \in Pin, NEW g \in Host
               PROVE  (pinToHost[p] = g)' <=> (hosts[g].pin = p)'
    BY DEF PinIndexExact
  <2>1. hosts'[g].pin = IF g = h THEN None ELSE hosts[g].pin
    BY <1>1 DEF TypeOK, UnregisterHost, NoHost
  <2>2. pinToHost'[p] = IF p = hosts[h].pin THEN None ELSE pinToHost[p]
    BY <1>1 DEF TypeOK, UnregisterHost
  <2>3. p = hosts[h].pin <=> pinToHost[p] = h
    BY DEF PinIndexExact
  <2> QED
    BY <2>1, <2>2, <2>3, NoneIsNoValue DEF PinIndexExact
<1>2. CASE ~IsCurrentHost(h, c)
  BY <1>2, IndexKept DEF UnregisterHost, regVars
<1> QED
  BY <1>1, <1>2

LEMMA IndexRotatePin ==
    ASSUME TypeOK, PinIndexExact, NEW h \in Host, hosts[h] \in HostEntry,
           NEW pin \in Pin, RotatePin(h, pin)
    PROVE  PinIndexExact'
<1> SUFFICES ASSUME NEW p \in Pin, NEW g \in Host
             PROVE  (pinToHost[p] = g)' <=> (hosts[g].pin = p)'
  BY DEF PinIndexExact
<1>1. hosts' = [hosts EXCEPT ![h] = [hosts[h] EXCEPT !.pin = pin, !.expired = FALSE]]
  BY DEF RotatePin, TypeOK
<1>2. hosts'[g].pin = IF g = h THEN pin ELSE hosts[g].pin
  BY <1>1 DEF TypeOK, HostEntry
<1>3. pinToHost'[p] = IF p = pin THEN h
                      ELSE IF p = hosts[h].pin THEN None ELSE pinToHost[p]
  BY DEF TypeOK, RotatePin
<1>4. p = hosts[h].pin <=> pinToHost[p] = h
  BY DEF PinIndexExact
<1>5. hosts[g].pin # pin
  BY NoneIsNoValue DEF PinIndexExact, RotatePin
<1> QED
  BY <1>2, <1>3, <1>4, <1>5, NoneIsNoValue DEF PinIndexExact

LEMMA IndexRotateExpired ==
    ASSUME TypeOK, PinIndexExact, NEW new \in [Expired -> Pin], RotateExpiredPins(new)
    PROVE  PinIndexExact'
<1> SUFFICES ASSUME NEW p \in Pin, NEW g \in Host
             PROVE  (pinToHost[p] = g)' <=> (hosts[g].pin = p)'
  BY DEF PinIndexExact
<1>1. hosts'[g].pin = IF g \in Expired THEN new[g] ELSE hosts[g].pin
  <2>1. hosts'[g] = IF g \in Expired
                    THEN [hosts[g] EXCEPT !.pin = new[g], !.expired = FALSE]
                    ELSE hosts[g]
    BY DEF RotateExpiredPins
  <2> QED
    BY <2>1, ExpiredEntries DEF HostEntry
<1>2. CASE \E h \in Expired : new[h] = p
  <2>1. PICK h \in Expired : h = (CHOOSE k \in Expired : new[k] = p) /\ new[h] = p
    BY <1>2
  <2>2. pinToHost'[p] = h
    BY <1>2, <2>1 DEF RotateExpiredPins
  <2>3. CASE g \in Expired
    BY <1>1, <2>1, <2>2, <2>3 DEF RotateExpiredPins
  <2>4. CASE g \notin Expired
    <3>1. pinToHost[p] \in Expired \cup {None}
      BY <2>1 DEF RotateExpiredPins
    <3>2. hosts[g].pin # p
      BY <2>4, <3>1, NoneIsNoValue DEF PinIndexExact
    <3> QED
      BY <1>1, <2>1, <2>2, <2>4, <3>2
  <2> QED
    BY <2>3, <2>4
<1>3. CASE ~\E h \in Expired : new[h] = p
  <2>1. pinToHost'[p] = IF pinToHost[p] \in Expired THEN None ELSE pinToHost[p]
    BY <1>3 DEF RotateExpiredPins
  <2> QED
    BY <1>1, <1>3, <2>1, NoneIsNoValue DEF PinIndexExact
<1> QED
  BY <1>2, <1>3

LEMMA IndexStep == TypeOK /\ PinIndexExact /\ [RegNext]_regVars => PinIndexExact'
<1> SUFFICES ASSUME TypeOK, PinIndexExact, [RegNext]_regVars
             PROVE  PinIndexExact'
  OBVIOUS
<1>1. ASSUME NEW c \in HostConn, HostCalls(c)
      PROVE  PinIndexExact'
  <2>1. ASSUME NEW h \in Host, NEW s \in Sid, CloseByHost(h, s)
        PROVE  PinIndexExact'
    BY <2>1, IndexKept DEF TypeOK, CloseByHost, HostEntry, NoHost
  <2> QED
    BY <1>1, <2>1, IndexRegister, IndexUnregister DEF HostCalls
<1>2. ASSUME NEW h \in Host, NEW c \in Client, NEW s \in Sid, Enter(h, c, s)
      PROVE  PinIndexExact'
  BY <1>2, IndexKept DEF TypeOK, Enter, HostEntry, NoHost
<1>3. ASSUME NEW c \in Client, JoinSteps(c)
      PROVE  PinIndexExact'
  <2>0. ASSUME UNCHANGED <<hosts, pinToHost>> PROVE PinIndexExact'
    BY <2>0, IndexKept
  <2>1. ASSUME NEW s \in Sid, JoinEnter(c, s)
        PROVE  PinIndexExact'
    <3>1. joining[c].host \in Host
      BY <2>1 DEF TypeOK, JoinEnter, JoinLocals, NotJoining
    <3> QED
      BY <1>2, <2>1, <3>1 DEF JoinEnter
  <2>2. ASSUME NEW pin \in Pin, JoinRotate(c, pin)
        PROVE  PinIndexExact'
    <3>1. CASE RotatesOnJoin(c)
      <4>1. joining[c].host \in Host
        BY <2>2 DEF TypeOK, JoinRotate, JoinLocals, NotJoining
      <4>2. hosts[joining[c].host] \in HostEntry
        BY <3>1, <4>1 DEF TypeOK, RotatesOnJoin, NoHost
      <4> QED
        BY <2>2, <3>1, <4>1, <4>2, IndexRotatePin DEF JoinRotate
    <3>2. CASE ~RotatesOnJoin(c)
      BY <2>0, <2>2, <3>2 DEF JoinRotate
    <3> QED
      BY <3>1, <3>2
  <2> QED
    BY <1>3, <2>0, <2>1, <2>2 DEF JoinSteps, JoinResolve, JoinRefused
<1>4. ASSUME NEW S, EndSessions(S)
      PROVE  PinIndexExact'
  <2>1. ASSUME NEW h \in Host
        PROVE  hosts'[h].pin = hosts[h].pin
    <3>1. hosts'[h] = hosts[h] \/ (Online(h) /\ hosts'[h] = [hosts[h] EXCEPT !.sid = None])
      BY <1>4 DEF EndSessions
    <3> QED
      BY <3>1, Entries DEF HostEntry
  <2> QED
    BY <1>4, <2>1, IndexKept DEF EndSessions
<1>5. ASSUME NEW c \in Client, ClientCalls(c)
      PROVE  PinIndexExact'
  BY <1>2, <1>4, <1>5 DEF ClientCalls, JoinByHostId, CloseByClient, DisconnectClient
<1>6. CASE PinUpkeep
  <2>1. ASSUME NEW h \in Host, PinExpires(h)
        PROVE  PinIndexExact'
    BY <2>1, IndexKept DEF TypeOK, PinExpires, HostEntry, NoHost
  <2> QED
    BY <1>6, <2>1, IndexRotateExpired DEF PinUpkeep
<1>7. CASE UNCHANGED regVars
  BY <1>7, IndexKept DEF regVars
<1> QED
  BY <1>1, <1>3, <1>5, <1>6, <1>7 DEF RegNext

(* The PIN index and the hosts' PINs are inverse to each other: a PIN that  *)
(* was replaced -- by a join, by its TTL or by a re-registration -- leads   *)
(* nowhere, and the PIN of an online host is known.                         *)
THEOREM PinIndex == RegSpec => []PinIndexExact
<1>1. RegInit => PinIndexExact
  BY NoneIsNoValue DEF RegInit, PinIndexExact, NoHost
<1>2. TypeOK /\ PinIndexExact /\ [RegNext]_regVars => PinIndexExact'
  BY IndexStep
<1> QED
  BY <1>1, <1>2, TypeCorrect, PTL DEF RegSpec

-----------------------------------------------------------------------------
(* The inductive invariant: SessionBacked, OneSessionPerClient and          *)
(* PinIndexExact each carry over a step given TypeOK alone; the action      *)
(* properties below need them together.                                     *)
RegInv == TypeOK /\ SessionBacked /\ OneSessionPerClient /\ PinIndexExact

LEMMA RegInvariant == RegSpec => []RegInv
<1> QED
  BY TypeCorrect, SessionsBacked, OneSession, PinIndex, PTL DEF RegInv

(* By SessionBacked the ended session was its host's own; each way of       *)
(* ending it overwrites or clears that host's session id.                   *)
LEMMA GhostFreeStep == RegInv /\ [RegNext]_regVars => EndedSessionFreesHost
<1> SUFFICES ASSUME RegInv, [RegNext]_regVars, NEW s \in Sid, Live(s), ~Live(s)'
             PROVE  hosts'[sessions[s].host].sid # s
  BY DEF EndedSessionFreesHost
<1> DEFINE g == sessions[s].host
<1>0. /\ g \in Host /\ sessions[s] \in SessionEntry /\ s # None
      /\ hosts[g].sid = s /\ Online(g)
  BY Entries, NoneIsNoValue DEF RegInv, SessionBacked, SessionEntry
<1>1. ASSUME NEW c \in HostConn, HostCalls(c)
      PROVE  hosts'[g].sid # s
  <2>1. ASSUME NEW h \in Host, NEW claimed \in Sid \cup {None}, NEW rotates \in BOOLEAN,
               NEW pin \in Pin, RegisterHost(h, c, claimed, rotates, pin)
        PROVE  hosts'[g].sid # s
    <3>1. CASE Owns(h, claimed)
      <4>1. sessions' = [sessions EXCEPT ![claimed].hostTx = c]
        BY <2>1, <3>1 DEF RegisterHost
      <4> QED
        BY <1>0, <4>1 DEF RegInv, TypeOK, Live, SessionEntry
    <3>2. CASE ~Owns(h, claimed)
      <4>1. s = hosts[h].sid /\ g = h
        BY <2>1, <3>2 DEF RegisterHost, Without, Owns, Live
      <4>2. claimed # s
        BY <3>2, <4>1 DEF Owns
      <4> QED
        BY <2>1, <4>1, <4>2 DEF RegisterHost, RegInv, TypeOK
    <3> QED
      BY <3>1, <3>2
  <2>2. ASSUME NEW h \in Host, UnregisterHost(h, c)
        PROVE  hosts'[g].sid # s
    <3>1. IsCurrentHost(h, c) /\ g = h
      BY <2>2 DEF UnregisterHost, Without, Owns, Live, regVars
    <3> QED
      BY <1>0, <2>2, <3>1 DEF UnregisterHost, RegInv, TypeOK, NoHost
  <2>3. ASSUME NEW h \in Host, NEW t \in Sid, CloseByHost(h, t)
        PROVE  hosts'[g].sid # s
    <3>1. g = h
      BY <2>3 DEF CloseByHost, Without, Owns, Live
    <3> QED
      BY <1>0, <2>3, <3>1, Entries DEF CloseByHost, RegInv, TypeOK, HostEntry
  <2> QED
    BY <1>1, <2>1, <2>2, <2>3 DEF HostCalls
<1>2. ASSUME NEW h \in Host, NEW c \in Client, NEW t \in Sid, Enter(h, c, t)
      PROVE  FALSE
  BY <1>0, <1>2, NoneIsNoValue DEF Enter, RegInv, TypeOK, Live
<1>3. ASSUME NEW c \in Client, JoinSteps(c)
      PROVE  hosts'[g].sid # s
  <2>1. ASSUME NEW t \in Sid, JoinEnter(c, t)
        PROVE  FALSE
    <3>1. joining[c].host \in Host
      BY <2>1 DEF RegInv, TypeOK, JoinEnter, JoinLocals, NotJoining
    <3> QED
      BY <1>2, <2>1, <3>1 DEF JoinEnter
  <2> QED
    BY <1>3, <2>1 DEF JoinSteps, JoinResolve, JoinRefused, JoinRotate, Live
<1>4. ASSUME NEW S \in SUBSET Sid, EndSessions(S)
      PROVE  hosts'[g].sid # s
  <2>1. s \in S
    BY <1>4 DEF EndSessions, Without, Live
  <2>2. hosts'[g] = [hosts[g] EXCEPT !.sid = None]
    BY <1>0, <1>4, <2>1 DEF EndSessions
  <2> QED
    BY <1>0, <2>2, Entries DEF RegInv, HostEntry
<1>5. ASSUME NEW c \in Client, ClientCalls(c)
      PROVE  hosts'[g].sid # s
  BY <1>2, <1>4, <1>5 DEF ClientCalls, JoinByHostId, CloseByClient, DisconnectClient
<1>6. CASE PinUpkeep
  BY <1>6 DEF PinUpkeep, PinExpires, RotateExpiredPins, Live
<1>7. CASE UNCHANGED regVars
  BY <1>7 DEF regVars, Live
<1> QED
  BY <1>1, <1>3, <1>5, <1>6, <1>7 DEF RegNext

(* However a session ends, its host is not left busy with it.               *)
THEOREM GhostFree == RegSpec => NoGhostBusy
<1>1. RegInv /\ [RegNext]_regVars => [EndedSessionFreesHost]_regVars
  BY GhostFreeStep
<1> QED
  BY <1>1, RegInvariant, PTL DEF RegSpec, NoGhostBusy

-----------------------------------------------------------------------------
(* Registry implements Occupancy.                                           *)

(* A host whose entry and whose session's client stay as they are looks the *)
(* same to Occupancy.                                                       *)
LEMMA SameOccupancy ==
    ASSUME NEW g \in Host,
           hosts'[g].tx = hosts[g].tx, hosts'[g].sid = hosts[g].sid,
           \A s \in Sid : Owns(g, s)' <=> Owns(g, s),
           \A s \in Sid : Owns(g, s) => sessions'[s].client = sessions[s].client
    PROVE  StatusOf(g)' = StatusOf(g) /\ HolderOf(g)' = HolderOf(g)
<1>1. Online(g)' <=> Online(g)
  BY DEF Online
<1>2. Owns(g, hosts[g].sid)' <=> Owns(g, hosts[g].sid)
  BY DEF Owns
<1>3. Owns(g, hosts[g].sid) => hosts[g].sid \in Sid
  BY DEF Owns
<1> QED
  BY <1>1, <1>2, <1>3 DEF StatusOf, HolderOf

LEMMA BecomesOne ==
    ASSUME NEW h \in Host, NEW st, NEW who,
           StatusOf(h)' = st, HolderOf(h)' = who,
           \A g \in Host : g # h => StatusOf(g)' = StatusOf(g) /\ HolderOf(g)' = HolderOf(g)
    PROVE  Occ!Becomes(h, st, who)
BY DEF Occ!Becomes

LEMMA OccStutter ==
    ASSUME \A g \in Host : StatusOf(g)' = StatusOf(g) /\ HolderOf(g)' = HolderOf(g)
    PROVE  UNCHANGED Occ!occVars
BY DEF Occ!occVars

(* Dropping sessions that h owns disturbs no other host.                    *)
LEMMA OthersKeepTheirs ==
    ASSUME TypeOK, NEW h \in Host, NEW g \in Host, g # h,
           NEW S, \A s \in S : Owns(h, s),
           sessions' = Without(S), hosts'[g] = hosts[g]
    PROVE  StatusOf(g)' = StatusOf(g) /\ HolderOf(g)' = HolderOf(g)
<1>1. ASSUME NEW s \in Sid
      PROVE  /\ Owns(g, s)' <=> Owns(g, s)
             /\ Owns(g, s) => sessions'[s].client = sessions[s].client
  BY <1>1, NoneIsNoValue DEF Owns, Without, NoSession
<1> QED
  BY <1>1, SameOccupancy

LEMMA OccRegister ==
    ASSUME RegInv, NEW h \in Host, NEW c \in HostConn, NEW claimed \in Sid \cup {None},
           NEW rotates \in BOOLEAN, NEW pin \in Pin,
           RegisterHost(h, c, claimed, rotates, pin)
    PROVE  Occ!OccNext \/ UNCHANGED Occ!occVars
<1>1. /\ hosts'[h].tx = c /\ hosts'[h].sid = claimed /\ c # None
      /\ \A g \in Host : g # h => hosts'[g] = hosts[g]
  BY NoneIsNoValue DEF RegInv, TypeOK, RegisterHost
<1>2. CASE Owns(h, claimed)
  <2>1. sessions' = [sessions EXCEPT ![claimed].hostTx = c] /\ claimed \in Sid
    BY <1>2 DEF RegisterHost, Owns
  <2>2. hosts[h].sid = claimed /\ Online(h)
    BY <1>2, NoneIsNoValue DEF RegInv, SessionBacked, Owns, Live
  <2>3. \A s \in Sid : /\ sessions'[s].host = sessions[s].host
                       /\ sessions'[s].client = sessions[s].client
    BY <2>1 DEF RegInv, TypeOK, SessionEntry, NoSession
  <2>4. \A g \in Host, s \in Sid : Owns(g, s)' <=> Owns(g, s)
    BY <2>3 DEF Owns
  <2>5. StatusOf(h) = "held" /\ StatusOf(h)' = "held"
    BY <1>1, <1>2, <2>1, <2>2, <2>4, NoneIsNoValue DEF StatusOf, Online
  <2>6. HolderOf(h)' = HolderOf(h)
    BY <1>1, <1>2, <2>1, <2>2, <2>3, <2>4 DEF HolderOf, Online
  <2>7. ASSUME NEW g \in Host, g # h
        PROVE  StatusOf(g)' = StatusOf(g) /\ HolderOf(g)' = HolderOf(g)
    BY <1>1, <2>3, <2>4, <2>7, SameOccupancy
  <2> QED
    BY <2>5, <2>6, <2>7, OccStutter
<1>3. CASE ~Owns(h, claimed)
  <2> DEFINE lost == {s \in Sid : s = hosts[h].sid /\ Owns(h, s)}
  <2>1. sessions' = Without(lost)
    BY <1>3 DEF RegisterHost
  <2>2. ~Owns(h, claimed)'
    BY <1>3, <2>1, NoneIsNoValue DEF Owns, Without, NoSession
  <2>3. HolderOf(h)' = None
    BY <1>1, <2>2 DEF HolderOf
  <2>4. StatusOf(h)' \in {"free", "detached"}
    BY <1>1, <2>2 DEF StatusOf, Online
  <2>5. ASSUME NEW g \in Host, g # h
        PROVE  StatusOf(g)' = StatusOf(g) /\ HolderOf(g)' = HolderOf(g)
    BY <1>1, <2>1, <2>5, OthersKeepTheirs DEF RegInv
  <2>6. PICK st \in {"free", "detached"} : StatusOf(h)' = st
    BY <2>4
  <2>7. Occ!Becomes(h, st, None)
    BY <2>3, <2>5, <2>6, BecomesOne
  <2> QED
    BY <2>7 DEF Occ!OccNext, Occ!ComesOnline
<1> QED
  BY <1>2, <1>3

LEMMA OccUnregister ==
    ASSUME RegInv, NEW h \in Host, NEW c \in HostConn, UnregisterHost(h, c)
    PROVE  Occ!OccNext \/ UNCHANGED Occ!occVars
<1>1. CASE IsCurrentHost(h, c)
  <2>1. hosts' = [hosts EXCEPT ![h] = NoHost]
    BY <1>1 DEF UnregisterHost
  <2>2. ~Online(h)'
    BY <2>1 DEF RegInv, TypeOK, Online, NoHost
  <2>3. StatusOf(h)' = "offline" /\ HolderOf(h)' = None
    BY <2>2 DEF StatusOf, HolderOf
  <2>4. StatusOf(h) # "offline"
    BY <1>1, NoneIsNoValue DEF StatusOf, Online, IsCurrentHost
  <2>5. ASSUME NEW g \in Host, g # h
        PROVE  StatusOf(g)' = StatusOf(g) /\ HolderOf(g)' = HolderOf(g)
    <3>1. sessions' = Without({s \in Sid : s = hosts[h].sid /\ Owns(h, s)})
      BY <1>1 DEF UnregisterHost
    <3>2. hosts'[g] = hosts[g]
      BY <2>1, <2>5 DEF RegInv, TypeOK
    <3> QED
      BY <2>5, <3>1, <3>2, OthersKeepTheirs DEF RegInv
  <2>6. Occ!Becomes(h, "offline", None)
    BY <2>3, <2>5, BecomesOne
  <2> QED
    BY <2>4, <2>6 DEF Occ!OccNext, Occ!GoesOffline
<1>2. CASE ~IsCurrentHost(h, c)
  <2>1. UNCHANGED <<hosts, sessions>>
    BY <1>2 DEF UnregisterHost, regVars
  <2> QED
    BY <2>1 DEF Occ!occVars, StatusOf, HolderOf, Online, Owns
<1> QED
  BY <1>1, <1>2

LEMMA OccEnter ==
    ASSUME RegInv, NEW h \in Host, NEW c \in Client, NEW s \in Sid, Enter(h, c, s)
    PROVE  Occ!OccNext
<1>1. hosts[h] \in HostEntry /\ hosts[h].sid = None /\ Online(h)
  BY TypeEnter DEF RegInv, Enter, CanEnter
<1>2. /\ hosts'[h] = [hosts[h] EXCEPT !.sid = s]
      /\ \A g \in Host : g # h => hosts'[g] = hosts[g]
      /\ sessions'[s] = [host |-> h, hostTx |-> hosts[h].tx, client |-> c]
      /\ \A t \in Sid : t # s => sessions'[t] = sessions[t]
  BY DEF RegInv, TypeOK, Enter
<1>3. Owns(h, s)' /\ hosts'[h].sid = s /\ Online(h)' /\ s # None
  BY <1>1, <1>2, NoneIsNoValue DEF Owns, HostEntry, Online
<1>4. StatusOf(h)' = "held" /\ HolderOf(h)' = c
  BY <1>2, <1>3 DEF StatusOf, HolderOf
<1>5. StatusOf(h) = "free"
  BY <1>1 DEF StatusOf
<1>6. ASSUME NEW g \in Host, g # h
      PROVE  StatusOf(g)' = StatusOf(g) /\ HolderOf(g)' = HolderOf(g)
  <2>1. ASSUME NEW t \in Sid
        PROVE  /\ Owns(g, t)' <=> Owns(g, t)
               /\ Owns(g, t) => sessions'[t].client = sessions[t].client
    BY <1>2, <1>6, <2>1, NoneIsNoValue DEF Owns, Enter, Live
  <2> QED
    BY <1>2, <1>6, <2>1, SameOccupancy
<1>7. ASSUME NEW g \in Host
      PROVE  HolderOf(g) # c
  BY NoneIsNoValue DEF HolderOf, Owns, Enter, CanEnter, InSession
<1>8. Occ!Becomes(h, "held", c)
  BY <1>4, <1>6, BecomesOne
<1> QED
  BY <1>5, <1>7, <1>8 DEF Occ!OccNext, Occ!Occupies

LEMMA OccCloseByHost ==
    ASSUME RegInv, NEW h \in Host, NEW s \in Sid, CloseByHost(h, s)
    PROVE  Occ!OccNext
<1>1. hosts[h] \in HostEntry
  BY NoneIsNoValue DEF RegInv, TypeOK, CloseByHost, NoHost
<1>2. Online(h) /\ hosts[h].sid # None
  BY <1>1, NoneIsNoValue DEF CloseByHost, HostEntry, Online
<1>3. hosts'[h].tx = hosts[h].tx /\ hosts'[h].sid = None
  BY <1>1 DEF RegInv, TypeOK, CloseByHost, HostEntry
<1>4. StatusOf(h)' = "free" /\ HolderOf(h)' = None
  BY <1>2, <1>3, NoneIsNoValue DEF StatusOf, HolderOf, Online, Owns
<1>5. StatusOf(h) \in {"held", "detached"}
  BY <1>2 DEF StatusOf
<1>6. ASSUME NEW g \in Host, g # h
      PROVE  StatusOf(g)' = StatusOf(g) /\ HolderOf(g)' = HolderOf(g)
  <2>1. hosts'[g] = hosts[g]
    BY <1>6 DEF RegInv, TypeOK, CloseByHost
  <2>2. sessions' = Without({t \in {s} : Owns(h, t)})
    BY DEF CloseByHost
  <2> QED
    BY <1>6, <2>1, <2>2, OthersKeepTheirs DEF RegInv
<1>7. Occ!Becomes(h, "free", None)
  BY <1>4, <1>6, BecomesOne
<1> QED
  BY <1>5, <1>7 DEF Occ!OccNext, Occ!Leaves

(* A client ends no session or, by OneSessionPerClient, exactly one.        *)
LEMMA OccEndSessions ==
    ASSUME RegInv, NEW c \in Client, NEW S \in SUBSET Sid,
           \A s \in S : sessions[s].client = c, EndSessions(S)
    PROVE  Occ!OccNext \/ UNCHANGED Occ!occVars
<1>1. CASE S = {}
  <2>1. hosts' = hosts /\ sessions' = sessions
    BY <1>1 DEF RegInv, TypeOK, EndSessions, Without
  <2> QED
    BY <2>1 DEF Occ!occVars, StatusOf, HolderOf, Online, Owns
<1>2. CASE S # {}
  <2>1. PICK s \in S : TRUE
    BY <1>2
  <2>2. PICK h \in Host : h = sessions[s].host /\ Live(s)
    BY <2>1, Entries, NoneIsNoValue DEF RegInv, NoSession, SessionEntry
  <2>3. S = {s}
    BY <2>1, <2>2 DEF RegInv, OneSessionPerClient
  <2>4. Online(h) /\ hosts[h].sid = s /\ hosts[h] \in HostEntry
    BY <2>1, <2>2, Entries DEF RegInv, SessionBacked
  <2>5. hosts'[h] = [hosts[h] EXCEPT !.sid = None]
    BY <2>2, <2>3, <2>4 DEF EndSessions
  <2>6. hosts'[h].tx = hosts[h].tx /\ hosts'[h].sid = None
    BY <2>4, <2>5 DEF HostEntry
  <2>7. StatusOf(h)' = "free" /\ HolderOf(h)' = None
    BY <2>4, <2>6, NoneIsNoValue DEF StatusOf, HolderOf, Online, Owns
  <2>8. StatusOf(h) = "held"
    BY <2>1, <2>2, <2>4, NoneIsNoValue DEF StatusOf, Owns
  <2>9. ASSUME NEW g \in Host, g # h
        PROVE  StatusOf(g)' = StatusOf(g) /\ HolderOf(g)' = HolderOf(g)
    <3>1. hosts'[g] = hosts[g]
      BY <2>2, <2>3, <2>9 DEF EndSessions
    <3>2. sessions' = Without(S) /\ \A t \in S : Owns(h, t)
      BY <2>1, <2>2, <2>3 DEF EndSessions, Owns
    <3> QED
      BY <2>9, <3>1, <3>2, OthersKeepTheirs DEF RegInv
  <2>10. Occ!Becomes(h, "free", None)
    BY <2>7, <2>9, BecomesOne
  <2> QED
    BY <2>8, <2>10 DEF Occ!OccNext, Occ!Leaves
<1> QED
  BY <1>1, <1>2

LEMMA OccPins ==
    ASSUME UNCHANGED sessions,
           \A h \in Host : hosts'[h].tx = hosts[h].tx /\ hosts'[h].sid = hosts[h].sid
    PROVE  UNCHANGED Occ!occVars
BY SameOccupancy, OccStutter DEF Owns

LEMMA OccStep == RegInv /\ [RegNext]_regVars => [Occ!OccNext]_Occ!occVars
<1> SUFFICES ASSUME RegInv, [RegNext]_regVars
             PROVE  Occ!OccNext \/ UNCHANGED Occ!occVars
  OBVIOUS
<1>0. TypeOK
  BY DEF RegInv
<1>1. CASE \E c \in HostConn : HostCalls(c)
  BY <1>1, OccRegister, OccUnregister, OccCloseByHost DEF HostCalls
<1>2. ASSUME NEW c \in Client, JoinSteps(c)
      PROVE  Occ!OccNext \/ UNCHANGED Occ!occVars
  <2>1. ASSUME NEW s \in Sid, JoinEnter(c, s)
        PROVE  Occ!OccNext
    <3>1. joining[c].host \in Host
      BY <1>0, <2>1 DEF TypeOK, JoinEnter, JoinLocals, NotJoining
    <3> QED
      BY <2>1, <3>1, OccEnter DEF JoinEnter
  <2>2. ASSUME NEW pin \in Pin, JoinRotate(c, pin)
        PROVE  UNCHANGED Occ!occVars
    BY <1>0, <2>2, OccPins, PinActionsKeepHosts
  <2> QED
    BY <1>2, <2>1, <2>2, OccPins DEF JoinSteps, JoinResolve, JoinRefused
<1>3. ASSUME NEW c \in Client, ClientCalls(c)
      PROVE  Occ!OccNext \/ UNCHANGED Occ!occVars
  <2>1. ASSUME NEW s \in Sid, CloseByClient(s, c)
        PROVE  Occ!OccNext \/ UNCHANGED Occ!occVars
    BY <2>1, OccEndSessions DEF CloseByClient
  <2>2. ASSUME DisconnectClient(c)
        PROVE  Occ!OccNext \/ UNCHANGED Occ!occVars
    BY <2>2, OccEndSessions DEF DisconnectClient
  <2> QED
    BY <1>3, <2>1, <2>2, OccEnter DEF ClientCalls, JoinByHostId
<1>4. CASE PinUpkeep
  BY <1>0, <1>4, OccPins, PinActionsKeepHosts
<1>5. CASE UNCHANGED regVars
  BY <1>5, OccPins DEF regVars
<1> QED
  BY <1>1, <1>2, <1>3, <1>4, <1>5 DEF RegNext

LEMMA OccInitial == RegInit => Occ!OccInit
BY DEF RegInit, Occ!OccInit, StatusOf, HolderOf, Online, NoHost

(* The registry, with its PINs, connections and session ids, implements the *)
(* plain account of which host is offline, free, held or detached.          *)
THEOREM Refinement == RegSpec => RefinesOccupancy
<1>1. RegInv /\ [RegNext]_regVars => [Occ!OccNext]_Occ!occVars
  BY OccStep
<1> QED
  BY <1>1, OccInitial, RegInvariant, PTL DEF RegSpec, RefinesOccupancy, Occ!OccSpec
=============================================================================
