--------------------------- MODULE AccountsProofs ---------------------------
(***************************************************************************)
(* What the database's rows and the connections that change them keep to,  *)
(* for any number of owners, tokens, accounts and connections, however the *)
(* handlers that wait for argon2 interleave with the others.               *)
(***************************************************************************)
EXTENDS Accounts, TLAPS

OwnerOrNone == Owner \cup {None}
TokenOrNone == Token \cup {None}
Account == [email : Email, hash : Password]

RowsTyped ==
    /\ owners \subseteq Owner
    /\ tokenOf \in [Token -> OwnerOrNone]
    /\ account \in [Owner -> Account \cup {NoAccount}]
    /\ links \in [Owner -> SUBSET Device]
    /\ wakeOf \in [WakeRow -> OwnerOrNone]

Call == [at : {"reading", "queued", "hashing", "hashed", "set", "dropped"},
         kind : {"none", "register", "reset", "login", "change"},
         owner : OwnerOrNone, hash : Password \cup {None}, guess : Password \cup {None},
         email : Email \cup {None}, purpose : Purpose]

ConnsTyped ==
    /\ session \in [Conn -> TokenOrNone]
    /\ signedIn \in [Conn -> TokenOrNone]
    /\ lost \in [Conn -> BOOLEAN]
    /\ call \in [Conn -> Call]

(* What a handler that waits remembers of the rows it read.  The owner of   *)
(* an account keeps it: nothing deletes an account.                         *)
CallKnows(k) ==
    /\ k.kind \in {"register", "reset", "change"} => k.email \in Email /\ k.guess \in Password
    /\ k.kind = "register" => k.owner \in Owner /\ k.purpose # "reset"
    /\ k.kind = "reset" => k.purpose # "register"
    /\ k.kind \in {"reset", "change"} => k.owner \in Owner /\ account[k.owner] # NoAccount
    /\ k.at \in {"set", "dropped"} => k.kind = "reset"

CallsKnow == \A c \in Conn : CallKnows(call[c])

(* A client that signed in and has not left has a session, or is told.      *)
LossNoticed == \A c \in Conn : signedIn[c] # None => session[c] # None \/ lost[c]

AccInv == RowsTyped /\ ConnsTyped /\ CallsKnow /\ LossNoticed

USE AccountsAssumption DEF AccountsAssumption
-----------------------------------------------------------------------------
LEMMA CurrentOwnerTyped ==
    ASSUME RowsTyped, ConnsTyped, NEW c \in Conn
    PROVE  /\ CurrentOwner(c) \in OwnerOrNone
           /\ CurrentOwner(c) # None => session[c] \in Token /\ CurrentOwner(c) \in Owner
BY DEF RowsTyped, ConnsTyped, CurrentOwner, OwnerOrNone, TokenOrNone

(* A handler of c ends with session s, and what LossNoticed says of c stays *)
(* true.                                                                    *)
Ends(c, s) ==
    /\ session' = [session EXCEPT ![c] = s]
    /\ call' = [call EXCEPT ![c] = Idle]
    /\ lost' \in [Conn -> BOOLEAN] /\ signedIn' \in [Conn -> TokenOrNone]
    /\ \A d \in Conn \ {c} : lost'[d] = lost[d] /\ signedIn'[d] = signedIn[d]
    /\ \/ s # None \/ signedIn'[c] = None
       \/ signedIn'[c] = signedIn[c] /\ (session[c] # None \/ lost[c] => lost'[c])

LEMMA Turning ==
    ASSUME ConnsTyped, NEW c \in Conn, NEW s \in TokenOrNone, Turns(c, s, FALSE),
           signedIn' = signedIn \/ (s # None /\ signedIn' = [signedIn EXCEPT ![c] = s])
    PROVE  Ends(c, s)
BY DEF ConnsTyped, Turns, Ends

LEMMA Leaving ==
    ASSUME ConnsTyped, NEW c \in Conn, Turns(c, None, TRUE), signedIn' = [signedIn EXCEPT ![c] = None]
    PROVE  Ends(c, None)
BY DEF ConnsTyped, Turns, Ends, TokenOrNone

LEMMA EndsNoticed ==
    ASSUME AccInv, NEW c \in Conn, NEW s \in TokenOrNone, Ends(c, s),
           \A o \in Owner : account[o] # NoAccount => account'[o] # NoAccount
    PROVE  ConnsTyped' /\ CallsKnow' /\ LossNoticed'
<1>1. Idle \in Call
  BY DEF Idle, Call, OwnerOrNone, Purpose
<1>2. ConnsTyped'
  BY <1>1 DEF AccInv, ConnsTyped, Ends
<1>3. CallsKnow'
  <2> SUFFICES ASSUME NEW d \in Conn
               PROVE  CallKnows(call[d])'
    BY DEF CallsKnow
  <2>1. CASE d = c
    <3>1. call'[d] = Idle
      BY <2>1 DEF Ends, AccInv, ConnsTyped
    <3> QED
      BY <3>1 DEF Idle, CallKnows
  <2>2. CASE d # c
    <3>1. call'[d] = call[d]
      BY <2>2 DEF Ends, AccInv, ConnsTyped
    <3>2. CallKnows(call[d])
      BY DEF AccInv, CallsKnow
    <3> QED
      BY <3>1, <3>2 DEF CallKnows
  <2> QED
    BY <2>1, <2>2
<1>4. LossNoticed'
  BY DEF AccInv, ConnsTyped, Ends, LossNoticed
<1> QED
  BY <1>2, <1>3, <1>4
-----------------------------------------------------------------------------
LEMMA EnsuredOwner ==
    ASSUME AccInv, NEW c \in Conn, NEW o \in Owner, NEW s \in Token, EnsuresOwner(c, o, s)
    PROVE  /\ owners' \subseteq Owner
           /\ tokenOf' \in [Token -> OwnerOrNone]
           /\ signedIn' \in [Conn -> TokenOrNone]
           /\ signedIn' = signedIn \/ signedIn' = [signedIn EXCEPT ![c] = s]
BY DEF AccInv, RowsTyped, ConnsTyped, EnsuresOwner, Issues, OwnerOrNone, TokenOrNone

LEMMA SwitchesTyped ==
    ASSUME AccInv, NEW c \in Conn, NEW o \in Owner, Switches(c, o)
    PROVE  AccInv'
<1> DEFINE old == CurrentOwner(c)
           merges == old \notin {None, o} /\ IsAnonymous(old)
<1>1. PICK t \in Token \ drawn :
         /\ owners' = IF merges THEN owners \ {old} ELSE owners
         /\ tokenOf' = [u \in Token |->
                          IF u = t THEN o
                          ELSE IF merges /\ tokenOf[u] = old THEN None
                          ELSE IF old # None /\ u = session[c] THEN None
                          ELSE tokenOf[u]]
         /\ links' = IF merges
                     THEN [links EXCEPT ![o] = @ \cup links[old], ![old] = {}]
                     ELSE links
         /\ wakeOf' = [w \in WakeRow |-> IF merges /\ wakeOf[w] = old THEN o ELSE wakeOf[w]]
         /\ drawn' = drawn \cup {t}
         /\ signedIn' = [signedIn EXCEPT ![c] = t]
         /\ Turns(c, t, FALSE)
         /\ UNCHANGED <<account, passkeys>>
  BY DEF Switches
<1>2. old \in OwnerOrNone /\ (merges => old \in Owner)
  BY CurrentOwnerTyped DEF AccInv, OwnerOrNone
<1> HIDE DEF merges, old
<1>3. RowsTyped'
  <2>1. owners' \subseteq Owner
    BY <1>1 DEF AccInv, RowsTyped
  <2>2. tokenOf' \in [Token -> OwnerOrNone]
    BY <1>1 DEF AccInv, RowsTyped, OwnerOrNone
  <2>3. links' \in [Owner -> SUBSET Device]
    BY <1>1, <1>2 DEF AccInv, RowsTyped
  <2>4. wakeOf' \in [WakeRow -> OwnerOrNone]
    BY <1>1 DEF AccInv, RowsTyped, OwnerOrNone
  <2> QED
    BY <1>1, <2>1, <2>2, <2>3, <2>4 DEF AccInv, RowsTyped
<1>4. t # None /\ t \in TokenOrNone
  BY <1>1 DEF TokenOrNone
<1>5. Ends(c, t)
  BY <1>1, <1>4, Turning DEF AccInv
<1>6. ConnsTyped' /\ CallsKnow' /\ LossNoticed'
  BY <1>1, <1>4, <1>5, EndsNoticed
<1> QED
  BY <1>3, <1>6 DEF AccInv
-----------------------------------------------------------------------------
(* The session, what is lost, the calls and what a client holds are the     *)
(* only variables of a connection that the invariant is about.              *)
LEMMA ForgetlessTyped ==
    ASSUME AccInv, NEW c \in Conn
    PROVE  /\ session[c] \in TokenOrNone
           /\ CurrentOwner(c) # None => session[c] \in Token /\ CurrentOwner(c) \in Owner
BY CurrentOwnerTyped DEF AccInv, ConnsTyped

LEMMA KeepingNoticed ==
    ASSUME AccInv, NEW c \in Conn, Keeps(c), signedIn' = signedIn,
           \A o \in Owner : account[o] # NoAccount => account'[o] # NoAccount
    PROVE  ConnsTyped' /\ CallsKnow' /\ LossNoticed'
<1>1. session[c] \in TokenOrNone
  BY ForgetlessTyped
<1>2. Ends(c, session[c])
  BY <1>1, Turning DEF Keeps, AccInv
<1> QED
  BY <1>1, <1>2, EndsNoticed

(* A handler that reads the rows, changes none and ends.                    *)
LEMMA ReadingKeeps ==
    ASSUME AccInv, NEW c \in Conn,
           \/ \E t \in Token : ClientAuth(c, t)
           \/ ClientAuthUnknown(c) \/ Reads(c) \/ PasskeyLoginStart(c)
    PROVE  AccInv'
<1>1. RowsTyped' /\ account' = account
  BY DEF ClientAuth, ClientAuthUnknown, Reads, PasskeyLoginStart, rows, AccInv, RowsTyped
<1>2. CASE PasskeyLoginStart(c)
  <2>1. Keeps(c) /\ signedIn' = signedIn
    BY <1>2 DEF PasskeyLoginStart
  <2> QED
    BY <1>1, <2>1, KeepingNoticed DEF AccInv
<1>3. ASSUME NEW s \in TokenOrNone, Ends(c, s)
      PROVE  AccInv'
  BY <1>1, <1>3, EndsNoticed DEF AccInv
<1>4. ASSUME NEW t \in Token, ClientAuth(c, t)
      PROVE  Ends(c, t) /\ t \in TokenOrNone
  <2>1. Turns(c, t, FALSE) /\ signedIn' = [signedIn EXCEPT ![c] = t] /\ t # None /\ t \in TokenOrNone
    BY <1>4 DEF ClientAuth, TokenOrNone
  <2> QED
    BY <2>1, Turning DEF AccInv
<1>5. CASE ClientAuthUnknown(c)
  <2>1. Ends(c, None) /\ None \in TokenOrNone
    BY <1>5, Leaving DEF ClientAuthUnknown, AccInv, TokenOrNone
  <2> QED
    BY <1>3, <2>1
<1>6. CASE Reads(c)
  <2> DEFINE s == IF CurrentOwner(c) = None THEN None ELSE session[c]
  <2>1. Turns(c, s, FALSE) /\ signedIn' = signedIn
    BY <1>6 DEF Reads, Answers
  <2>2. s \in TokenOrNone
    BY ForgetlessTyped DEF TokenOrNone
  <2> HIDE DEF s
  <2>3. Ends(c, s)
    BY <2>1, <2>2, Turning DEF AccInv
  <2> QED
    BY <1>3, <2>2, <2>3
<1> QED
  BY <1>2, <1>3, <1>4, <1>5, <1>6

LEMMA DeletingKeeps ==
    ASSUME AccInv, NEW c \in Conn, (\E t \in Token : RevokeBrowser(c, t)) \/ SignOut(c)
    PROVE  AccInv'
<1>1. RowsTyped' /\ account' = account
  BY DEF RevokeBrowser, SignOut, DeletesToken, AccInv, RowsTyped, OwnerOrNone
<1>2. CASE SignOut(c)
  <2>1. Ends(c, None) /\ None \in TokenOrNone
    BY <1>2, Leaving DEF SignOut, DeletesToken, AccInv, TokenOrNone
  <2> QED
    BY <1>1, <2>1, EndsNoticed DEF AccInv
<1>3. CASE \E t \in Token : RevokeBrowser(c, t)
  <2>1. Keeps(c) /\ signedIn' = signedIn
    BY <1>3 DEF RevokeBrowser, DeletesToken, Keeps
  <2> QED
    BY <1>1, <2>1, KeepingNoticed DEF AccInv
<1> QED
  BY <1>2, <1>3

LEMMA DisconnectKeeps ==
    ASSUME AccInv, NEW c \in Conn, Disconnect(c)
    PROVE  AccInv'
<1>1. RowsTyped' /\ CallsKnow'
  BY DEF Disconnect, rows, AccInv, RowsTyped, CallsKnow, CallKnows
<1>2. ConnsTyped'
  BY DEF Disconnect, AccInv, ConnsTyped, TokenOrNone
<1>3. LossNoticed'
  BY DEF Disconnect, AccInv, ConnsTyped, LossNoticed
<1> QED
  BY <1>1, <1>2, <1>3 DEF AccInv

(* The handlers that make an owner where there is none, and end.            *)
LEMMA OwningKeeps ==
    ASSUME AccInv, NEW c \in Conn,
           \/ \E d \in Device : LinkDevice(c, d)
           \/ \E w \in WakeRow : AddWakeRow(c, w)
           \/ PasskeyRegisterStart(c)
    PROVE  AccInv'
<1>1. \E o \in Owner, s \in Token : EnsuresOwner(c, o, s) /\ Turns(c, s, FALSE)
  BY DEF LinkDevice, AddWakeRow, PasskeyRegisterStart
<1>2. links' \in [Owner -> SUBSET Device] /\ wakeOf' \in [WakeRow -> OwnerOrNone] /\ account' = account
  <2>1. CASE \E d \in Device : LinkDevice(c, d)
    <3>1. PICK d \in Device, o \in Owner : links' = [links EXCEPT ![o] = links[o] \cup {d}]
      BY <2>1 DEF LinkDevice
    <3> QED
      BY <2>1, <3>1 DEF LinkDevice, AccInv, RowsTyped
  <2>2. CASE \E w \in WakeRow : AddWakeRow(c, w)
    BY <2>2 DEF AddWakeRow, AccInv, RowsTyped, OwnerOrNone
  <2>3. CASE PasskeyRegisterStart(c)
    BY <2>3 DEF PasskeyRegisterStart, AccInv, RowsTyped
  <2> QED
    BY <2>1, <2>2, <2>3
<1>3. PICK o \in Owner, s \in Token : EnsuresOwner(c, o, s) /\ Turns(c, s, FALSE)
  BY <1>1
<1>4. RowsTyped'
  BY <1>2, <1>3, EnsuredOwner DEF AccInv, RowsTyped
<1>5. s \in TokenOrNone /\ s # None
  BY DEF TokenOrNone
<1>6. Ends(c, s)
  BY <1>3, <1>5, EnsuredOwner, Turning DEF AccInv
<1> QED
  BY <1>2, <1>4, <1>5, <1>6, EndsNoticed DEF AccInv

LEMMA OwnedKeeps ==
    ASSUME AccInv, NEW c \in Conn,
           \/ \E d \in Device \cup WakeRow : ForgetDevice(c, d)
           \/ PasskeyRegisterFinish(c)
           \/ \E k \in Key : DeletePasskey(c, k)
    PROVE  AccInv'
<1>1. Keeps(c) /\ signedIn' = signedIn /\ owners' = owners /\ account' = account /\ tokenOf' = tokenOf
  BY DEF ForgetDevice, PasskeyRegisterFinish, DeletePasskey
<1>2. links' \in [Owner -> SUBSET Device] /\ wakeOf' \in [WakeRow -> OwnerOrNone]
  <2>1. ASSUME NEW d \in Device \cup WakeRow, ForgetDevice(c, d)
        PROVE  links' \in [Owner -> SUBSET Device] /\ wakeOf' \in [WakeRow -> OwnerOrNone]
    <3>1. CASE d \in WakeRow
      BY <2>1, <3>1 DEF ForgetDevice, AccInv, RowsTyped, OwnerOrNone
    <3>2. CASE d \notin WakeRow
      BY <2>1, <3>2 DEF ForgetDevice, AccInv, RowsTyped
    <3> QED
      BY <3>1, <3>2
  <2> QED
    BY <2>1 DEF PasskeyRegisterFinish, DeletePasskey, AccInv, RowsTyped
<1>3. RowsTyped'
  BY <1>1, <1>2 DEF AccInv, RowsTyped
<1>4. ConnsTyped' /\ CallsKnow' /\ LossNoticed'
  BY <1>1, KeepingNoticed
<1> QED
  BY <1>3, <1>4 DEF AccInv

LEMMA PruningKeeps ==
    ASSUME AccInv, PruneEmptyOwners
    PROVE  AccInv'
<1>1. RowsTyped'
  BY DEF PruneEmptyOwners, AccInv, RowsTyped, OwnerOrNone
<1>2. UNCHANGED <<account, conns>>
  BY DEF PruneEmptyOwners
<1> QED
  BY <1>1, <1>2 DEF conns, AccInv, ConnsTyped, CallsKnow, CallKnows, LossNoticed
-----------------------------------------------------------------------------
(* Handlers that wait for argon2 *)

(* A handler of c waits, remembering k.                                     *)
LEMMA WaitingKeeps ==
    ASSUME AccInv, NEW c \in Conn, NEW k \in Call, Waits(c, k), CallKnows(k),
           account' = account, RowsTyped',
           \/ UNCHANGED <<session, signedIn>>
           \/ \E s \in Token : /\ session' = [session EXCEPT ![c] = s]
                               /\ signedIn' = signedIn \/ signedIn' = [signedIn EXCEPT ![c] = s]
    PROVE  AccInv'
<1>1. /\ call' = [call EXCEPT ![c] = k] /\ lost' = lost
  BY DEF Waits
<1>2. ConnsTyped'
  BY <1>1 DEF AccInv, ConnsTyped, TokenOrNone
<1>3. CallsKnow'
  <2> SUFFICES ASSUME NEW d \in Conn
               PROVE  CallKnows(call[d])'
    BY DEF CallsKnow
  <2>1. CASE d = c
    <3>1. call'[d] = k
      BY <1>1, <2>1 DEF AccInv, ConnsTyped
    <3> QED
      BY <3>1 DEF CallKnows
  <2>2. CASE d # c
    <3>1. call'[d] = call[d] /\ CallKnows(call[d])
      BY <1>1, <2>2 DEF AccInv, ConnsTyped, CallsKnow
    <3> QED
      BY <3>1 DEF CallKnows
  <2> QED
    BY <2>1, <2>2
<1>4. LossNoticed'
  BY <1>1 DEF AccInv, ConnsTyped, LossNoticed
<1> QED
  BY <1>2, <1>3, <1>4 DEF AccInv

LEMMA AccountTyped ==
    ASSUME RowsTyped, NEW o \in Owner
    PROVE  /\ account[o] = NoAccount \/ account[o] \in Account
           /\ account[o] # NoAccount => account[o].email \in Email /\ account[o].hash \in Password
           /\ account[o].email \in Email => account[o] # NoAccount
           /\ account[o].hash \in Password \cup {None}
BY DEF RowsTyped, Account, NoAccount

LEMMA ConfirmKeeps ==
    ASSUME AccInv, NEW c \in Conn, NEW e \in Email, NEW p \in Password, NEW purpose \in Purpose,
           EmailCodeConfirm(c, e, p, purpose)
    PROVE  AccInv'
<1> DEFINE work(o, kind) == [Idle EXCEPT !.at = "queued", !.kind = kind, !.owner = o,
                                         !.guess = p, !.email = e, !.purpose = purpose]
<1>1. ASSUME NEW o \in Owner, NEW kind \in {"register", "reset"}
      PROVE  work(o, kind) \in Call
  BY <1>1 DEF Idle, Call, OwnerOrNone, Purpose
<1>2. CASE \E o \in AccountsOf(e) : Waits(c, work(o, "reset")) /\ UNCHANGED <<rows, session, signedIn>>
  <2>1. PICK o \in AccountsOf(e) : Waits(c, work(o, "reset")) /\ UNCHANGED <<rows, session, signedIn>>
    BY <1>2
  <2>2. o \in Owner /\ account[o] # NoAccount
    BY AccountTyped DEF AccountsOf, AccInv
  <2>3. purpose # "register"
    BY <2>1 DEF EmailCodeConfirm, ConfirmRefused
  <2>4. CallKnows(work(o, "reset"))
    BY <2>2, <2>3 DEF CallKnows, Idle
  <2>5. account' = account /\ RowsTyped' /\ UNCHANGED <<session, signedIn>>
    BY <2>1 DEF rows, AccInv, RowsTyped
  <2>6. work(o, "reset") \in Call
    BY <1>1, <2>2
  <2> HIDE DEF work
  <2> QED
    BY <2>1, <2>4, <2>5, <2>6, WaitingKeeps
<1>3. CASE /\ AccountsOf(e) = {}
           /\ \E o \in Owner, s \in Token :
                /\ EnsuresOwner(c, o, s)
                /\ Waits(c, work(o, "register"))
                /\ session' = [session EXCEPT ![c] = s]
           /\ UNCHANGED <<account, passkeys, links, wakeOf>>
  <2>1. PICK o \in Owner, s \in Token :
                /\ EnsuresOwner(c, o, s)
                /\ Waits(c, work(o, "register"))
                /\ session' = [session EXCEPT ![c] = s]
    BY <1>3
  <2>2. purpose # "reset"
    BY <1>3 DEF EmailCodeConfirm, ConfirmRefused
  <2>3. CallKnows(work(o, "register"))
    BY <2>2 DEF CallKnows, Idle
  <2>4. account' = account /\ RowsTyped'
    BY <1>3, <2>1, EnsuredOwner DEF AccInv, RowsTyped
  <2>5. signedIn' = signedIn \/ signedIn' = [signedIn EXCEPT ![c] = s]
    BY <2>1, EnsuredOwner
  <2>6. work(o, "register") \in Call
    BY <1>1
  <2> HIDE DEF work
  <2> QED
    BY <2>1, <2>3, <2>4, <2>5, <2>6, WaitingKeeps
<1> QED
  BY <1>2, <1>3 DEF EmailCodeConfirm

LEMMA AskingKeeps ==
    ASSUME AccInv, NEW c \in Conn, NEW e \in Email, NEW p \in Password,
           PasswordLogin(c, e, p) \/ EmailChange(c, e, p)
    PROVE  AccInv'
<1>1. account' = account /\ RowsTyped' /\ UNCHANGED <<session, signedIn>>
  BY DEF PasswordLogin, EmailChange, rows, AccInv, RowsTyped
<1>2. CASE PasswordLogin(c, e, p)
  <2> DEFINE o == IF AccountsOf(e) = {} THEN None ELSE CHOOSE a \in AccountsOf(e) : TRUE
             hash == IF o = None THEN None ELSE account[o].hash
             k == [Idle EXCEPT !.at = "queued", !.kind = "login", !.owner = o, !.guess = p, !.hash = hash]
  <2>1. Waits(c, k)
    BY <1>2 DEF PasswordLogin
  <2>2. o \in OwnerOrNone
    BY DEF AccountsOf, OwnerOrNone
  <2> HIDE DEF o
  <2>3. hash \in Password \cup {None}
    BY <2>2, AccountTyped DEF AccInv, OwnerOrNone
  <2> HIDE DEF hash
  <2>4. k \in Call /\ CallKnows(k)
    BY <2>2, <2>3 DEF Idle, Call, Purpose, CallKnows
  <2> HIDE DEF k
  <2> QED
    BY <1>1, <2>1, <2>4, WaitingKeeps
<1>3. CASE EmailChange(c, e, p)
  <2> DEFINE o == CurrentOwner(c)
             k == [Idle EXCEPT !.at = "queued", !.kind = "change", !.owner = o,
                               !.guess = p, !.email = e, !.hash = account[o].hash]
  <2>1. Waits(c, k) /\ o # None /\ account[o] # NoAccount
    BY <1>3 DEF EmailChange
  <2>2. o \in Owner
    BY <2>1, ForgetlessTyped
  <2> HIDE DEF o
  <2>3. account[o].hash \in Password
    BY <2>1, <2>2, AccountTyped DEF AccInv
  <2>4. k \in Call /\ CallKnows(k)
    BY <2>1, <2>2, <2>3 DEF Idle, Call, Purpose, OwnerOrNone, CallKnows
  <2> HIDE DEF k
  <2> QED
    BY <1>1, <2>1, <2>4, WaitingKeeps
<1> QED
  BY <1>2, <1>3

(* The handler of c goes on waiting, at `at`.                               *)
LEMMA GoingOnKeeps ==
    ASSUME AccInv, NEW c \in Conn, NEW at \in {"hashing", "hashed", "set", "dropped"},
           call' = [call EXCEPT ![c].at = at], at \in {"set", "dropped"} => call[c].kind = "reset",
           UNCHANGED <<session, lost, signedIn>>, RowsTyped',
           \A o \in Owner : account[o] # NoAccount => account'[o] # NoAccount
    PROVE  AccInv'
<1>1. call[c] \in Call
  BY DEF AccInv, ConnsTyped
<1>2. call'[c] = [call[c] EXCEPT !.at = at] /\ \A d \in Conn \ {c} : call'[d] = call[d]
  BY DEF AccInv, ConnsTyped
<1>3. [call[c] EXCEPT !.at = at] \in Call
  BY <1>1 DEF Call
<1>4. call' \in [Conn -> Call]
  BY <1>2, <1>3 DEF AccInv, ConnsTyped
<1>5. ConnsTyped'
  BY <1>4 DEF AccInv, ConnsTyped
<1>6. CallsKnow'
  <2> SUFFICES ASSUME NEW d \in Conn
               PROVE  CallKnows(call[d])'
    BY DEF CallsKnow
  <2>1. CallKnows(call[d])
    BY DEF AccInv, CallsKnow
  <2>2. CASE d = c
    BY <1>1, <1>2, <2>1, <2>2 DEF CallKnows, Call
  <2>3. CASE d # c
    BY <1>2, <2>1, <2>3 DEF CallKnows
  <2> QED
    BY <2>2, <2>3
<1> QED
  BY <1>5, <1>6 DEF AccInv, LossNoticed

LEMMA HashedCallKnows ==
    ASSUME AccInv, NEW c \in Conn
    PROVE  call[c] \in Call /\ CallKnows(call[c])
BY DEF AccInv, ConnsTyped, CallsKnow

LEMMA HashingKeeps ==
    ASSUME AccInv, NEW c \in Conn, HashStarts(c) \/ HashEnds(c)
    PROVE  AccInv'
<1>1. \/ call' = [call EXCEPT ![c].at = "hashing"]
      \/ call' = [call EXCEPT ![c].at = "hashed"]
  BY DEF HashStarts, HashEnds
<1>2. RowsTyped' /\ UNCHANGED <<account, session, lost, signedIn>>
  BY DEF HashStarts, HashEnds, rows, AccInv, RowsTyped
<1> QED
  BY <1>1, <1>2, GoingOnKeeps

LEMMA ResettingKeeps ==
    ASSUME AccInv, NEW c \in Conn, ResetSetsHash(c) \/ ResetDropsTokens(c)
    PROVE  AccInv'
<1>1. CASE ResetSetsHash(c)
  <2> DEFINE o == call[c].owner
  <2>1. o \in Owner /\ account[o] \in Account /\ call[c].guess \in Password /\ call[c].kind = "reset"
    BY <1>1, HashedCallKnows, AccountTyped DEF ResetSetsHash, Hashed, CallKnows, AccInv
  <2>2. account' = [account EXCEPT ![o] = [account[o] EXCEPT !.hash = call[c].guess]]
    BY <1>1, <2>1 DEF ResetSetsHash, AccInv, RowsTyped
  <2>3. [account[o] EXCEPT !.hash = call[c].guess] \in Account
    BY <2>1 DEF Account
  <2>4. NoAccount \notin Account
    BY DEF Account, NoAccount
  <2>5. account' \in [Owner -> Account \cup {NoAccount}]
    BY <2>1, <2>2, <2>3 DEF AccInv, RowsTyped
  <2>6. \A a \in Owner : account[a] # NoAccount => account'[a] # NoAccount
    BY <2>1, <2>2, <2>3, <2>4 DEF AccInv, RowsTyped
  <2>7. RowsTyped' /\ call' = [call EXCEPT ![c].at = "set"] /\ UNCHANGED <<session, lost, signedIn>>
    BY <1>1, <2>5 DEF ResetSetsHash, AccInv, RowsTyped
  <2> QED
    BY <2>1, <2>6, <2>7, GoingOnKeeps
<1>2. CASE ResetDropsTokens(c)
  <2>1. call[c].kind = "reset"
    BY <1>2, HashedCallKnows DEF ResetDropsTokens, CallKnows
  <2>2. RowsTyped' /\ account' = account /\ call' = [call EXCEPT ![c].at = "dropped"]
        /\ UNCHANGED <<session, lost, signedIn>>
    BY <1>2 DEF ResetDropsTokens, AccInv, RowsTyped, OwnerOrNone
  <2> QED
    BY <2>1, <2>2, GoingOnKeeps
<1> QED
  BY <1>1, <1>2

LEMMA HashedKeeps ==
    ASSUME AccInv, NEW c \in Conn,
           LoginEnds(c) \/ ResetEnds(c) \/ PasskeyLoginFinish(c) \/ RegisterEnds(c) \/ ChangeEnds(c)
    PROVE  AccInv'
<1>1. CASE \E o \in Owner : Switches(c, o)
  BY <1>1, SwitchesTyped
<1>2. CASE Keeps(c) /\ UNCHANGED <<rows, signedIn>>
  <2>1. RowsTyped' /\ account' = account
    BY <1>2 DEF rows, AccInv, RowsTyped
  <2> QED
    BY <1>2, <2>1, KeepingNoticed DEF AccInv
<1>3. CASE LoginEnds(c)
  <2>1. Verified(c) => call[c].owner \in Owner
    BY HashedCallKnows DEF Verified, Call, OwnerOrNone
  <2> QED
    BY <1>1, <1>2, <1>3, <2>1 DEF LoginEnds
<1>4. CASE ResetEnds(c)
  BY <1>1, <1>4, HashedCallKnows DEF ResetEnds, CallKnows
<1>5. CASE PasskeyLoginFinish(c)
  BY <1>1, <1>2, <1>5 DEF PasskeyLoginFinish
<1>6. ASSUME Keeps(c), signedIn' = signedIn, account' \in [Owner -> Account \cup {NoAccount}],
             UNCHANGED <<owners, tokenOf, links, wakeOf>>,
             \A o \in Owner : account[o] # NoAccount => account'[o] # NoAccount
      PROVE  AccInv'
  <2>1. RowsTyped'
    BY <1>6 DEF AccInv, RowsTyped
  <2> QED
    BY <1>6, <2>1, KeepingNoticed DEF AccInv
<1>7. CASE RegisterEnds(c)
  <2>1. call[c].email \in Email /\ call[c].guess \in Password
    BY <1>7, HashedCallKnows DEF RegisterEnds, Hashed, CallKnows
  <2>2. \/ account' = account
        \/ account' = [account EXCEPT ![call[c].owner] = [email |-> call[c].email, hash |-> call[c].guess]]
    BY <1>7 DEF RegisterEnds
  <2>3. [email |-> call[c].email, hash |-> call[c].guess] \in Account \ {NoAccount}
    BY <2>1 DEF Account, NoAccount
  <2>4. /\ account' \in [Owner -> Account \cup {NoAccount}]
        /\ \A o \in Owner : account[o] # NoAccount => account'[o] # NoAccount
    BY <2>2, <2>3 DEF AccInv, RowsTyped
  <2> QED
    BY <1>6, <1>7, <2>4 DEF RegisterEnds
<1>8. CASE ChangeEnds(c)
  <2> DEFINE o == call[c].owner
  <2>1. call[c].email \in Email /\ o \in Owner /\ account[o] \in Account
    BY <1>8, HashedCallKnows, AccountTyped DEF ChangeEnds, Hashed, CallKnows, AccInv
  <2>2. \/ account' = account
        \/ account' = [account EXCEPT ![o] = [account[o] EXCEPT !.email = call[c].email]]
    BY <1>8, <2>1 DEF ChangeEnds, AccInv, RowsTyped
  <2>3. [account[o] EXCEPT !.email = call[c].email] \in Account \ {NoAccount}
    BY <2>1 DEF Account, NoAccount
  <2>4. /\ account' \in [Owner -> Account \cup {NoAccount}]
        /\ \A a \in Owner : account[a] # NoAccount => account'[a] # NoAccount
    BY <2>1, <2>2, <2>3 DEF AccInv, RowsTyped
  <2> QED
    BY <1>6, <1>8, <2>4 DEF ChangeEnds
<1> QED
  BY <1>3, <1>4, <1>5, <1>7, <1>8
-----------------------------------------------------------------------------
LEMMA AccInvInitially == AccInit => AccInv
BY DEF AccInit, AccInv, RowsTyped, ConnsTyped, CallsKnow, CallKnows, LossNoticed, Idle, Call, NoAccount,
       OwnerOrNone, TokenOrNone, Purpose

LEMMA AccInvStep == AccInv /\ [AccNext]_accVars => AccInv'
<1> SUFFICES ASSUME AccInv, [AccNext]_accVars
             PROVE  AccInv'
  OBVIOUS
<1>1. ASSUME NEW c \in Conn, Messages(c)
      PROVE  AccInv'
  BY <1>1, ReadingKeeps, DeletingKeeps, DisconnectKeeps, OwningKeeps, OwnedKeeps, HashedKeeps, ConfirmKeeps, AskingKeeps
     DEF Messages
<1>2. ASSUME NEW c \in Conn, HashedCalls(c)
      PROVE  AccInv'
  BY <1>2, HashingKeeps, ResettingKeeps, HashedKeeps DEF HashedCalls
<1>3. CASE UNCHANGED accVars
  BY <1>3 DEF accVars, rows, conns, AccInv, RowsTyped, ConnsTyped, CallsKnow, CallKnows, LossNoticed
<1> QED
  BY <1>1, <1>2, <1>3, PruningKeeps DEF AccNext

LEMMA AccInvariant == AccSpec => []AccInv
BY AccInvInitially, AccInvStep, PTL DEF AccSpec

(* A client that signed in and whose token is revoked, for any number of    *)
(* connections and tokens and however its own calls wait: until it leaves   *)
(* it is never answered as a stranger, with an empty list, by owner_for_read. *)
THEOREM LossesAreTold == AccSpec => []LossIsTold
<1>1. AccInv => LossIsTold
  BY DEF AccInv, LossNoticed, LossIsTold, ReadsEmpty
<1> QED
  BY <1>1, AccInvariant, PTL
-----------------------------------------------------------------------------
(* What a device is linked to, and who has a wake row *)

LEMMA SwitchesLosesNothing ==
    ASSUME AccInv, NEW c \in Conn, NEW o \in Owner, Switches(c, o)
    PROVE  /\ \A d \in Device, a \in Owner : d \in links[a] => \E b \in Owner : d \in links'[b]
           /\ \A w \in WakeRow : wakeOf[w] # None => wakeOf'[w] # None
<1> DEFINE old == CurrentOwner(c)
           merges == old \notin {None, o} /\ IsAnonymous(old)
<1>1. /\ links' = IF merges THEN [links EXCEPT ![o] = @ \cup links[old], ![old] = {}] ELSE links
      /\ wakeOf' = [w \in WakeRow |-> IF merges /\ wakeOf[w] = old THEN o ELSE wakeOf[w]]
  BY DEF Switches
<1>2. merges => old \in Owner /\ old # o
  BY CurrentOwnerTyped DEF AccInv, OwnerOrNone
<1> HIDE DEF merges, old
<1>3. \A w \in WakeRow : wakeOf[w] # None => wakeOf'[w] # None
  BY <1>1
<1>4. ASSUME NEW d \in Device, NEW a \in Owner, d \in links[a]
      PROVE  \E b \in Owner : d \in links'[b]
  <2>1. CASE ~merges
    BY <1>1, <1>4, <2>1
  <2>2. CASE merges /\ a \in {o, old}
    <3>1. d \in links'[o]
      BY <1>1, <1>2, <1>4, <2>2 DEF AccInv, RowsTyped
    <3> QED
      BY <3>1
  <2>3. CASE merges /\ a \notin {o, old}
    <3>1. links'[a] = links[a]
      BY <1>1, <1>2, <2>3 DEF AccInv, RowsTyped
    <3> QED
      BY <1>4, <3>1
  <2> QED
    BY <2>1, <2>2, <2>3
<1> QED
  BY <1>3, <1>4

LEMMA PruningLosesNothing ==
    ASSUME AccInv, PruneEmptyOwners
    PROVE  /\ \A d \in Device, a \in Owner : d \in links[a] => \E b \in Owner : d \in links'[b]
           /\ \A w \in WakeRow : wakeOf[w] # None => wakeOf'[w] # None
<1>1. PICK idle \in SUBSET {o \in owners : Empty(o)} :
        /\ links' = [o \in Owner |-> IF o \in idle THEN {} ELSE links[o]]
        /\ wakeOf' = [w \in WakeRow |-> IF wakeOf[w] \in idle THEN None ELSE wakeOf[w]]
  BY DEF PruneEmptyOwners
<1>2. \A o \in idle : links[o] = {} /\ \A w \in WakeRow : wakeOf[w] # o
  BY DEF Empty
<1>3. \A d \in Device, a \in Owner : d \in links[a] => d \in links'[a]
  BY <1>1, <1>2
<1> QED
  BY <1>1, <1>2, <1>3

(* What the handlers do to the two tables, ForgetDevice and the above aside. *)
LEMMA TablesGrow ==
    ASSUME AccInv, [AccNext]_accVars
    PROVE  \/ \E c \in Conn, d \in Device \cup WakeRow : ForgetDevice(c, d)
           \/ \E c \in Conn, o \in Owner : Switches(c, o)
           \/ PruneEmptyOwners
           \/ UNCHANGED <<links, wakeOf>>
           \/ \E o \in Owner, d \in Device : links' = [links EXCEPT ![o] = links[o] \cup {d}] /\ wakeOf' = wakeOf
           \/ \E o \in Owner, w \in WakeRow : wakeOf' = [wakeOf EXCEPT ![w] = o] /\ links' = links
<1>1. ASSUME NEW c \in Conn, HashedCalls(c), ~ \E o \in Owner : Switches(c, o)
      PROVE  UNCHANGED <<links, wakeOf>>
  <2>1. Verified(c) => call[c].owner \in Owner
    BY HashedCallKnows DEF Verified, Call, OwnerOrNone
  <2>2. call[c].at = "dropped" => call[c].owner \in Owner
    BY HashedCallKnows DEF CallKnows
  <2> QED
    BY <1>1, <2>1, <2>2 DEF HashedCalls, HashStarts, HashEnds, LoginEnds, RegisterEnds, ChangeEnds,
       ResetSetsHash, ResetDropsTokens, ResetEnds, rows
<1>2. ASSUME NEW c \in Conn, Messages(c),
             ~ \E o \in Owner : Switches(c, o), ~ \E d \in Device \cup WakeRow : ForgetDevice(c, d),
             ~ \E d \in Device : LinkDevice(c, d), ~ \E w \in WakeRow : AddWakeRow(c, w)
      PROVE  UNCHANGED <<links, wakeOf>>
  BY <1>2 DEF Messages, ClientAuthUnknown, Reads, SignOut, Disconnect, ClientAuth, RevokeBrowser, DeletesToken,
     PasskeyRegisterStart, PasskeyRegisterFinish, PasskeyLoginStart, PasskeyLoginFinish, DeletePasskey,
     PasswordLogin, EmailChange, EmailCodeConfirm, rows
<1>3. ASSUME NEW c \in Conn, NEW d \in Device, LinkDevice(c, d)
      PROVE  \E o \in Owner : links' = [links EXCEPT ![o] = links[o] \cup {d}] /\ wakeOf' = wakeOf
  BY <1>3 DEF LinkDevice
<1>4. ASSUME NEW c \in Conn, NEW w \in WakeRow, AddWakeRow(c, w)
      PROVE  \E o \in Owner : wakeOf' = [wakeOf EXCEPT ![w] = o] /\ links' = links
  BY <1>4 DEF AddWakeRow
<1>5. CASE UNCHANGED accVars
  BY <1>5 DEF accVars, rows
<1> QED
  BY <1>1, <1>2, <1>3, <1>4, <1>5 DEF AccNext

LosesNothing ==
    /\ \A d \in Device :
         (\E o \in Owner : d \in links[o]) /\ (\A o \in Owner : d \notin links'[o])
         => \E c \in Conn : ForgetDevice(c, d)
    /\ \A w \in WakeRow :
         wakeOf[w] # None /\ wakeOf'[w] = None => \E c \in Conn : ForgetDevice(c, w)

LEMMA StepLosesNothing == AccInv /\ [AccNext]_accVars => LosesNothing
<1> SUFFICES ASSUME AccInv, [AccNext]_accVars
             PROVE  LosesNothing
  OBVIOUS
<1>1. ASSUME /\ \A d \in Device, a \in Owner : d \in links[a] => \E b \in Owner : d \in links'[b]
             /\ \A w \in WakeRow : wakeOf[w] # None => wakeOf'[w] # None
      PROVE  LosesNothing
  BY <1>1 DEF LosesNothing
<1>2. ASSUME NEW o \in Owner, NEW d \in Device, links' = [links EXCEPT ![o] = links[o] \cup {d}], wakeOf' = wakeOf
      PROVE  LosesNothing
  BY <1>1, <1>2 DEF AccInv, RowsTyped
<1>3. ASSUME NEW o \in Owner, NEW w \in WakeRow, wakeOf' = [wakeOf EXCEPT ![w] = o], links' = links
      PROVE  LosesNothing
  <2>1. \A v \in WakeRow : wakeOf[v] # None => wakeOf'[v] # None
    BY <1>3 DEF AccInv, RowsTyped
  <2> QED
    BY <1>1, <1>3, <2>1
<1>4. ASSUME NEW c \in Conn, NEW d \in Device \cup WakeRow, ForgetDevice(c, d)
      PROVE  LosesNothing
  <2>1. CASE d \in WakeRow
    <3>1. links' = links /\ wakeOf' = [wakeOf EXCEPT ![d] = None]
      BY <1>4, <2>1 DEF ForgetDevice
    <3>2. \A w \in WakeRow : wakeOf[w] # None /\ wakeOf'[w] = None => w = d
      BY <3>1 DEF AccInv, RowsTyped
    <3> QED
      BY <1>4, <3>1, <3>2 DEF LosesNothing
  <2>2. CASE d \notin WakeRow
    <3> DEFINE o == CurrentOwner(c)
    <3>1. wakeOf' = wakeOf /\ links' = [links EXCEPT ![o] = links[o] \ {d}]
      BY <1>4, <2>2 DEF ForgetDevice
    <3> HIDE DEF o
    <3>2. \A x \in Device, a \in Owner : x \in links[a] /\ x \notin links'[a] => x = d
      BY <3>1 DEF AccInv, RowsTyped
    <3>3. ASSUME NEW x \in Device, NEW a \in Owner, x \in links[a], \A b \in Owner : x \notin links'[b]
          PROVE  ForgetDevice(c, x)
      <4>1. x = d
        BY <3>2, <3>3
      <4> QED
        BY <1>4, <4>1
    <3> QED
      BY <3>1, <3>3 DEF LosesNothing
  <2> QED
    BY <2>1, <2>2
<1> QED
  BY <1>1, <1>2, <1>3, <1>4, TablesGrow, SwitchesLosesNothing, PruningLosesNothing

(* The cascades of db.rs, for any number of owners, devices and machines to *)
(* wake: merging an anonymous owner into an account, switching and the      *)
(* daily cleaning leave every device and every wake row with an owner.      *)
THEOREM NothingGetsLost == AccSpec => NothingIsLost
<1>1. AccInv /\ [AccNext]_accVars => [LosesNothing]_accVars
  BY StepLosesNothing
<1> QED
  BY <1>1, AccInvariant, PTL DEF AccSpec, NothingIsLost, LosesNothing
-----------------------------------------------------------------------------
(* A handler that waited for argon2 keeps to what it was asked for *)

KeepsPurpose ==
    \A c \in Conn, o \in Owner :
      call[c].kind \in {"register", "reset"} /\ account'[o] # account[o]
      /\ call'[c] # call[c] /\ o = call[c].owner
      => \/ call[c].purpose = "either"
         \/ (call[c].purpose = "register") = (account[o] = NoAccount)

LEMMA CallChange ==
    ASSUME AccInv, [AccNext]_accVars, account' # account
    PROVE  \E c \in Conn :
             /\ RegisterEnds(c) \/ ResetSetsHash(c) \/ ChangeEnds(c)
             /\ \A d \in Conn \ {c} : call'[d] = call[d]
<1>1. ASSUME NEW c \in Conn, RegisterEnds(c) \/ ResetSetsHash(c) \/ ChangeEnds(c)
      PROVE  \A d \in Conn \ {c} : call'[d] = call[d]
  <2>1. call' = [call EXCEPT ![c] = Idle] \/ call' = [call EXCEPT ![c].at = "set"]
    BY <1>1 DEF RegisterEnds, ResetSetsHash, ChangeEnds, Keeps, Turns
  <2> QED
    BY <2>1 DEF AccInv, ConnsTyped
<1>2. ASSUME NEW c \in Conn, HashedCalls(c), ~(RegisterEnds(c) \/ ResetSetsHash(c) \/ ChangeEnds(c))
      PROVE  FALSE
  BY <1>2 DEF HashedCalls, HashStarts, HashEnds, LoginEnds, ResetDropsTokens, ResetEnds, Switches, rows
<1>3. ASSUME NEW c \in Conn, Messages(c)
      PROVE  FALSE
  BY <1>3 DEF Messages, ClientAuthUnknown, Reads, SignOut, Disconnect, ClientAuth, RevokeBrowser, DeletesToken,
     LinkDevice, AddWakeRow, ForgetDevice, Switches,
     PasskeyRegisterStart, PasskeyRegisterFinish, PasskeyLoginStart, PasskeyLoginFinish, DeletePasskey,
     PasswordLogin, EmailChange, EmailCodeConfirm, rows
<1>4. ~UNCHANGED accVars /\ ~PruneEmptyOwners
  BY DEF accVars, rows, PruneEmptyOwners
<1> QED
  BY <1>1, <1>2, <1>3, <1>4 DEF AccNext

LEMMA StepKeepsPurpose == AccInv /\ [AccNext]_accVars => KeepsPurpose
<1> SUFFICES ASSUME AccInv, [AccNext]_accVars, NEW c \in Conn, NEW o \in Owner,
                    call[c].kind \in {"register", "reset"}, account'[o] # account[o],
                    call'[c] # call[c], o = call[c].owner
             PROVE  \/ call[c].purpose = "either"
                    \/ (call[c].purpose = "register") = (account[o] = NoAccount)
  BY DEF KeepsPurpose
<1>1. call[c] \in Call /\ CallKnows(call[c])
  BY HashedCallKnows
<1>2. RegisterEnds(c) \/ ResetSetsHash(c) \/ ChangeEnds(c)
  BY CallChange
<1>3. CASE RegisterEnds(c)
  <2>1. account[o] = NoAccount /\ call[c].purpose # "reset"
    BY <1>1, <1>3 DEF RegisterEnds, Hashed, Insertable, CallKnows
  <2> QED
    BY <1>1, <2>1 DEF Call, Purpose
<1>4. CASE ResetSetsHash(c)
  <2>1. account[o] # NoAccount /\ call[c].purpose # "register"
    BY <1>1, <1>4 DEF ResetSetsHash, Hashed, CallKnows
  <2> QED
    BY <2>1
<1>5. CASE ChangeEnds(c)
  BY <1>5 DEF ChangeEnds, Hashed
<1> QED
  BY <1>2, <1>3, <1>4, <1>5

(* The decision between registering and resetting outlives the wait for     *)
(* argon2, for any number of accounts and connections: whatever others do   *)
(* to the address meanwhile, a reset makes no account and a registration    *)
(* changes no password.                                                     *)
THEOREM PurposesAreKept == AccSpec => PurposeIsKept
<1>1. AccInv /\ [AccNext]_accVars => [KeepsPurpose]_accVars
  BY StepKeepsPurpose
<1> QED
  BY <1>1, AccInvariant, PTL DEF AccSpec, PurposeIsKept, KeepsPurpose
=============================================================================
