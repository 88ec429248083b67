------------------------------ MODULE Accounts ------------------------------
(***************************************************************************)
(* Owners, browser tokens, accounts and passkeys of the server: the rows   *)
(* of db.rs, and the client connections of ws.rs that change them.         *)
(*                                                                         *)
(* A connection runs one handler at a time; connections interleave.  A     *)
(* handler that hashes a password waits for the argon2 gate and then for   *)
(* the hash, and other connections run meanwhile: such a handler is split  *)
(* into the part before the wait, the two steps of the wait and the part   *)
(* after it, and what it read before is kept in call[c].  The other        *)
(* handlers are one action each, the top of the read loop included.        *)
(*                                                                         *)
(* A hash is the password it is of.  An id drawn at random is one that was *)
(* never drawn before.  Whether a typed code is right is a choice (module  *)
(* EmailCodes), whether a limiter refuses too (module Limiter).  Database  *)
(* statements do not fail.                                                 *)
(***************************************************************************)
EXTENDS FiniteSets, Sequences, Naturals

CONSTANTS Owner, Token, Email, Password, Device, WakeRow, Key, Conn, None,
          Argon2Parallel,   \* ARGON2_MAX_PARALLEL
          MaxKeys,          \* MAX_PASSKEYS_PER_OWNER
          MaxMessages       \* bound: messages that the clients send in all

ASSUME AccountsAssumption ==
    /\ Argon2Parallel \in Nat \ {0}
    /\ MaxKeys \in Nat \ {0}
    /\ MaxMessages \in Nat
    /\ None \notin Owner \cup Token \cup Email \cup Password

VARIABLES
    owners,     \* rows of `owners`
    drawn,      \* owner ids and token ids ever drawn
    tokenOf,    \* `owner_tokens`: the owner of a live token, or None
    account,    \* `accounts`: [email, hash] of an owner, or NoAccount
    passkeys,   \* `passkeys`: the credentials of an owner
    links,      \* `ownership`: the devices of an owner
    wakeOf,     \* `wake_devices`: the owner of a row, or None
    session,    \* run_client's `session`: the token of a connection, or None
    lost,       \* run_client's `owner_lost`
    ceremony,   \* owner of the passkey registration in flight, or None
    asserting,  \* whether a passkey login is in flight
    call,       \* the handler a connection waits in
    gate,       \* connections waiting for the argon2 semaphore, oldest first
    sent,       \* messages read so far
    \* what a property remembers:
    signedIn    \* token a client holds since it last signed in, None after it left

rows  == <<owners, drawn, tokenOf, account, passkeys, links, wakeOf>>
conns == <<session, lost, ceremony, asserting, call, gate, signedIn>>
accVars == <<rows, conns, sent>>

Purpose == {"register", "reset", "either"}

NoAccount == [email |-> None, hash |-> None]

Idle == [at |-> "reading", kind |-> "none", owner |-> None, hash |-> None,
         guess |-> None, email |-> None, purpose |-> "either"]

AccInit ==
    /\ owners = {} /\ drawn = {}
    /\ tokenOf = [t \in Token |-> None]
    /\ account = [o \in Owner |-> NoAccount]
    /\ passkeys = [o \in Owner |-> {}]
    /\ links = [o \in Owner |-> {}]
    /\ wakeOf = [w \in WakeRow |-> None]
    /\ session = [c \in Conn |-> None]
    /\ lost = [c \in Conn |-> FALSE]
    /\ ceremony = [c \in Conn |-> None]
    /\ asserting = [c \in Conn |-> FALSE]
    /\ call = [c \in Conn |-> Idle]
    /\ gate = <<>>
    /\ sent = 0
    /\ signedIn = [c \in Conn |-> None]
-----------------------------------------------------------------------------
(* Queries *)

AccountsOf(e) == {o \in Owner : account[o].email = e}

(* current_owner: the owner of the connection while its token lives.       *)
CurrentOwner(c) == IF session[c] = None THEN None ELSE tokenOf[session[c]]

IsAnonymous(o) == passkeys[o] = {} /\ account[o] = NoAccount

Ready(c) == call[c].at = "reading"

(* A message is read: the bound on the clients.                            *)
Takes(c) == Ready(c) /\ sent < MaxMessages /\ sent' = sent + 1

(* The answer a read request gets: the empty list of an anonymous client,  *)
(* or else a list or `not authenticated`.                                  *)
ReadsEmpty(c) == session[c] = None /\ ~lost[c]
-----------------------------------------------------------------------------
(* Steps that the handlers share *)

(* The handler ends with session s and the loop turns: a connection that   *)
(* had an owner and did not leave it itself has lost it.                   *)
Turns(c, s, left) ==
    /\ session' = [session EXCEPT ![c] = s]
    /\ lost' = [lost EXCEPT ![c] = /\ s = None
                                   /\ @ \/ (session[c] # None /\ ~left)]
    /\ call' = [call EXCEPT ![c] = Idle]

(* The handler answers an error or a list and keeps the owner, if it lives. *)
Answers_Forgets(c) == Turns(c, IF CurrentOwner(c) = None THEN None ELSE session[c], TRUE)
Answers(c) == Turns(c, IF CurrentOwner(c) = None THEN None ELSE session[c], FALSE)

Keeps(c) == Turns(c, session[c], FALSE)

(* issue_token: a new token of o.                                          *)
Issues(c, t, o) ==
    /\ t \in Token \ drawn
    /\ tokenOf' = [tokenOf EXCEPT ![t] = o]
    /\ signedIn' = [signedIn EXCEPT ![c] = t]

(* ensure_owner: the live owner of c, or a new one with a token.  s is the *)
(* token c has afterwards.                                                 *)
EnsuresOwner(c, o, s) ==
    \/ /\ CurrentOwner(c) # None
       /\ o = CurrentOwner(c) /\ s = session[c]
       /\ UNCHANGED <<owners, drawn, tokenOf, signedIn>>
    \/ /\ CurrentOwner(c) = None
       /\ o \notin drawn
       /\ Issues(c, s, o)
       /\ owners' = owners \cup {o}
       /\ drawn' = drawn \cup {o, s}

(* switch_to_account: an anonymous owner of c is merged into o, from an    *)
(* account only c's token is deleted; c gets a new token of o.             *)
Switches(c, o) ==
    LET old == CurrentOwner(c)
        merges == old \notin {None, o} /\ IsAnonymous(old)
    IN \E t \in Token \ drawn :
         /\ owners' = IF merges THEN owners \ {old} ELSE owners
         /\ tokenOf' = [u \in Token |->
                          IF u = t THEN o
                          ELSE IF merges /\ tokenOf[u] = old THEN None
                          ELSE IF old # None /\ u = session[c] THEN None
                          ELSE tokenOf[u]]
         /\ links' = IF merges
                     THEN [links EXCEPT ![o] = @ \cup links[old], ![old] = {}]
                     ELSE links
         /\ wakeOf' = [w \in WakeRow |-> IF merges /\ wakeOf[w] = old THEN o ELSE wakeOf[w]]
         /\ drawn' = drawn \cup {t}
         /\ signedIn' = [signedIn EXCEPT ![c] = t]
         /\ Turns(c, t, FALSE)
         /\ UNCHANGED <<account, passkeys>>
-----------------------------------------------------------------------------
(* Signing in with a token, reading, leaving *)

ClientAuth(c, t) ==
    /\ Takes(c) /\ tokenOf[t] # None
    /\ Turns(c, t, FALSE)
    /\ signedIn' = [signedIn EXCEPT ![c] = t]
    /\ UNCHANGED <<rows, ceremony, asserting, gate>>

(* No token, or one that is not in the table.                              *)
ClientAuthUnknown(c) ==
    /\ Takes(c)
    /\ Turns(c, None, TRUE)
    /\ signedIn' = [signedIn EXCEPT ![c] = None]
    /\ UNCHANGED <<rows, ceremony, asserting, gate>>

(* ListDevices, ListBrowsers, ListPasskeys, GetAccount, ListWakeNetworks:   *)
(* owner_for_read.  A handler that needs an owner and finds none, or that a *)
(* limiter refuses, leaves the same state.                                 *)
Reads(c) ==
    /\ Takes(c) /\ ~ReadsEmpty(c)
    /\ Answers(c)
    /\ UNCHANGED <<rows, ceremony, asserting, gate, signedIn>>

DeletesToken(c, t, s, left) ==
    /\ tokenOf' = [tokenOf EXCEPT ![t] = None]
    /\ Turns(c, s, left)
    /\ UNCHANGED <<owners, drawn, account, passkeys, links, wakeOf,
                   ceremony, asserting, gate>>

RevokeBrowser(c, t) ==
    /\ Takes(c) /\ CurrentOwner(c) # None
    /\ tokenOf[t] = CurrentOwner(c) /\ t # session[c]
    /\ DeletesToken(c, t, session[c], FALSE)
    /\ UNCHANGED signedIn

SignOut(c) ==
    /\ Takes(c) /\ CurrentOwner(c) # None
    /\ DeletesToken(c, session[c], None, TRUE)
    /\ signedIn' = [signedIn EXCEPT ![c] = None]

(* The socket closes: the connection's own state is gone, a later one      *)
(* starts anew.                                                            *)
Disconnect(c) ==
    /\ Takes(c)
    /\ session' = [session EXCEPT ![c] = None]
    /\ lost' = [lost EXCEPT ![c] = FALSE]
    /\ ceremony' = [ceremony EXCEPT ![c] = None]
    /\ asserting' = [asserting EXCEPT ![c] = FALSE]
    /\ signedIn' = [signedIn EXCEPT ![c] = None]
    /\ UNCHANGED <<rows, call, gate>>
-----------------------------------------------------------------------------
(* What an owner has *)

(* Join by PIN: the owner is made without a word and the device linked.    *)
LinkDevice(c, d) ==
    /\ Takes(c)
    /\ \E o \in Owner, s \in Token :
         /\ EnsuresOwner(c, o, s)
         /\ links' = [links EXCEPT ![o] = @ \cup {d}]
         /\ Turns(c, s, FALSE)
    /\ UNCHANGED <<account, passkeys, wakeOf, ceremony, asserting, gate>>

(* AddManualDevice, AddRouterWaker                                         *)
AddWakeRow(c, w) ==
    /\ Takes(c) /\ wakeOf[w] = None
    /\ \E o \in Owner, s \in Token :
         /\ EnsuresOwner(c, o, s)
         /\ wakeOf' = [wakeOf EXCEPT ![w] = o]
         /\ Turns(c, s, FALSE)
    /\ UNCHANGED <<account, passkeys, links, ceremony, asserting, gate>>

ForgetDevice(c, d) ==
    /\ Takes(c) /\ CurrentOwner(c) # None
    /\ IF d \in WakeRow
         THEN /\ wakeOf[d] = CurrentOwner(c)
              /\ wakeOf' = [wakeOf EXCEPT ![d] = None]
              /\ UNCHANGED links
         ELSE /\ links' = [links EXCEPT ![CurrentOwner(c)] = @ \ {d}]
              /\ UNCHANGED wakeOf
    /\ Keeps(c)
    /\ UNCHANGED <<owners, drawn, tokenOf, account, passkeys,
                   ceremony, asserting, gate, signedIn>>

(* maintenance.rs: any of the empty anonymous owners may have been idle    *)
(* for long enough.  Its rows go with it (ON DELETE CASCADE).              *)
Empty_DevicesOnly(o) == IsAnonymous(o) /\ links[o] = {}
Empty(o) == IsAnonymous(o) /\ links[o] = {} /\ \A w \in WakeRow : wakeOf[w] # o

PruneEmptyOwners ==
    \E idle \in SUBSET {o \in owners : Empty(o)} :
      /\ idle # {}
      /\ owners' = owners \ idle
      /\ tokenOf' = [t \in Token |-> IF tokenOf[t] \in idle THEN None ELSE tokenOf[t]]
      /\ links' = [o \in Owner |-> IF o \in idle THEN {} ELSE links[o]]
      /\ wakeOf' = [w \in WakeRow |-> IF wakeOf[w] \in idle THEN None ELSE wakeOf[w]]
      /\ UNCHANGED <<drawn, account, passkeys, conns, sent>>
-----------------------------------------------------------------------------
(* Passkeys *)

PasskeyRegisterStart(c) ==
    /\ Takes(c)
    /\ \E o \in Owner, s \in Token :
         /\ EnsuresOwner(c, o, s)
         /\ ceremony' = IF Cardinality(passkeys[o]) < MaxKeys
                        THEN [ceremony EXCEPT ![c] = o] ELSE ceremony
         /\ Turns(c, s, FALSE)
    /\ UNCHANGED <<account, passkeys, links, wakeOf, asserting, gate>>

EndsCeremony(c) == ceremony' = [ceremony EXCEPT ![c] = None]

(* The ceremony is taken whether or not the credential passes, is late or  *)
(* of another owner.                                                       *)
PasskeyRegisterFinish(c) ==
    /\ Takes(c) /\ CurrentOwner(c) # None /\ ceremony[c] # None
    /\ \/ /\ ceremony[c] = CurrentOwner(c)
          /\ \E k \in Key \ UNION {passkeys[o] : o \in Owner} :
               passkeys' = [passkeys EXCEPT ![ceremony[c]] = @ \cup {k}]
       \/ UNCHANGED passkeys
    /\ EndsCeremony(c)
    /\ Keeps(c)
    /\ UNCHANGED <<owners, drawn, tokenOf, account, links, wakeOf,
                   asserting, gate, signedIn>>

DeletePasskey(c, k) ==
    /\ Takes(c) /\ CurrentOwner(c) # None
    /\ passkeys' = [passkeys EXCEPT ![CurrentOwner(c)] = @ \ {k}]
    /\ Keeps(c)
    /\ UNCHANGED <<owners, drawn, tokenOf, account, links, wakeOf,
                   ceremony, asserting, gate, signedIn>>

PasskeyLoginStart(c) ==
    /\ Takes(c)
    /\ asserting' = [asserting EXCEPT ![c] = TRUE]
    /\ Keeps(c)
    /\ UNCHANGED <<rows, ceremony, gate, signedIn>>

PasskeyLoginFinish(c) ==
    /\ Takes(c) /\ asserting[c]
    /\ asserting' = [asserting EXCEPT ![c] = FALSE]
    /\ \/ \E o \in Owner : passkeys[o] # {} /\ Switches(c, o)
       \/ Keeps(c) /\ UNCHANGED <<rows, signedIn>>
    /\ UNCHANGED <<ceremony, gate>>
-----------------------------------------------------------------------------
(* Handlers that wait for argon2 *)

Waits(c, work) ==
    /\ call' = [call EXCEPT ![c] = work]
    /\ gate' = Append(gate, c)
    /\ UNCHANGED <<lost, ceremony, asserting>>

(* EmailCodeConfirm up to the hash, the code being right: registration or  *)
(* reset is decided here.                                                  *)
ConfirmRefused(purpose, e) ==
    \/ purpose = "reset" /\ AccountsOf(e) = {}
    \/ purpose = "register" /\ AccountsOf(e) # {}

EmailCodeConfirm(c, e, p, purpose) ==
    /\ Takes(c) /\ ~ConfirmRefused(purpose, e)
    /\ LET work(o, kind) == [Idle EXCEPT !.at = "queued", !.kind = kind, !.owner = o,
                                         !.guess = p, !.email = e, !.purpose = purpose]
       IN \/ \E o \in AccountsOf(e) :
               /\ Waits(c, work(o, "reset"))
               /\ UNCHANGED <<rows, session, signedIn>>
          \/ /\ AccountsOf(e) = {}
             /\ \E o \in Owner, s \in Token :
                  /\ EnsuresOwner(c, o, s)
                  /\ Waits(c, work(o, "register"))
                  /\ session' = [session EXCEPT ![c] = s]
             /\ UNCHANGED <<account, passkeys, links, wakeOf>>

PasswordLogin(c, e, p) ==
    /\ Takes(c)
    /\ LET o == IF AccountsOf(e) = {} THEN None ELSE CHOOSE a \in AccountsOf(e) : TRUE
       IN Waits(c, [Idle EXCEPT !.at = "queued", !.kind = "login", !.owner = o, !.guess = p,
                                !.hash = IF o = None THEN None ELSE account[o].hash])
    /\ UNCHANGED <<rows, session, signedIn>>

EmailChange(c, e, p) ==
    LET o == CurrentOwner(c)
    IN /\ Takes(c) /\ o # None
       /\ account[o] # NoAccount /\ account[o].email # e
       /\ Waits(c, [Idle EXCEPT !.at = "queued", !.kind = "change", !.owner = o,
                                !.guess = p, !.email = e, !.hash = account[o].hash])
       /\ UNCHANGED <<rows, session, signedIn>>

(* run_gated: a permit of the semaphore, which is fair, and the hash.      *)
HashStarts(c) ==
    /\ gate # <<>> /\ Head(gate) = c
    /\ Cardinality({d \in Conn : call[d].at = "hashing"}) < Argon2Parallel
    /\ gate' = Tail(gate)
    /\ call' = [call EXCEPT ![c].at = "hashing"]
    /\ UNCHANGED <<rows, session, lost, ceremony, asserting, signedIn, sent>>

HashEnds(c) ==
    /\ call[c].at = "hashing"
    /\ call' = [call EXCEPT ![c].at = "hashed"]
    /\ UNCHANGED <<rows, session, lost, ceremony, asserting, gate, signedIn, sent>>

Hashed(c, kind) == call[c].at = "hashed" /\ call[c].kind = kind
Verified(c) == call[c].owner # None /\ call[c].hash = call[c].guess

LoginEnds(c) ==
    /\ Hashed(c, "login")
    /\ IF Verified(c) THEN Switches(c, call[c].owner)
                      ELSE Keeps(c) /\ UNCHANGED <<rows, signedIn>>
    /\ UNCHANGED <<ceremony, asserting, gate, sent>>

(* insert_account is refused when the owner is gone or has an account, or  *)
(* the email is taken.                                                     *)
Insertable_Upserts(o, e) == o \in owners /\ AccountsOf(e) \subseteq {o}
Insertable(o, e) == o \in owners /\ account[o] = NoAccount /\ AccountsOf(e) = {}

RegisterEnds(c) ==
    LET o == call[c].owner
        e == call[c].email
    IN /\ Hashed(c, "register")
       /\ account' = IF Insertable(o, e)
                     THEN [account EXCEPT ![o] = [email |-> e, hash |-> call[c].guess]]
                     ELSE account
       /\ Keeps(c)
       /\ UNCHANGED <<owners, drawn, tokenOf, passkeys, links, wakeOf,
                      ceremony, asserting, gate, signedIn, sent>>

(* The reset's three statements are three critical sections.               *)
ResetSetsHash(c) ==
    /\ Hashed(c, "reset")
    /\ account' = [account EXCEPT ![call[c].owner].hash = call[c].guess]
    /\ call' = [call EXCEPT ![c].at = "set"]
    /\ UNCHANGED <<owners, drawn, tokenOf, passkeys, links, wakeOf,
                   session, lost, ceremony, asserting, gate, signedIn, sent>>

ResetDropsTokens(c) ==
    /\ call[c].at = "set"
    /\ tokenOf' = [t \in Token |-> IF tokenOf[t] = call[c].owner THEN None ELSE tokenOf[t]]
    /\ call' = [call EXCEPT ![c].at = "dropped"]
    /\ UNCHANGED <<owners, drawn, account, passkeys, links, wakeOf,
                   session, lost, ceremony, asserting, gate, signedIn, sent>>

ResetEnds(c) ==
    /\ call[c].at = "dropped"
    /\ Switches(c, call[c].owner)
    /\ UNCHANGED <<ceremony, asserting, gate, sent>>

(* EmailChange after the hash: wrong password, wrong code or taken email   *)
(* change nothing.                                                         *)
ChangeEnds(c) ==
    /\ Hashed(c, "change")
    /\ \/ /\ Verified(c) /\ AccountsOf(call[c].email) = {}
          /\ account' = [account EXCEPT ![call[c].owner].email = call[c].email]
       \/ UNCHANGED account
    /\ Keeps(c)
    /\ UNCHANGED <<owners, drawn, tokenOf, passkeys, links, wakeOf,
                   ceremony, asserting, gate, signedIn, sent>>
-----------------------------------------------------------------------------
HashedCalls(c) ==
    \/ HashStarts(c) \/ HashEnds(c)
    \/ LoginEnds(c) \/ RegisterEnds(c) \/ ChangeEnds(c)
    \/ ResetSetsHash(c) \/ ResetDropsTokens(c) \/ ResetEnds(c)

Messages(c) ==
    \/ ClientAuthUnknown(c) \/ Reads(c) \/ SignOut(c) \/ Disconnect(c)
    \/ \E t \in Token : ClientAuth(c, t) \/ RevokeBrowser(c, t)
    \/ \E d \in Device : LinkDevice(c, d)
    \/ \E w \in WakeRow : AddWakeRow(c, w)
    \/ \E d \in Device \cup WakeRow : ForgetDevice(c, d)
    \/ PasskeyRegisterStart(c) \/ PasskeyRegisterFinish(c)
    \/ PasskeyLoginStart(c) \/ PasskeyLoginFinish(c)
    \/ \E k \in Key : DeletePasskey(c, k)
    \/ \E e \in Email, p \in Password :
         \/ PasswordLogin(c, e, p) \/ EmailChange(c, e, p)
         \/ \E purpose \in Purpose : EmailCodeConfirm(c, e, p, purpose)

AccNext == PruneEmptyOwners \/ \E c \in Conn : Messages(c) \/ HashedCalls(c)

AccSpec == AccInit /\ [][AccNext]_accVars
-----------------------------------------------------------------------------
(* Properties *)

(* A device or a wake row leaves its owners only when one of them forgets  *)
(* it: neither the merge of an anonymous owner nor the daily cleaning      *)
(* takes it with the owner's row (db.rs:927, the cascade of S-3).          *)
NothingIsLost ==
    [][/\ \A d \in Device :
            (\E o \in Owner : d \in links[o]) /\ (\A o \in Owner : d \notin links'[o])
            => \E c \in Conn : ForgetDevice(c, d)
       /\ \A w \in WakeRow :
            wakeOf[w] # None /\ wakeOf'[w] = None => \E c \in Conn : ForgetDevice(c, w)]_accVars

(* A client whose token was revoked while it was connected is not answered *)
(* as an anonymous one: it hears `not authenticated` (ws.rs:1730).         *)
LossIsTold ==
    \A c \in Conn : Ready(c) /\ signedIn[c] # None => ~ReadsEmpty(c)

(* A code asked for registering never changes the password of an account,  *)
(* one asked for a reset never makes an account, whoever registers, moves  *)
(* or resets the address while argon2 runs (ws.rs:1462).                   *)
PurposeIsKept ==
    [][\A c \in Conn, o \in Owner :
         call[c].kind \in {"register", "reset"} /\ account'[o] # account[o]
         /\ call'[c] # call[c] /\ o = call[c].owner
         => \/ call[c].purpose = "either"
            \/ (call[c].purpose = "register") = (account[o] = NoAccount)]_accVars
=============================================================================
