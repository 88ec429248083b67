------------------------------- MODULE Input -------------------------------
(***************************************************************************)
(* From the keyboard to the computer: the browser's listeners and the gate *)
(* that holds keys back while the clipboard is read for a paste            *)
(* (web/src/input.ts, clipboard.ts), the ordered `input` channel, and on   *)
(* the agent the clipboard (clipboard/mod.rs), the input router with its   *)
(* thread (input/mod.rs) and what the session's loop gives to which        *)
(* (signaling/mod.rs).                                                     *)
(*                                                                         *)
(* Three keys stand for all: Ctrl+V, any other, and a mouse button, whose  *)
(* messages the gate does not hold back.  Texts are numbered in the order  *)
(* in which they were copied.                                              *)
(*                                                                         *)
(* Left out: pointer moves, wheel, typed text and touch, which hold        *)
(* nothing down; texts too large, or refused by the computer; the way from *)
(* the agent's clipboard to the browser's, a copy like any other here.     *)
(***************************************************************************)
EXTENDS Naturals, Sequences, SequencesExt

CONSTANTS RouterCap,   \* INPUT_QUEUE_CAPACITY
          MaxTyped,    \* bound: presses, releases and blurs
          MaxCopies,   \* bound: texts copied at either end
          MaxRefused   \* bound: messages refused by the rate limit

ASSUME InputAssumption ==
    RouterCap \in Nat \ {0} /\ {MaxTyped, MaxCopies, MaxRefused} \subseteq Nat

Key == {"paste", "other", "button"}

VARIABLES
    down,       \* what the user holds down in the page
    typed,      \* key events so far
    local,      \* the browser's clipboard
    gate,       \* KeyMessageGate: [isOpen, queue]
    syncs,      \* syncBeforePaste: [no, reads, waits]
    toHost,     \* the `input` channel
    inputOver,  \* the session has ended at the agent
    blocking,   \* texts on spawn_blocking
    applying,   \* the text an apply_remote has written but not noted, or 0
    clip,       \* the computer's clipboard
    noted,      \* ClipboardSync: [text, current]
    due,        \* the newest text that came from the client or was copied
    copies,     \* texts copied at either end
    router,     \* the router's queue
    held,       \* what the computer takes for held
    injected,   \* the last key event that was injected
    stale,      \* the last paste was not of the text that was due
    lost,       \* a release was dropped, and no ReleaseAll queued since
    refused     \* messages refused by the rate limit

webVars  == <<down, typed, local, gate, syncs>>
clipVars == <<blocking, applying, clip, noted, due>>
osVars   == <<held, injected, stale>>
inputVars == <<webVars, toHost, inputOver, clipVars, copies, router, osVars, lost, refused>>

KeyMsg(k, pressed, no) == [type |-> "key", key |-> k, pressed |-> pressed, no |-> no]
ReleaseAll == [type |-> "release_all", key |-> "other", pressed |-> FALSE, no |-> 0]
ClipboardText(t) == [type |-> "text", key |-> "other", pressed |-> FALSE, no |-> t]

Closed == [isOpen |-> FALSE, queue |-> <<>>]

InputInit ==
    /\ down = {} /\ typed = 0 /\ local = 0 /\ gate = Closed /\ syncs = {}
    /\ toHost = <<>> /\ inputOver = FALSE
    /\ blocking = <<>> /\ applying = 0 /\ clip = 0 /\ due = 0
    /\ noted = [text |-> 0, current |-> TRUE]
    /\ copies = 0 /\ router = <<>> /\ held = {} /\ injected = 0
    /\ stale = FALSE /\ lost = FALSE /\ refused = 0

Ghosts == UNCHANGED <<copies, lost, refused>>
-----------------------------------------------------------------------------
(* The browser *)

(* Nothing is sent once the channel is closed.                             *)
Sent(msgs) == toHost' = IF inputOver THEN toHost ELSE toHost \o msgs

(* sendGatedInput, or `send` for a mouse button.                            *)
SendsKey(m) ==
    IF gate.isOpen /\ m.key # "button"
    THEN gate' = [gate EXCEPT !.queue = Append(@, m)] /\ UNCHANGED toHost
    ELSE Sent(<<m>>) /\ UNCHANGED gate

(* A mutant: a key that comes up does not wait at the gate.                 *)
KeyUp_Ungated(k) ==
    /\ typed < MaxTyped /\ typed' = typed + 1
    /\ k \in down /\ down' = down \ {k}
    /\ Sent(<<KeyMsg(k, FALSE, typed')>>)
    /\ UNCHANGED <<local, gate, syncs, inputOver, clipVars, router, osVars>> /\ Ghosts

KeyUp(k) ==
    /\ typed < MaxTyped /\ typed' = typed + 1
    /\ k \in down /\ down' = down \ {k}
    /\ SendsKey(KeyMsg(k, FALSE, typed'))
    /\ UNCHANGED <<local, syncs, inputOver, clipVars, router, osVars>> /\ Ghosts

KeyDown(k) ==
    /\ typed < MaxTyped /\ typed' = typed + 1
    /\ k \notin down /\ down' = down \cup {k}
    /\ LET m == KeyMsg(k, TRUE, typed')
       IN IF k = "paste"
          THEN /\ gate' = [isOpen |-> TRUE, queue |-> Append(gate.queue, m)]
               /\ syncs' = syncs \cup {[no |-> typed', reads |-> TRUE, waits |-> TRUE]}
               /\ UNCHANGED toHost
          ELSE SendsKey(m) /\ UNCHANGED syncs
    /\ UNCHANGED <<local, inputOver, clipVars, router, osVars>> /\ Ghosts

(* The window loses the focus: no key that is down will be seen coming up.  *)
Blur ==
    /\ typed < MaxTyped /\ typed' = typed + 1
    /\ down' = {}
    /\ SendsKey(ReleaseAll)
    /\ UNCHANGED <<local, syncs, inputOver, clipVars, router, osVars>> /\ Ghosts

(* syncBeforePaste: its first end lets the gate go; readText may still       *)
(* answer after the ten seconds, and its text is then sent all the same.    *)
SyncGoesOn(s, reads, text) ==
    /\ syncs' = (syncs \ {s}) \cup (IF reads THEN {[s EXCEPT !.reads = TRUE, !.waits = FALSE]} ELSE {})
    /\ IF s.waits
       THEN Sent(text \o gate.queue) /\ gate' = Closed
       ELSE Sent(text) /\ UNCHANGED gate
    /\ UNCHANGED <<down, typed, local, inputOver, clipVars, router, osVars>> /\ Ghosts

ReadEnds(s) ==
    s.reads /\ \E text \in {<<>>, <<ClipboardText(local)>>} : SyncGoesOn(s, FALSE, text)

(* A mutant: the gate waits for readText alone.                             *)
PasteTimesOut_StaysShut(s) ==
    /\ s.waits
    /\ syncs' = (syncs \ {s}) \cup {[s EXCEPT !.waits = FALSE]}
    /\ UNCHANGED <<down, typed, local, gate, toHost, inputOver, clipVars, router, osVars>> /\ Ghosts

PasteTimesOut(s) == s.waits /\ SyncGoesOn(s, s.reads, <<>>)

LocalCopies ==
    /\ copies < MaxCopies /\ copies' = copies + 1
    /\ local' = copies'
    /\ UNCHANGED <<down, typed, gate, syncs, toHost, inputOver, clipVars, router, osVars, lost, refused>>
-----------------------------------------------------------------------------
(* The agent's loop *)

Releases(m) == m.type = "release_all" \/ ~m.pressed

(* handle_session_event: a text goes to a thread of its own, the rest to     *)
(* push, which drops what is over the rate or what the queue cannot take.   *)
HostHears ==
    /\ toHost # <<>> /\ ~inputOver
    /\ toHost' = Tail(toHost)
    /\ LET m == Head(toHost) IN
         IF m.type = "text"
         THEN /\ blocking' = Append(blocking, m.no) /\ due' = m.no
              /\ UNCHANGED <<router, lost, refused>>
         ELSE /\ \/ /\ Len(router) < RouterCap
                    /\ router' = Append(router, m) /\ UNCHANGED refused
                    /\ lost' = (lost /\ m.type # "release_all")
                 \/ /\ Len(router) = RouterCap
                    /\ lost' = (lost \/ Releases(m)) /\ UNCHANGED <<router, refused>>
                 \/ /\ m.type # "release_all" /\ refused < MaxRefused
                    /\ refused' = refused + 1
                    /\ lost' = (lost \/ Releases(m)) /\ UNCHANGED router
              /\ UNCHANGED <<blocking, due>>
    /\ UNCHANGED <<webVars, inputOver, applying, clip, noted, copies, osVars>>

(* The session ends: ActiveSession and with it the router are dropped.      *)
InputEnds ==
    /\ ~inputOver /\ inputOver' = TRUE
    /\ toHost' = <<>>
    /\ UNCHANGED <<webVars, clipVars, router, osVars>> /\ Ghosts
-----------------------------------------------------------------------------
(* The clipboard's threads, which take turns on a lock *)

(* apply_remote up to set_text; it does nothing when the clipboard is known *)
(* to hold the text.                                                       *)
ApplyWrites ==
    /\ applying = 0
    /\ \E i \in DOMAIN blocking :
         /\ blocking' = RemoveAt(blocking, i)
         /\ IF noted = [text |-> blocking[i], current |-> TRUE]
            THEN UNCHANGED <<applying, clip>>
            ELSE clip' = blocking[i] /\ applying' = blocking[i]
    /\ UNCHANGED <<webVars, toHost, inputOver, noted, due, router, osVars>> /\ Ghosts

(* The change counter is read again, whoever has changed it last.           *)
ApplySettles ==
    /\ applying # 0 /\ applying' = 0
    /\ noted' = [text |-> applying, current |-> TRUE]
    /\ UNCHANGED <<webVars, toHost, inputOver, blocking, clip, due, router, osVars>> /\ Ghosts

(* ClipboardSync::poll.                                                     *)
WatcherPolls ==
    /\ applying = 0 /\ ~inputOver /\ ~noted.current
    /\ noted' = [text |-> clip, current |-> TRUE]
    /\ UNCHANGED <<webVars, toHost, inputOver, blocking, applying, clip, due, router, osVars>> /\ Ghosts

HostCopies ==
    /\ copies < MaxCopies /\ copies' = copies + 1
    /\ clip' = copies' /\ due' = copies'
    /\ noted' = [noted EXCEPT !.current = FALSE]
    /\ UNCHANGED <<webVars, toHost, inputOver, blocking, applying, router, osVars, lost, refused>>
-----------------------------------------------------------------------------
(* The router's thread *)

RouterApplies ==
    /\ router # <<>> /\ router' = Tail(router)
    /\ LET m == Head(router) IN
         /\ held' = IF m.type = "release_all" THEN {}
                    ELSE IF m.pressed THEN held \cup {m.key} ELSE held \ {m.key}
         /\ injected' = IF m.type = "key" /\ m.key # "button" THEN m.no ELSE injected
         /\ stale' = IF m.pressed /\ m.key = "paste" THEN clip # due ELSE stale
    /\ UNCHANGED <<webVars, toHost, inputOver, clipVars>> /\ Ghosts

(* recv fails once the router is gone and its queue empty.                   *)
RouterEnds ==
    /\ inputOver /\ router = <<>> /\ held # {}
    /\ held' = {}
    /\ UNCHANGED <<webVars, toHost, inputOver, clipVars, router, injected, stale>> /\ Ghosts
-----------------------------------------------------------------------------
InputNext ==
    \/ \E k \in Key : KeyDown(k) \/ KeyUp(k)
    \/ Blur \/ LocalCopies
    \/ \E s \in syncs : ReadEnds(s) \/ PasteTimesOut(s)
    \/ HostHears \/ InputEnds
    \/ ApplyWrites \/ ApplySettles \/ WatcherPolls \/ HostCopies
    \/ RouterApplies \/ RouterEnds

(* readText may never answer; timer, channel, loop and thread go on.        *)
InputFairness ==
    /\ WF_inputVars(\E s \in syncs : PasteTimesOut(s))
    /\ WF_inputVars(HostHears) /\ WF_inputVars(RouterApplies \/ RouterEnds)

InputSpec == InputInit /\ [][InputNext]_inputVars /\ InputFairness
-----------------------------------------------------------------------------
(* Properties *)

(* Keys are injected in the order in which they were typed, whatever pastes *)
(* overlap, time out or are answered late (input.ts:184).                  *)
KeysStayInOrder == [][injected' >= injected]_inputVars

(* The computer does not go on holding what the user has let go: not behind *)
(* a gate whose clipboard is never read, not after the window has lost the  *)
(* focus with keys down, and not once the session is over, even if a        *)
(* release was dropped (input/mod.rs:403, input.ts:547).                    *)
HostLetsGo == []<>(held \subseteq down \/ (lost /\ ~inputOver) \/ (inputOver /\ held = {}))

(* "by the time the very next Key event (e.g. Cmd+V) arrives, the host's     *)
(* clipboard is guaranteed already updated" (proto/src/input.rs:64).  The   *)
(* code applies the text on a thread it does not wait for: see the findings.*)
PasteIsFresh == ~stale
=============================================================================
