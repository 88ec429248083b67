---------------------------- MODULE DeliveryProofs ---------------------------
(***************************************************************************)
(* What reaches a browser, for any numbers of owners, connections, changes  *)
(* and files: every change of a device's presence (Presence), and the files *)
(* of a download (Downloads).                                               *)
(***************************************************************************)
EXTENDS Presence, Downloads, TLAPS

(* Watching: where the owner's lists are *)

At == {"idle", "owners", "next", "build", "buildFirst", "send", "sendFirst",
       "turn", "leave", "link", "linkNew"}
PersonOrNobody == Person \cup {Nobody}
Task == [at : At, owners : SUBSET PersonOrNobody, owner : PersonOrNobody, to : SUBSET Browser,
         entry : {"absent", "offline", "free", "busy"}, built : Nat]

PreTyped ==
    /\ linkedTo \subseteq PersonOrNobody
    /\ person \in [Browser -> PersonOrNobody] /\ watches \in [Browser -> PersonOrNobody]
    /\ task \in [Handler -> Task]
    /\ news \in Nat /\ pushedAt \in Nat /\ pushedAt <= news
    /\ builtAt \in [Browser -> Nat] /\ watchedAt \in [Browser -> Nat]

(* h will yet look for the owners of the device.                            *)
WillLook(h) ==
    task[h].at \in {"owners", "link", "linkNew", "leave", "buildFirst", "sendFirst"}

(* h will yet send c a list that shows the last change that was pushed.     *)
Carries(h, c) ==
    \/ WillLook(h)
    \/ task[h].at \in {"next", "build", "send"} /\ watches[c] \in task[h].owners
    \/ task[h].at = "build" /\ c \in task[h].to
    \/ task[h].at = "send" /\ c \in task[h].to /\ pushedAt <= task[h].built

(* Whoever watches has a list that shows the last change that was pushed,   *)
(* or some handler is still at it.                                          *)
Told(c) ==
    watches[c] \in linkedTo /\ watchedAt[c] < pushedAt =>
      pushedAt <= builtAt[c] \/ \E h \in Handler : Carries(h, c)

PreInv == PreTyped /\ \A c \in Browser : Told(c)

USE PresenceAssumption DEF PresenceAssumption
-----------------------------------------------------------------------------
(* A handler turns to the next owner, who may have nobody watching.         *)
LEMMA OwnerPicked ==
    ASSUME PreTyped, NEW h \in Handler, FindsWatchers(h), task[h].owners # {}
    PROVE  /\ task' \in [Handler -> Task]
           /\ \A g \in Handler : g # h => task'[g] = task[g]
           /\ \E p \in task[h].owners :
                /\ task'[h].owners = task[h].owners \ {p}
                /\ task'[h].to = {c \in Browser : watches[c] = p}
                /\ task'[h].at = IF task'[h].to = {} THEN "next" ELSE "build"
<1>1. task[h] \in Task /\ task \in [Handler -> Task]
  BY DEF PreTyped
<1>2. PICK p \in task[h].owners :
        task' = [task EXCEPT ![h].owners = @ \ {p}, ![h].owner = p,
                             ![h].to = {c \in Browser : watches[c] = p},
                             ![h].at = IF \E c \in Browser : watches[c] = p
                                       THEN "build" ELSE "next"]
  BY DEF FindsWatchers
<1> DEFINE to == {c \in Browser : watches[c] = p}
           at == IF \E c \in Browser : watches[c] = p THEN "build" ELSE "next"
           left == task[h].owners \ {p}
           t == [task[h] EXCEPT !.owners = left, !.owner = p, !.to = to, !.at = at]
<1>3. (\E c \in Browser : watches[c] = p) <=> to # {}
  OBVIOUS
<1>4. at \in At /\ to \in SUBSET Browser /\ at = IF to = {} THEN "next" ELSE "build"
  BY <1>3 DEF At
<1>5. p \in PersonOrNobody /\ left \in SUBSET PersonOrNobody
  BY <1>1 DEF Task
<1>6. task' = [task EXCEPT ![h].owners = left, ![h].owner = p, ![h].to = to, ![h].at = at]
  BY <1>2
<1> HIDE DEF to, at, left
<1>7. t \in Task /\ t.owners = left /\ t.to = to /\ t.at = at
  BY <1>1, <1>4, <1>5 DEF Task
<1>8. task' = [task EXCEPT ![h] = t]
  BY <1>1, <1>6
<1> HIDE DEF t
<1>9. task' \in [Handler -> Task] /\ task'[h] = t /\ \A g \in Handler : g # h => task'[g] = task[g]
  BY <1>1, <1>7, <1>8
<1> QED
  BY <1>4, <1>7, <1>9 DEF to, left

(* What a send leaves the handler to do.                                    *)
LEMMA ListSent ==
    ASSUME PreTyped, NEW h \in Handler, NEW c \in Browser, Sends(h, c)
    PROVE  /\ task' \in [Handler -> Task]
           /\ \A g \in Handler : g # h => task'[g] = task[g]
           /\ \/ /\ task'[h].at = task[h].at /\ task'[h].to = task[h].to \ {c}
                 /\ task'[h].owners = task[h].owners /\ task'[h].built = task[h].built
              \/ task[h].to = {c} /\ task[h].at = "sendFirst" /\ task'[h].at = "owners"
              \/ /\ task[h].to = {c} /\ task[h].at = "send" /\ task'[h].at = "next"
                 /\ task'[h].owners = task[h].owners
<1>1. task[h] \in Task /\ task \in [Handler -> Task]
  BY DEF PreTyped
<1>2. CASE task[h].to # {c}
  <2>1. task' = [task EXCEPT ![h].to = @ \ {c}]
    BY <1>2 DEF Sends
  <2> DEFINE t == [task[h] EXCEPT !.to = @ \ {c}]
  <2>2. /\ t \in Task /\ t.to = task[h].to \ {c}
        /\ t.at = task[h].at /\ t.owners = task[h].owners /\ t.built = task[h].built
    BY <1>1 DEF Task
  <2>3. task' = [task EXCEPT ![h] = t]
    BY <2>1
  <2> HIDE DEF t
  <2> QED
    BY <1>1, <2>2, <2>3
<1>3. CASE task[h].to = {c} /\ task[h].at = "sendFirst"
  <2>1. task' = [task EXCEPT ![h] = [NoTask EXCEPT !.at = "owners"]]
    BY <1>3 DEF Sends, Then
  <2>2. [NoTask EXCEPT !.at = "owners"] \in Task /\ [NoTask EXCEPT !.at = "owners"].at = "owners"
    BY DEF NoTask, Task, At, PersonOrNobody
  <2> QED
    BY <1>1, <1>3, <2>1, <2>2
<1>4. CASE task[h].to = {c} /\ task[h].at = "send"
  <2> DEFINE t == [NoTask EXCEPT !.at = "next", !.owners = task[h].owners]
  <2>1. task' = [task EXCEPT ![h] = t]
    BY <1>4 DEF Sends
  <2>2. task[h].owners \in SUBSET PersonOrNobody
    BY <1>1 DEF Task
  <2>3. t \in Task /\ t.at = "next" /\ t.owners = task[h].owners
    BY <2>2 DEF NoTask, Task, At, PersonOrNobody
  <2> HIDE DEF t
  <2> QED
    BY <1>1, <1>4, <2>1, <2>3
<1> QED
  BY <1>2, <1>3, <1>4 DEF Sends

LEMMA PreTypes == PreTyped /\ [PreNext]_preVars => PreTyped'
<1> SUFFICES ASSUME PreTyped, [PreNext]_preVars PROVE PreTyped'
  OBVIOUS
<1> USE DEF PreTyped
<1>1. NoTask \in Task /\ \A at \in At : [NoTask EXCEPT !.at = at] \in Task
  BY DEF NoTask, Task, At, PersonOrNobody
<1>2. \A c \in Browser, p \in PersonOrNobody, at \in At : Lists(c, p, at) \in Task
  BY DEF Lists, NoTask, Task, At, PersonOrNobody
<1>3. \A h \in Handler, at \in At : Then(h, at) => task' \in [Handler -> Task]
  BY <1>1 DEF Then
<1>4. ASSUME NEW l \in Link, HostRegisters(l) \/ HostEndsSession(l) \/ HostLeaves(l)
      PROVE  PreTyped'
  BY <1>3, <1>4 DEF HostRegisters, HostEndsSession, HostLeaves, Change, unseen, At, Handler
<1>5. ASSUME NEW c \in Browser, NEW p \in Person, SignsIn(c, p) PROVE PreTyped'
  BY <1>2, <1>5 DEF SignsIn, Change, unseen, At, Handler, PersonOrNobody
<1>6. ASSUME NEW c \in Browser, SignsOut(c) \/ AsksList(c) \/ ConnectsDevice(c) PROVE PreTyped'
  <2>1. CASE SignsOut(c)
    BY <1>3, <2>1 DEF SignsOut, Change, unseen, At, Handler, PersonOrNobody
  <2>2. CASE AsksList(c)
    BY <1>2, <2>2 DEF AsksList, world, unseen, At, Handler, PersonOrNobody
  <2>3. CASE ConnectsDevice(c)
    BY <1>3, <2>3 DEF ConnectsDevice, Change, unseen, At, Handler, PersonOrNobody
  <2> QED
    BY <1>6, <2>1, <2>2, <2>3
<1>7. ASSUME NEW c \in Browser, JoinsByPin(c) PROVE PreTyped'
  <2>1. PICK p \in Person \cup {person[c]} :
           /\ p \in PersonOrNobody
           /\ person' = [person EXCEPT ![c] = p]
           /\ task' = [task EXCEPT ![c] = Lists(c, p, IF person[c] = Nobody THEN "linkNew" ELSE "link")]
    BY <1>7 DEF JoinsByPin, PersonOrNobody
  <2>2. Lists(c, p, "linkNew") \in Task /\ Lists(c, p, "link") \in Task
    BY <1>2, <2>1 DEF At
  <2> QED
    BY <1>7, <2>1, <2>2 DEF JoinsByPin, Change, unseen, Handler
<1>8. ASSUME NEW c \in Browser, ClientEndsSession(c) \/ ForgetsDevice(c) \/ ClientLeaves(c) PROVE PreTyped'
  <2>1. CASE ClientEndsSession(c)
    BY <1>3, <2>1 DEF ClientEndsSession, Change, unseen, At, Handler
  <2>2. CASE ForgetsDevice(c)
    BY <1>2, <2>2 DEF ForgetsDevice, Change, unseen, At, Handler
  <2>3. CASE ClientLeaves(c)
    BY <1>3, <2>3 DEF ClientLeaves, Change, unseen, At, Handler, PersonOrNobody
  <2> QED
    BY <1>8, <2>1, <2>2, <2>3
<1>9. ASSUME NEW h \in Handler, Continues(h) PROVE PreTyped'
  <2>0. task[h] \in Task
    OBVIOUS
  <2>1. CASE h \in Browser /\ LinksDevice(h)
    <3>1. task[h].owner \in PersonOrNobody
      BY <2>0 DEF Task
    <3> QED
      BY <1>3, <2>0, <2>1 DEF LinksDevice, unseen, At, Handler, PersonOrNobody, Task
  <2>2. CASE h \in Browser /\ Turns(h)
    BY <1>3, <2>2 DEF Turns, undisturbed, world, At, Handler
  <2>3. CASE FindsOwners(h)
    BY <2>0, <2>3 DEF FindsOwners, undisturbed, world, unseen, At, Task
  <2>4. CASE FindsWatchers(h)
    <3>1. CASE task[h].owners = {}
      BY <1>3, <2>4, <3>1 DEF FindsWatchers, undisturbed, world, unseen, At
    <3>2. CASE task[h].owners # {}
      BY <2>4, <3>2, OwnerPicked DEF FindsWatchers, undisturbed, world, unseen
    <3> QED
      BY <3>1, <3>2
  <2>5. CASE BuildsList(h)
    BY <2>0, <2>5 DEF BuildsList, undisturbed, world, unseen, At, Task, Entry, Presence
  <2>6. ASSUME NEW c \in Browser, Sends(h, c) PROVE PreTyped'
    <3>1. task' \in [Handler -> Task]
      BY <2>6, ListSent
    <3>2. builtAt' \in [Browser -> Nat]
      BY <2>0, <2>6 DEF Sends, Task
    <3> QED
      BY <2>6, <3>1, <3>2 DEF Sends, undisturbed, world
  <2> QED
    BY <1>9, <2>1, <2>2, <2>3, <2>4, <2>5, <2>6 DEF Continues
<1>10. CASE UNCHANGED preVars
  BY <1>10 DEF preVars, world
<1> QED
  BY <1>4, <1>5, <1>6, <1>7, <1>8, <1>9, <1>10 DEF PreNext
-----------------------------------------------------------------------------
(* A step of handler h that leaves every watcher's debts where they were.   *)
LEMMA SameDebts ==
    ASSUME PreInv, NEW h \in Handler, NEW c \in Browser,
           \A g \in Handler : g # h => task'[g] = task[g],
           UNCHANGED watches, watchedAt'[c] = watchedAt[c], pushedAt' = pushedAt,
           watches[c] \in linkedTo' => watches[c] \in linkedTo,
           builtAt'[c] >= builtAt[c], builtAt'[c] \in Nat,
           Carries(h, c) => Carries(h, c)' \/ pushedAt <= builtAt'[c]
    PROVE  Told(c)'
<1> SUFFICES ASSUME watches[c] \in linkedTo, watchedAt[c] < pushedAt
             PROVE  pushedAt <= builtAt'[c] \/ \E g \in Handler : Carries(g, c)'
  BY DEF Told
<1>1. CASE pushedAt <= builtAt[c]
  BY <1>1 DEF PreInv, PreTyped
<1>2. ASSUME NEW g \in Handler, Carries(g, c)
      PROVE  pushedAt <= builtAt'[c] \/ \E g2 \in Handler : Carries(g2, c)'
  <2>1. g # h => Carries(g, c)'
    BY <1>2 DEF Carries, WillLook
  <2> QED
    BY <1>2, <2>1
<1> QED
  BY <1>1, <1>2 DEF PreInv, Told

(* The world changes: whoever changed it will look for the owners, or it    *)
(* changed for nobody who is owed a push.                                   *)
LEMMA WorldKeepsTold ==
    ASSUME PreInv, NEW h \in Handler,
           \A g \in Handler : g # h => task'[g] = task[g],
           UNCHANGED unseen,
           \/ WillLook(h)'
           \/ task[h].at = "idle" /\ pushedAt' = pushedAt /\ linkedTo' \subseteq linkedTo
    PROVE  \A c \in Browser : Told(c)'
<1>1. CASE WillLook(h)'
  BY <1>1 DEF Told, Carries
<1>2. CASE task[h].at = "idle" /\ pushedAt' = pushedAt /\ linkedTo' \subseteq linkedTo
  <2> TAKE c \in Browser
  <2>1. ~Carries(h, c)
    BY <1>2 DEF Carries, WillLook
  <2> QED
    BY <1>2, <2>1, SameDebts DEF unseen, PreInv, PreTyped
<1> QED
  BY <1>1, <1>2

LEMMA NowAt ==
    ASSUME PreTyped, NEW h \in Handler, NEW at, Then(h, at)
    PROVE  task'[h].at = at /\ \A g \in Handler : g # h => task'[g] = task[g]
BY DEF PreTyped, Then, NoTask

LEMMA NowLists ==
    ASSUME PreTyped, NEW h \in Handler, NEW c, NEW p, NEW at, task' = [task EXCEPT ![h] = Lists(c, p, at)]
    PROVE  task'[h].at = at /\ \A g \in Handler : g # h => task'[g] = task[g]
BY DEF PreTyped, Lists, NoTask

LEMMA ToldStep == PreInv /\ [PreNext]_preVars => \A c \in Browser : Told(c)'
<1> SUFFICES ASSUME PreInv, [PreNext]_preVars PROVE \A c \in Browser : Told(c)'
  OBVIOUS
<1>0. PreTyped
  BY DEF PreInv
<1>1. ASSUME NEW l \in Link, HostRegisters(l) \/ HostEndsSession(l) \/ HostLeaves(l)
      PROVE  \A c \in Browser : Told(c)'
  <2>1. Then(l, "owners") /\ UNCHANGED unseen /\ l \in Handler
    BY <1>1 DEF HostRegisters, HostEndsSession, HostLeaves, Handler, unseen
  <2>2. WillLook(l)'
    BY <1>0, <2>1, NowAt DEF WillLook
  <2> QED
    BY <1>0, <2>1, <2>2, NowAt, WorldKeepsTold
<1>2. ASSUME NEW c \in Browser, NEW p \in Person, SignsIn(c, p) PROVE \A b \in Browser : Told(b)'
  <2>1. c \in Handler /\ task[c].at = "idle" /\ task' = [task EXCEPT ![c] = Lists(c, p, "build")]
    BY <1>2 DEF SignsIn, Reading, Handler
  <2> QED
    BY <1>0, <1>2, <2>1, NowLists, WorldKeepsTold DEF SignsIn, Change
<1>3. ASSUME NEW c \in Browser, SignsOut(c) PROVE \A b \in Browser : Told(b)'
  BY <1>0, <1>3, NowAt, WorldKeepsTold DEF SignsOut, Change, Reading, Handler
<1>4. ASSUME NEW c \in Browser, AsksList(c) PROVE \A b \in Browser : Told(b)'
  <2>1. c \in Handler /\ task[c].at = "idle" /\ task' = [task EXCEPT ![c] = Lists(c, person[c], "build")]
    BY <1>4 DEF AsksList, Reading, Handler
  <2> QED
    BY <1>0, <1>4, <2>1, NowLists, WorldKeepsTold DEF AsksList, world
<1>5. ASSUME NEW c \in Browser, ConnectsDevice(c) \/ ClientEndsSession(c) PROVE \A b \in Browser : Told(b)'
  <2>1. Then(c, "owners") /\ UNCHANGED unseen /\ c \in Handler
    BY <1>5 DEF ConnectsDevice, ClientEndsSession, Handler, unseen
  <2>2. WillLook(c)'
    BY <1>0, <2>1, NowAt DEF WillLook
  <2> QED
    BY <1>0, <2>1, <2>2, NowAt, WorldKeepsTold
<1>6. ASSUME NEW c \in Browser, JoinsByPin(c) PROVE \A b \in Browser : Told(b)'
  <2>1. PICK p : task' = [task EXCEPT ![c] = Lists(c, p, IF person[c] = Nobody THEN "linkNew" ELSE "link")]
    BY <1>6 DEF JoinsByPin
  <2>2. c \in Handler /\ task \in [Handler -> Task]
    BY <1>0 DEF PreTyped, Handler
  <2>3. task'[c].at \in {"link", "linkNew"} /\ \A g \in Handler : g # c => task'[g] = task[g]
    BY <2>1, <2>2 DEF Lists, NoTask
  <2> QED
    BY <1>6, <2>2, <2>3, WorldKeepsTold DEF JoinsByPin, WillLook
<1>7. ASSUME NEW c \in Browser, ForgetsDevice(c) PROVE \A b \in Browser : Told(b)'
  <2>1. c \in Handler /\ task[c].at = "idle" /\ task' = [task EXCEPT ![c] = Lists(c, person[c], "build")]
    BY <1>7 DEF ForgetsDevice, Reading, Handler
  <2> QED
    BY <1>0, <1>7, <2>1, NowLists, WorldKeepsTold DEF ForgetsDevice, Change
<1>8. ASSUME NEW c \in Browser, ClientLeaves(c) PROVE \A b \in Browser : Told(b)'
  <2>1. CASE heldBy = c
    <3>1. Then(c, "leave") /\ UNCHANGED unseen /\ c \in Handler
      BY <1>8, <2>1 DEF ClientLeaves, Handler
    <3>2. WillLook(c)'
      BY <1>0, <3>1, NowAt DEF WillLook
    <3> QED
      BY <1>0, <3>1, <3>2, NowAt, WorldKeepsTold
  <2>2. CASE heldBy # c
    BY <1>0, <1>8, <2>2, NowAt, WorldKeepsTold DEF ClientLeaves, Change, Reading, Handler
  <2> QED
    BY <2>1, <2>2
<1>9. ASSUME NEW h \in Browser, LinksDevice(h) PROVE \A c \in Browser : Told(c)'
  <2>1. task[h] \in Task /\ h \in Handler /\ task \in [Handler -> Task]
    BY <1>0 DEF PreTyped, Handler
  <2>2. task'[h].at \in {"buildFirst", "owners"} /\ \A g \in Handler : g # h => task'[g] = task[g]
    <3>1. CASE task[h].at = "linkNew"
      BY <1>9, <2>1, <3>1 DEF LinksDevice, Task
    <3>2. CASE task[h].at # "linkNew"
      BY <1>0, <1>9, <2>1, <3>2, NowAt DEF LinksDevice
    <3> QED
      BY <3>1, <3>2
  <2> QED
    BY <1>9, <2>1, <2>2, WorldKeepsTold DEF LinksDevice, WillLook
<1>10. ASSUME NEW h \in Browser, Turns(h) PROVE \A c \in Browser : Told(c)'
  <2>1. h \in Handler /\ \A g \in Handler : g # h => task'[g] = task[g]
    BY <1>0, <1>10, NowAt DEF Turns, Handler
  <2>2. CASE task[h].at = "leave"
    <3>1. WillLook(h)'
      BY <1>0, <1>10, <2>1, <2>2, NowAt DEF Turns, WillLook
    <3> QED
      BY <2>1, <3>1 DEF Told, Carries
  <2>3. CASE task[h].at = "turn"
    <3> TAKE c \in Browser
    <3>1. ASSUME watches'[c] # watches[c] PROVE Told(c)'
      BY <1>0, <1>10, <3>1 DEF Turns, undisturbed, world, PreTyped, Told
    <3>2. ASSUME watches'[c] = watches[c] PROVE Told(c)'
      <4>1. watchedAt'[c] = watchedAt[c] /\ pushedAt' = pushedAt /\ linkedTo' = linkedTo /\ builtAt' = builtAt
        BY <1>0, <1>10, <3>2 DEF Turns, undisturbed, world, PreTyped
      <4>2. ~Carries(h, c)
        BY <2>3 DEF Carries, WillLook
      <4>3. \A g \in Handler : Carries(g, c) => Carries(g, c)'
        BY <2>1, <3>2, <4>1, <4>2 DEF Carries, WillLook
      <4> QED
        BY <3>2, <4>1, <4>3 DEF PreInv, Told
    <3> QED
      BY <3>1, <3>2
  <2> QED
    BY <1>10, <2>2, <2>3 DEF Turns
<1>11. ASSUME NEW h \in Handler, FindsOwners(h) PROVE \A c \in Browser : Told(c)'
  <2>1. task[h] \in Task /\ task \in [Handler -> Task]
    BY <1>0 DEF PreTyped
  <2>2. /\ task'[h].at = "next" /\ task'[h].owners = linkedTo
        /\ \A g \in Handler : g # h => task'[g] = task[g]
    BY <1>11, <2>1 DEF FindsOwners, Task
  <2>3. UNCHANGED <<watches, watchedAt, pushedAt, linkedTo, builtAt>>
    BY <1>11 DEF FindsOwners, undisturbed, world, unseen
  <2> QED
    BY <2>2, <2>3 DEF Told, Carries, WillLook
<1>12. ASSUME NEW h \in Handler, FindsWatchers(h) PROVE \A c \in Browser : Told(c)'
  <2>1. UNCHANGED <<watches, watchedAt, pushedAt, linkedTo, builtAt>> /\ task[h].at = "next"
    BY <1>12 DEF FindsWatchers, undisturbed, world, unseen
  <2> TAKE c \in Browser
  <2>2. CASE task[h].owners = {}
    <3>1. \A g \in Handler : g # h => task'[g] = task[g]
      BY <1>0, <1>12, <2>2, NowAt DEF FindsWatchers
    <3>2. ~Carries(h, c)
      BY <2>1, <2>2 DEF Carries, WillLook
    <3> QED
      BY <1>0, <2>1, <3>1, <3>2, SameDebts DEF PreTyped
  <2>3. CASE task[h].owners # {}
    <3>1. /\ \A g \in Handler : g # h => task'[g] = task[g]
          /\ \E p \in task[h].owners :
                /\ task'[h].owners = task[h].owners \ {p}
                /\ task'[h].to = {b \in Browser : watches[b] = p}
                /\ task'[h].at = IF task'[h].to = {} THEN "next" ELSE "build"
      BY <1>0, <1>12, <2>3, OwnerPicked
    <3>2. Carries(h, c) => Carries(h, c)'
      BY <2>1, <3>1 DEF Carries, WillLook
    <3> QED
      BY <1>0, <2>1, <3>1, <3>2, SameDebts DEF PreTyped
  <2> QED
    BY <2>2, <2>3
<1>13. ASSUME NEW h \in Handler, BuildsList(h) PROVE \A c \in Browser : Told(c)'
  <2>1. UNCHANGED <<watches, watchedAt, pushedAt, linkedTo, builtAt>>
    BY <1>13 DEF BuildsList, undisturbed, world, unseen
  <2>2. task[h] \in Task /\ task \in [Handler -> Task]
    BY <1>0 DEF PreTyped
  <2>3. /\ task'[h].at = IF task[h].at = "build" THEN "send" ELSE "sendFirst"
        /\ task'[h].owners = task[h].owners /\ task'[h].to = task[h].to /\ task'[h].built = news
        /\ \A g \in Handler : g # h => task'[g] = task[g]
    BY <1>13, <2>2 DEF BuildsList, Task
  <2> TAKE c \in Browser
  <2>4. Carries(h, c) => Carries(h, c)'
    BY <1>0, <1>13, <2>1, <2>3 DEF Carries, WillLook, BuildsList, PreTyped
  <2> QED
    BY <1>0, <2>1, <2>3, <2>4, SameDebts DEF PreTyped
<1>14. ASSUME NEW h \in Handler, NEW b \in Browser, Sends(h, b) PROVE \A c \in Browser : Told(c)'
  <2>1. UNCHANGED <<watches, watchedAt, pushedAt, linkedTo>>
    BY <1>14 DEF Sends, undisturbed, world
  <2>2. task[h] \in Task
    BY <1>0 DEF PreTyped
  <2>3. /\ task[h].built \in Nat /\ builtAt' \in [Browser -> Nat]
        /\ \A c \in Browser : builtAt'[c] >= builtAt[c]
        /\ builtAt'[b] >= task[h].built
    BY <1>0, <1>14, <2>2 DEF Sends, Task, PreTyped
  <2> TAKE c \in Browser
  <2>4. Carries(h, c) => Carries(h, c)' \/ pushedAt <= builtAt'[c]
    <3>1. CASE c = b /\ task[h].at = "send" /\ pushedAt <= task[h].built
      BY <1>0, <2>3, <3>1 DEF PreTyped
    <3>2. CASE ~(c = b /\ task[h].at = "send" /\ pushedAt <= task[h].built)
      <4>1. task[h].at \in {"send", "sendFirst"}
        BY <1>14 DEF Sends
      <4>2. \/ /\ task'[h].at = task[h].at /\ task'[h].to = task[h].to \ {b}
               /\ task'[h].owners = task[h].owners /\ task'[h].built = task[h].built
            \/ task[h].at = "sendFirst" /\ task'[h].at = "owners"
            \/ /\ task[h].to = {b} /\ task[h].at = "send" /\ task'[h].at = "next"
               /\ task'[h].owners = task[h].owners
        BY <1>0, <1>14, ListSent
      <4> QED
        BY <2>1, <3>2, <4>1, <4>2 DEF Carries, WillLook
    <3> QED
      BY <3>1, <3>2
  <2> QED
    BY <1>0, <1>14, <2>1, <2>3, <2>4, ListSent, SameDebts
<1>15. CASE UNCHANGED preVars
  BY <1>15 DEF preVars, world, PreInv, Told, Carries, WillLook
<1> QED
  BY <1>1, <1>2, <1>3, <1>4, <1>5, <1>6, <1>7, <1>8, <1>9, <1>10, <1>11, <1>12, <1>13, <1>14, <1>15
     DEF PreNext, Continues

LEMMA PreInitially == PreInit => PreInv
<1> SUFFICES ASSUME PreInit PROVE PreInv
  OBVIOUS
<1>1. NoTask \in Task
  BY DEF NoTask, Task, At, PersonOrNobody
<1>2. PreTyped
  BY <1>1 DEF PreInit, PreTyped, PersonOrNobody
<1> QED
  BY <1>2 DEF PreInit, PreInv, Told

(* For any number of owners, connections and changes, and however the       *)
(* handlers that look for owners, for watchers and build lists overtake one *)
(* another: once all are done, whoever watched an owner of the device       *)
(* before its last change was sent a list that was built after the change.  *)
THEOREM ChangesAreTold == PreSpec => []ChangeIsTold
<1>1. PreInv => ChangeIsTold
  BY DEF PreInv, ChangeIsTold, Told, Quiet, Reading, Carries, WillLook
<1>2. PreInv /\ [PreNext]_preVars => PreInv'
  BY PreTypes, ToldStep DEF PreInv
<1> QED
  BY <1>1, <1>2, PreInitially, PTL DEF PreSpec
-----------------------------------------------------------------------------
(* Downloads: whose chunks a file is made of *)

List == [id : Nat, sizes : Seq(FileSize)]
Positive == Nat \ {0}
HostMessage ==
    [t : {"offer"}, list : List]
    \cup [t : {"start"}, id : Positive, size : Nat, fetch : Nat]
    \cup [t : {"chunk", "end", "abort"}, id : Positive]
BrowserMessage == [t : {"fetch"}, list : Nat, fetch : Nat] \cup [t : {"abort"}, id : Nat]

DlTyped ==
    /\ hostList \in List /\ (hostList # NoList => hostList.sizes # <<>>)
    /\ nextList \in Nat /\ nextFile \in Positive
    /\ sending \in [rest : Seq(FileSize), id : Nat, left : Nat, cancel : BOOLEAN, fetch : Nat]
    /\ (sending # NoSend /\ sending.id = 0) => sending.rest # <<>>
    /\ toHost \in Seq(BrowserMessage) /\ toBrowser \in Seq(HostMessage)
    /\ offer \in List /\ fetchSeq \in Nat /\ lastId \in Nat
    /\ incoming \in [id : Nat, size : Nat, got : Seq(Positive), fetch : Nat]

(* What is said of a transfer, and of which.                                *)
OfFile(m) == m.t # "offer"

Rising(q) ==
    \A i \in DOMAIN q, j \in DOMAIN q : i < j /\ OfFile(q[i]) /\ OfFile(q[j]) => q[i].id <= q[j].id

Numbered(q, least, most) ==
    \A i \in DOMAIN q : OfFile(q[i]) => least <= q[i].id /\ q[i].id <= most

EndIn(q, id) == \E i \in DOMAIN q : q[i].t = "end" /\ q[i].id = id

Newest == nextFile - 1

(* The transfers come one after the other, and the browser is at none that  *)
(* is later than what it has still to hear of.                              *)
OneByOne ==
    /\ sending.id \in {0, Newest} /\ incoming.id <= Newest
    /\ Rising(toBrowser) /\ Numbered(toBrowser, incoming.id, Newest)

(* A file that is still to end has got chunks of its own only.  One whose   *)
(* end was never sent may have got others.                                  *)
OwnChunks ==
    incoming.id # 0 /\ (sending.id = incoming.id \/ EndIn(toBrowser, incoming.id))
    => \A i \in DOMAIN incoming.got : incoming.got[i] = incoming.id

(* A file comes in for the latest request, while it is wanted.              *)
ForTheRequest == incoming # NoFileIn => Wanting /\ incoming.fetch = fetchSeq

DlInv == DlTyped /\ OneByOne /\ OwnChunks /\ ForTheRequest

USE DownloadsAssumption DEF DownloadsAssumption
-----------------------------------------------------------------------------
LEMMA MessageIds == \A m \in HostMessage : OfFile(m) => m.id \in Positive
BY DEF HostMessage, OfFile, Positive

LEMMA Chained ==
    ASSUME NEW q \in Seq(HostMessage), NEW r \in Seq(HostMessage), NEW a \in Nat, NEW b \in Nat, NEW c \in Nat,
           a <= b, b <= c, Rising(q), Rising(r), Numbered(q, a, b), Numbered(r, b, c)
    PROVE  /\ q \o r \in Seq(HostMessage) /\ Rising(q \o r) /\ Numbered(q \o r, a, c)
           /\ \A id : EndIn(q \o r, id) => EndIn(q, id) \/ EndIn(r, id)
<1> DEFINE s == q \o r
<1>1. /\ s \in Seq(HostMessage) /\ DOMAIN s = 1 .. Len(q) + Len(r) /\ DOMAIN q = 1 .. Len(q) /\ DOMAIN r = 1 .. Len(r)
      /\ Len(q) \in Nat /\ Len(r) \in Nat
      /\ \A i \in DOMAIN q : s[i] = q[i]
      /\ \A i \in DOMAIN s : i \notin DOMAIN q => i - Len(q) \in DOMAIN r /\ s[i] = r[i - Len(q)]
  OBVIOUS
<1>2. /\ \A i \in DOMAIN q : OfFile(q[i]) => q[i].id \in Nat
      /\ \A i \in DOMAIN r : OfFile(r[i]) => r[i].id \in Nat
  BY MessageIds DEF Positive
<1> HIDE DEF s
<1>3. Numbered(s, a, c)
  BY <1>1, <1>2 DEF Numbered
<1>4. ASSUME NEW i \in DOMAIN s, NEW j \in DOMAIN s, i < j, OfFile(s[i]), OfFile(s[j])
      PROVE  s[i].id <= s[j].id
  <2>1. CASE j \in DOMAIN q
    BY <1>1, <1>4, <2>1 DEF Rising
  <2>2. CASE i \in DOMAIN q /\ j \notin DOMAIN q
    <3>1. s[i].id <= b
      BY <1>1, <1>4, <2>2 DEF Numbered
    <3>2. b <= s[j].id
      BY <1>1, <1>4, <2>2 DEF Numbered
    <3> QED
      BY <1>1, <1>2, <1>4, <2>2, <3>1, <3>2
  <2>3. CASE i \notin DOMAIN q
    <3>1. j \notin DOMAIN q /\ i \in Nat /\ j \in Nat
      BY <1>1, <1>4, <2>3
    <3>2. i - Len(q) < j - Len(q)
      BY <1>1, <1>4, <3>1
    <3> QED
      BY <1>1, <1>4, <2>3, <3>1, <3>2 DEF Rising
  <2> QED
    BY <2>1, <2>2, <2>3
<1>5. Rising(s)
  BY <1>4 DEF Rising
<1>6. \A id : EndIn(s, id) => EndIn(q, id) \/ EndIn(r, id)
  BY <1>1 DEF EndIn
<1> QED
  BY <1>1, <1>3, <1>5, <1>6 DEF s

LEMMA Unchained ==
    ASSUME NEW q \in Seq(HostMessage), q # <<>>, NEW a \in Nat, NEW b \in Nat, Rising(q), Numbered(q, a, b)
    PROVE  /\ Tail(q) \in Seq(HostMessage) /\ Head(q) \in HostMessage
           /\ Rising(Tail(q)) /\ Numbered(Tail(q), a, b)
           /\ OfFile(Head(q)) => /\ a <= Head(q).id /\ Head(q).id <= b /\ Numbered(Tail(q), Head(q).id, b)
                                 /\ \A id : EndIn(Tail(q), id) => Head(q).id <= id
           /\ \A id : EndIn(Tail(q), id) => EndIn(q, id)
           /\ Head(q).t = "end" => EndIn(q, Head(q).id)
<1> DEFINE s == Tail(q)
<1>1. /\ s \in Seq(HostMessage) /\ Head(q) = q[1] /\ 1 \in DOMAIN q /\ q[1] \in HostMessage
      /\ DOMAIN q = 1 .. Len(q) /\ DOMAIN s = 1 .. Len(q) - 1 /\ Len(q) \in Nat /\ Len(q) # 0
      /\ \A i \in DOMAIN s : s[i] = q[i + 1]
  OBVIOUS
<1> HIDE DEF s
<1>2. \A i \in DOMAIN s : i + 1 \in DOMAIN q /\ s[i] = q[i + 1] /\ 1 < i + 1
  BY <1>1
<1>3. Numbered(s, a, b)
  BY <1>2 DEF Numbered
<1>4. Rising(s)
  <2> SUFFICES ASSUME NEW i \in DOMAIN s, NEW j \in DOMAIN s, i < j, OfFile(s[i]), OfFile(s[j])
               PROVE  s[i].id <= s[j].id
    BY DEF Rising
  <2>1. i + 1 < j + 1
    BY <1>1
  <2> QED
    BY <1>2, <2>1 DEF Rising
<1>5. OfFile(q[1]) => a <= q[1].id /\ q[1].id <= b /\ Numbered(s, q[1].id, b)
  <2> SUFFICES ASSUME OfFile(q[1]) PROVE a <= q[1].id /\ q[1].id <= b /\ Numbered(s, q[1].id, b)
    OBVIOUS
  <2>1. a <= q[1].id /\ q[1].id <= b
    BY <1>1 DEF Numbered
  <2>2. ASSUME NEW i \in DOMAIN s, OfFile(s[i]) PROVE q[1].id <= s[i].id /\ s[i].id <= b
    BY <1>1, <1>2, <2>2 DEF Numbered, Rising
  <2> QED
    BY <2>1, <2>2 DEF Numbered
<1>6. ASSUME NEW id, EndIn(s, id) PROVE EndIn(q, id) /\ (OfFile(q[1]) => q[1].id <= id)
  <2>1. PICK i \in DOMAIN s : s[i].t = "end" /\ s[i].id = id
    BY <1>6 DEF EndIn
  <2>2. EndIn(q, id)
    BY <1>2, <2>1 DEF EndIn
  <2>3. OfFile(s[i])
    BY <2>1 DEF OfFile
  <2> QED
    BY <1>5, <2>1, <2>2, <2>3 DEF Numbered
<1>7. q[1].t = "end" => EndIn(q, q[1].id)
  BY <1>1 DEF EndIn
<1> QED
  BY <1>1, <1>3, <1>4, <1>5, <1>6, <1>7 DEF s

LEMMA OneLess == \A a, b \in Int : a >= 1 /\ b >= a => a - 1 \in Nat /\ b - 1 \in Nat /\ a - 1 <= b - 1
OBVIOUS

(* The host says more: only of the newest transfer, or of the next.         *)
LEMMA HostTells ==
    ASSUME DlInv, NEW msgs \in Seq(HostMessage), Tells(msgs), Rising(msgs), UNCHANGED incoming,
           nextFile' \in Positive, nextFile' >= nextFile, Numbered(msgs, Newest, Newest'),
           sending'.id \in {0, Newest'},
           incoming.id # 0 /\ sending'.id = incoming.id => sending.id = incoming.id,
           \A id : EndIn(msgs, id) => id = sending.id
    PROVE  toBrowser' \in Seq(HostMessage) /\ OneByOne' /\ OwnChunks'
<1>1. incoming.id \in Nat /\ Newest \in Nat /\ Newest' \in Nat /\ Newest <= Newest' /\ incoming.id <= Newest
  <2>1. incoming.id \in Nat /\ nextFile \in Positive
    BY DEF DlInv, DlTyped
  <2>2. incoming.id <= Newest
    BY DEF DlInv, OneByOne
  <2>3. nextFile \in Int /\ nextFile >= 1 /\ nextFile' \in Int /\ nextFile' >= nextFile
    BY <2>1 DEF Positive
  <2>4. nextFile - 1 \in Nat /\ nextFile' - 1 \in Nat /\ nextFile - 1 <= nextFile' - 1
    BY <2>3, OneLess, Zenon
  <2>5. Newest \in Nat /\ Newest' \in Nat /\ Newest <= Newest'
    BY <2>4 DEF Newest
  <2> QED
    BY <2>1, <2>2, <2>5
<1>2. /\ toBrowser' \in Seq(HostMessage) /\ Rising(toBrowser)' /\ Numbered(toBrowser', incoming.id, Newest')
      /\ \A id : EndIn(toBrowser', id) => EndIn(toBrowser, id) \/ EndIn(msgs, id)
  BY <1>1, Chained DEF DlInv, DlTyped, OneByOne, Tells
<1>3. OneByOne'
  BY <1>1, <1>2 DEF OneByOne
<1>4. OwnChunks'
  BY <1>2 DEF DlInv, OwnChunks
<1> QED
  BY <1>2, <1>3, <1>4

(* Nothing is said, and the host's task goes no further than to its end.    *)
LEMMA HostSilent ==
    ASSUME DlInv, UNCHANGED <<nextFile, toBrowser, incoming>>, sending'.id \in {0, sending.id}
    PROVE  toBrowser' \in Seq(HostMessage) /\ OneByOne' /\ OwnChunks'
BY DEF DlInv, DlTyped, OneByOne, OwnChunks, Newest

(* The host's steps keep the order.                                         *)
LEMMA HostKeeps ==
    ASSUME DlInv, \/ \E sizes \in OfferSizes : Offers(sizes)
                  \/ Clears \/ HostHears \/ SendStep
    PROVE  toBrowser' \in Seq(HostMessage) /\ OneByOne' /\ OwnChunks' /\ ForTheRequest'
<1>0. DlTyped /\ OneByOne /\ OwnChunks /\ ForTheRequest
  BY DEF DlInv
<1>1. UNCHANGED <<browserVars>>
  BY DEF Offers, Clears, HostHears, HostFetch, HostAbort, SendStep, SendsStart, SendsChunk, SendsEnd, SendStops
<1>2. ForTheRequest'
  BY <1>0, <1>1 DEF ForTheRequest, browserVars, Wanting
<1>3. incoming' = incoming
  BY <1>1 DEF browserVars
<1>4. nextFile \in Positive /\ Newest \in Nat /\ sending.id \in {0, Newest} /\ incoming.id \in Nat /\ incoming.id <= Newest
  <2>1. nextFile \in Positive /\ incoming.id \in Nat
    BY <1>0 DEF DlTyped
  <2>2. sending.id \in {0, Newest} /\ incoming.id <= Newest
    BY <1>0 DEF OneByOne
  <2> QED
    BY <2>1, <2>2 DEF Newest, Positive
<1>5. ASSUME NEW list \in List, Tells(<<[t |-> "offer", list |-> list]>>), UNCHANGED <<nextFile, sending>>
      PROVE  toBrowser' \in Seq(HostMessage) /\ OneByOne' /\ OwnChunks'
  <2> DEFINE msgs == <<[t |-> "offer", list |-> list]>>
  <2>1. msgs \in Seq(HostMessage) /\ DOMAIN msgs = {1} /\ msgs[1].t = "offer"
    BY DEF HostMessage
  <2>2. Tells(msgs)
    BY <1>5
  <2> HIDE DEF msgs
  <2>3. Rising(msgs) /\ Numbered(msgs, Newest, Newest') /\ \A id : ~EndIn(msgs, id)
    BY <2>1 DEF Rising, Numbered, EndIn, OfFile
  <2> QED
    BY <1>3, <1>4, <1>5, <2>1, <2>2, <2>3, HostTells DEF Newest, Positive
<1>6. ASSUME NEW sizes \in OfferSizes, Offers(sizes) PROVE toBrowser' \in Seq(HostMessage) /\ OneByOne' /\ OwnChunks'
  <2>1. [id |-> nextList, sizes |-> sizes] \in List
    BY <1>0 DEF DlTyped, List
  <2> QED
    BY <1>5, <1>6, <2>1 DEF Offers
<1>7. CASE Clears
  <2>1. NoList \in List
    BY DEF NoList, List
  <2> QED
    BY <1>2, <1>5, <1>7, <2>1 DEF Clears
<1>8. CASE HostHears
  <2>1. sending'.id \in {0, sending.id}
    <3>1. CASE HostFetch
      BY <1>0, <3>1 DEF HostFetch
    <3>2. CASE HostAbort
      BY <1>0, <3>2 DEF HostAbort, DlTyped
    <3> QED
      BY <1>8, <3>1, <3>2 DEF HostHears
  <2>2. UNCHANGED <<nextFile, toBrowser>>
    BY <1>8 DEF HostHears, HostFetch, HostAbort
  <2> QED
    BY <1>2, <1>3, <2>1, <2>2, HostSilent
<1>9. CASE SendsStart
  <2> DEFINE Start(size) == [t |-> "start", id |-> nextFile, size |-> size, fetch |-> sending.fetch]
             stop == [t |-> "abort", id |-> nextFile]
  <2>1. sending.fetch \in Nat /\ nextFile' = nextFile + 1 /\ nextFile' \in Positive /\ Newest' = nextFile
    <3>1. sending.fetch \in Nat
      BY <1>0 DEF DlTyped
    <3>2. nextFile' = nextFile + 1
      BY <1>9 DEF SendsStart
    <3>3. nextFile' \in Positive /\ Newest' = nextFile
      BY <1>4, <3>2 DEF Positive, Newest
    <3> QED
      BY <3>1, <3>2, <3>3
  <2>2. ASSUME NEW size \in FileSize, Tells(<<Start(size)>>),
               sending' = [sending EXCEPT !.rest = Tail(sending.rest), !.id = nextFile, !.left = size]
        PROVE  toBrowser' \in Seq(HostMessage) /\ OneByOne' /\ OwnChunks'
    <3> DEFINE msgs == <<Start(size)>>
    <3>1. msgs \in Seq(HostMessage) /\ DOMAIN msgs = {1} /\ msgs[1].t = "start" /\ msgs[1].id = nextFile
      BY <1>4, <2>1 DEF HostMessage
    <3>2. Tells(msgs)
      BY <2>2
    <3>3. sending'.id = nextFile
      BY <1>0, <2>2 DEF DlTyped
    <3> HIDE DEF msgs
    <3>4. Rising(msgs) /\ Numbered(msgs, Newest, Newest') /\ \A id : ~EndIn(msgs, id)
      BY <1>4, <2>1, <3>1 DEF Rising, Numbered, EndIn, OfFile, Newest, Positive
    <3> QED
      BY <1>3, <1>4, <2>1, <3>1, <3>2, <3>3, <3>4, HostTells DEF Newest, Positive
  <2>3. ASSUME NEW size \in FileSize, Tells(<<Start(size), stop>>), sending'.id = 0
        PROVE  toBrowser' \in Seq(HostMessage) /\ OneByOne' /\ OwnChunks'
    <3> DEFINE msgs == <<Start(size), stop>>
    <3>1. /\ msgs \in Seq(HostMessage) /\ DOMAIN msgs = {1, 2} /\ msgs[1].t = "start" /\ msgs[1].id = nextFile
          /\ msgs[2].t = "abort" /\ msgs[2].id = nextFile
      BY <1>4, <2>1 DEF HostMessage
    <3>2. Tells(msgs)
      BY <2>3
    <3> HIDE DEF msgs
    <3>4. Rising(msgs) /\ Numbered(msgs, Newest, Newest') /\ \A id : ~EndIn(msgs, id)
      BY <1>4, <2>1, <3>1 DEF Rising, Numbered, EndIn, OfFile, Newest, Positive
    <3> QED
      BY <1>3, <1>4, <2>1, <2>3, <3>1, <3>2, <3>4, HostTells DEF Newest, Positive
  <2>4. Head(sending.rest) \in FileSize
    <3>1. sending.rest \in Seq(FileSize)
      BY <1>0 DEF DlTyped
    <3>2. sending.rest # <<>>
      BY <1>0, <1>9 DEF DlTyped, SendsStart
    <3> QED
      BY <3>1, <3>2
  <2>5. /\ Tells(<<Start(Head(sending.rest)), stop>>)
        /\ sending' = IF Tail(sending.rest) = <<>> THEN NoSend ELSE [sending EXCEPT !.rest = Tail(sending.rest)]
        => sending'.id = 0
    <3>1. sending.id = 0
      BY <1>9 DEF SendsStart
    <3>2. NoSend.id = 0 /\ \A rest : [sending EXCEPT !.rest = rest].id = 0
      BY <1>0, <3>1 DEF DlTyped, NoSend
    <3> QED
      BY <3>2
  <2> QED
    BY <1>2, <1>9, <2>2, <2>3, <2>4, <2>5 DEF SendsStart
<1>10. ASSUME NEW m \in HostMessage, m.t \in {"chunk", "end", "abort"}, m.id = sending.id, sending.id # 0,
              Tells(<<m>>), nextFile' = nextFile, sending'.id \in {0, sending.id}
       PROVE  toBrowser' \in Seq(HostMessage) /\ OneByOne' /\ OwnChunks'
  <2> DEFINE msgs == <<m>>
  <2>1. msgs \in Seq(HostMessage) /\ DOMAIN msgs = {1} /\ msgs[1] = m
    OBVIOUS
  <2>2. Tells(msgs) /\ Newest' = Newest
    BY <1>10 DEF Newest
  <2> HIDE DEF msgs
  <2>3. Rising(msgs) /\ Numbered(msgs, Newest, Newest')
    BY <1>4, <1>10, <2>1, <2>2 DEF Rising, Numbered
  <2>4. \A id : EndIn(msgs, id) => id = sending.id
    BY <1>10, <2>1 DEF EndIn
  <2>5. nextFile' \in Positive /\ nextFile' >= nextFile
    BY <1>4, <1>10 DEF Positive
  <2> QED
    BY <1>3, <1>4, <1>10, <2>1, <2>2, <2>3, <2>4, <2>5, HostTells
<1>11. CASE SendsChunk \/ SendsEnd
  <2>1. sending.id \in Positive
    BY <1>4, <1>11 DEF SendsChunk, SendsEnd, Positive
  <2>2. \A t \in {"chunk", "end", "abort"} : [t |-> t, id |-> sending.id] \in HostMessage
    BY <2>1 DEF HostMessage
  <2>3. sending'.id \in {0, sending.id}
    <3>1. /\ NoSend.id = 0 /\ [sending EXCEPT !.id = 0].id = 0
          /\ [sending EXCEPT !.left = sending.left - 1].id = sending.id
      BY <1>0 DEF DlTyped, NoSend
    <3>2. FileEnds => sending'.id = 0
      BY <3>1 DEF FileEnds
    <3>3. FileEnds \/ sending' = [sending EXCEPT !.left = sending.left - 1]
      BY <1>11 DEF SendsChunk, SendsEnd
    <3> QED
      BY <3>1, <3>2, <3>3
  <2> QED
    BY <1>2, <1>10, <1>11, <2>1, <2>2, <2>3 DEF SendsChunk, SendsEnd, Positive
<1>12. CASE SendStops
  <2>1. sending'.id = 0 /\ UNCHANGED <<nextFile, toBrowser>>
    BY <1>12 DEF SendStops, NoSend
  <2> QED
    BY <1>2, <1>3, <2>1, HostSilent
<1> QED
  BY <1>2, <1>6, <1>7, <1>8, <1>9, <1>11, <1>12 DEF SendStep

(* The browser has no file any more: nothing is claimed of it.              *)
LEMMA FileGone ==
    ASSUME DlInv, incoming' = NoFileIn, sending'.id \in {0, sending.id}, nextFile' = nextFile,
           \/ toBrowser' = toBrowser \/ toBrowser' = <<>>
           \/ toBrowser # <<>> /\ toBrowser' = Tail(toBrowser)
    PROVE  toBrowser' \in Seq(HostMessage) /\ OneByOne' /\ OwnChunks' /\ ForTheRequest'
<1>1. NoFileIn.id = 0 /\ incoming.id \in Nat /\ toBrowser \in Seq(HostMessage)
  BY DEF NoFileIn, DlInv, DlTyped
<1>2. /\ Rising(toBrowser) /\ Numbered(toBrowser, incoming.id, Newest) /\ sending'.id \in {0, Newest}
      /\ incoming.id <= Newest /\ Newest' = Newest
  BY DEF DlInv, OneByOne, Newest
<1>3. Newest \in Int
  BY DEF Newest, DlInv, DlTyped, Positive
<1>4. toBrowser' \in Seq(HostMessage) /\ Rising(toBrowser') /\ Numbered(toBrowser', incoming.id, Newest)
  <2>1. CASE toBrowser' = toBrowser
    BY <1>1, <1>2, <2>1
  <2>2. CASE toBrowser' = <<>>
    BY <2>2 DEF Rising, Numbered
  <2>3. CASE toBrowser # <<>> /\ toBrowser' = Tail(toBrowser)
    <3>1. Newest \in Nat
      BY <1>1, <1>2, <1>3
    <3> QED
      BY <1>1, <1>2, <2>3, <3>1, Unchained
  <2> QED
    BY <2>1, <2>2, <2>3
<1>5. Numbered(toBrowser', 0, Newest)
  <2>1. \A i \in DOMAIN toBrowser' : OfFile(toBrowser'[i]) => toBrowser'[i].id \in Nat
    BY <1>4, MessageIds DEF Positive
  <2> QED
    BY <1>4, <2>1 DEF Numbered
<1> QED
  BY <1>1, <1>2, <1>3, <1>4, <1>5 DEF OneByOne, OwnChunks, ForTheRequest

(* The browser goes on with the file it has.                                *)
LEMMA FileStays ==
    ASSUME DlInv, UNCHANGED <<incoming, sending, nextFile, wanted, fetchSeq>>,
           \/ toBrowser' = toBrowser
           \/ toBrowser # <<>> /\ toBrowser' = Tail(toBrowser)
    PROVE  toBrowser' \in Seq(HostMessage) /\ OneByOne' /\ OwnChunks' /\ ForTheRequest'
<1>1. incoming.id \in Nat /\ toBrowser \in Seq(HostMessage)
  BY DEF DlInv, DlTyped
<1>2. /\ Rising(toBrowser) /\ Numbered(toBrowser, incoming.id, Newest) /\ sending'.id \in {0, Newest}
      /\ incoming.id <= Newest /\ Newest' = Newest
  BY DEF DlInv, OneByOne, Newest
<1>3. Newest \in Nat
  <2>1. Newest \in Int
    BY DEF Newest, DlInv, DlTyped, Positive
  <2> QED
    BY <1>1, <1>2, <2>1
<1>4. /\ toBrowser' \in Seq(HostMessage) /\ Rising(toBrowser') /\ Numbered(toBrowser', incoming.id, Newest)
      /\ \A id : EndIn(toBrowser', id) => EndIn(toBrowser, id)
  BY <1>1, <1>2, <1>3, Unchained
<1>5. OneByOne'
  BY <1>2, <1>4 DEF OneByOne
<1>6. OwnChunks'
  BY <1>4 DEF OwnChunks, DlInv
<1>7. ForTheRequest'
  BY DEF ForTheRequest, DlInv, Wanting
<1> QED
  BY <1>4, <1>5, <1>6, <1>7

(* A file that ends well is whole, and of the latest request.               *)
LEMMA EndsWell ==
    ASSUME DlInv, BrowserEnd, handed' # handed
    PROVE  /\ handed'.fetch = fetchSeq /\ Len(handed'.got) = handed'.size
           /\ \A i \in DOMAIN handed'.got : handed'.got[i] = handed'.id
<1>1. /\ toBrowser # <<>> /\ Head(toBrowser).t = "end" /\ handed' = incoming
      /\ incoming.id = Head(toBrowser).id /\ Len(incoming.got) = incoming.size
  BY DEF BrowserEnd, BrowserTakes
<1>2. toBrowser \in Seq(HostMessage)
  BY DEF DlInv, DlTyped
<1>3. Head(toBrowser) \in HostMessage /\ EndIn(toBrowser, incoming.id)
  <2>1. Head(toBrowser) = toBrowser[1] /\ 1 \in DOMAIN toBrowser /\ toBrowser[1] \in HostMessage
    BY <1>1, <1>2
  <2> QED
    BY <1>1, <2>1 DEF EndIn
<1>4. incoming.id \in Positive
  BY <1>1, <1>3, MessageIds DEF OfFile
<1>5. incoming.id # 0 /\ incoming # NoFileIn
  BY <1>4 DEF Positive, NoFileIn
<1> QED
  BY <1>1, <1>3, <1>5 DEF DlInv, OwnChunks, ForTheRequest

(* The browser's steps keep the order.                                      *)
LEMMA BrowserKeeps ==
    ASSUME DlInv, BrowserHears \/ Fetch \/ Cancel \/ ChannelCloses
    PROVE  toBrowser' \in Seq(HostMessage) /\ OneByOne' /\ OwnChunks' /\ ForTheRequest'
<1> DEFINE Goal == toBrowser' \in Seq(HostMessage) /\ OneByOne' /\ OwnChunks' /\ ForTheRequest'
<1>0. DlTyped /\ OneByOne /\ OwnChunks /\ ForTheRequest
  BY DEF DlInv
<1>1. CASE Fetch
  <2>1. incoming' = NoFileIn
    BY <1>0, <1>1 DEF Fetch, ForTheRequest
  <2> QED
    BY <1>1, <2>1, FileGone DEF Fetch, hostVars
<1>2. CASE Cancel
  BY <1>2, FileGone DEF Cancel, hostVars, AbortsDownload, Finishes
<1>3. CASE ChannelCloses
  <2>1. sending'.id = 0
    BY <1>3 DEF ChannelCloses, NoSend
  <2> QED
    BY <1>3, <2>1, FileGone DEF ChannelCloses, Finishes
<1>4. ASSUME NEW t, BrowserTakes(t)
      PROVE  /\ toBrowser # <<>> /\ toBrowser' = Tail(toBrowser) /\ Head(toBrowser).t = t
             /\ UNCHANGED <<nextFile, sending, fetchSeq>>
  BY <1>4 DEF BrowserTakes, hostVars
<1>5. CASE BrowserOffer
  BY <1>4, <1>5, FileStays DEF BrowserOffer
<1>6. CASE BrowserStart
  <2> DEFINE m == Head(toBrowser)
  <2>1. BrowserTakes("start")
    BY <1>6 DEF BrowserStart
  <2>2. CASE ~Belongs(m)
    <3>1. UNCHANGED <<wanted, incoming>>
      BY <1>6, <2>2 DEF BrowserStart
    <3> QED
      BY <1>4, <2>1, <3>1, FileStays
  <2>3. CASE Belongs(m) /\ m.size > wanted.budget
    <3>1. incoming' = NoFileIn
      BY <1>6, <2>3 DEF BrowserStart, AbortsDownload, Finishes
    <3> QED
      BY <1>4, <2>1, <3>1, FileGone
  <2>4. CASE Belongs(m) /\ ~(m.size > wanted.budget)
    <3>1. /\ incoming' = [id |-> m.id, size |-> m.size, got |-> <<>>, fetch |-> m.fetch]
          /\ wanted' = wanted
      BY <1>6, <2>4 DEF BrowserStart
    <3>2. ForTheRequest'
      BY <1>4, <2>1, <2>4, <3>1 DEF Belongs, ForTheRequest, Wanting
    <3>3. OwnChunks'
      BY <3>1 DEF OwnChunks
    <3>4. Newest \in Nat /\ incoming.id \in Nat /\ toBrowser \in Seq(HostMessage)
      <4>1. nextFile \in Positive /\ incoming.id \in Nat /\ toBrowser \in Seq(HostMessage)
        BY <1>0 DEF DlTyped
      <4> QED
        BY <4>1 DEF Newest, Positive
    <3>5. Rising(toBrowser) /\ Numbered(toBrowser, incoming.id, Newest) /\ sending.id \in {0, Newest}
      BY <1>0 DEF OneByOne
    <3>6. OfFile(m)
      BY <1>4, <2>1 DEF OfFile
    <3>7. /\ toBrowser' \in Seq(HostMessage) /\ Rising(toBrowser')
          /\ m.id <= Newest /\ Numbered(toBrowser', m.id, Newest)
      <4>1. toBrowser # <<>> /\ toBrowser' = Tail(toBrowser)
        BY <1>4, <2>1
      <4>2. /\ Tail(toBrowser) \in Seq(HostMessage) /\ m \in HostMessage
            /\ Rising(Tail(toBrowser)) /\ Numbered(Tail(toBrowser), incoming.id, Newest)
            /\ OfFile(m) => /\ incoming.id <= m.id /\ m.id <= Newest /\ Numbered(Tail(toBrowser), m.id, Newest)
                            /\ \A id : EndIn(Tail(toBrowser), id) => m.id <= id
            /\ \A id : EndIn(Tail(toBrowser), id) => EndIn(toBrowser, id)
        BY <3>4, <3>5, <4>1, Unchained
      <4> HIDE DEF m
      <4> QED
        BY <3>6, <4>1, <4>2
    <3>8. OneByOne'
      BY <1>4, <2>1, <3>1, <3>5, <3>7 DEF OneByOne, Newest
    <3> QED
      BY <3>2, <3>3, <3>7, <3>8
  <2> QED
    BY <2>2, <2>3, <2>4
<1>7. CASE BrowserChunk
  <2> DEFINE m == Head(toBrowser)
  <2>1. BrowserTakes("chunk")
    BY <1>7 DEF BrowserChunk
  <2>2. CASE incoming = NoFileIn \/ cancelled
    <3>1. UNCHANGED <<wanted, incoming>>
      BY <1>7, <2>2 DEF BrowserChunk
    <3> QED
      BY <1>4, <2>1, <3>1, FileStays
  <2>3. CASE ~(incoming = NoFileIn \/ cancelled) /\ Len(incoming.got) = incoming.size
    <3>1. incoming' = NoFileIn
      BY <1>7, <2>3 DEF BrowserChunk, AbortsDownload, Finishes
    <3> QED
      BY <1>4, <2>1, <3>1, FileGone
  <2>4. CASE ~(incoming = NoFileIn \/ cancelled) /\ Len(incoming.got) # incoming.size
    <3>1. incoming' = [incoming EXCEPT !.got = Append(@, m.id)] /\ wanted' = wanted
      BY <1>7, <2>4 DEF BrowserChunk
    <3>2. incoming'.id = incoming.id /\ incoming'.fetch = incoming.fetch /\ incoming'.got = Append(incoming.got, m.id)
      BY <1>0, <3>1 DEF DlTyped
    <3>3. ForTheRequest'
      BY <1>0, <1>4, <2>1, <2>4, <3>1, <3>2 DEF ForTheRequest, Wanting
    <3>4. Newest \in Nat /\ incoming.id \in Nat /\ toBrowser \in Seq(HostMessage) /\ incoming.got \in Seq(Positive)
      <4>1. nextFile \in Positive /\ incoming.id \in Nat /\ toBrowser \in Seq(HostMessage) /\ incoming.got \in Seq(Positive)
        BY <1>0 DEF DlTyped
      <4> QED
        BY <4>1 DEF Newest, Positive
    <3>5. Rising(toBrowser) /\ Numbered(toBrowser, incoming.id, Newest) /\ sending.id \in {0, Newest} /\ incoming.id <= Newest
      BY <1>0 DEF OneByOne
    <3>6. OfFile(m)
      BY <1>4, <2>1 DEF OfFile
    <3>7. /\ toBrowser' \in Seq(HostMessage) /\ Rising(toBrowser') /\ m \in HostMessage
          /\ incoming.id <= m.id /\ m.id <= Newest /\ Numbered(toBrowser', incoming.id, Newest)
          /\ \A id : EndIn(toBrowser', id) => EndIn(toBrowser, id) /\ m.id <= id
      <4>1. toBrowser # <<>> /\ toBrowser' = Tail(toBrowser)
        BY <1>4, <2>1
      <4>2. /\ Tail(toBrowser) \in Seq(HostMessage) /\ m \in HostMessage
            /\ Rising(Tail(toBrowser)) /\ Numbered(Tail(toBrowser), incoming.id, Newest)
            /\ OfFile(m) => /\ incoming.id <= m.id /\ m.id <= Newest /\ Numbered(Tail(toBrowser), m.id, Newest)
                            /\ \A id : EndIn(Tail(toBrowser), id) => m.id <= id
            /\ \A id : EndIn(Tail(toBrowser), id) => EndIn(toBrowser, id)
        BY <3>4, <3>5, <4>1, Unchained
      <4> HIDE DEF m
      <4> QED
        BY <3>6, <4>1, <4>2
    <3>8. OneByOne'
      BY <1>4, <2>1, <3>2, <3>5, <3>7 DEF OneByOne, Newest
    <3>9. OwnChunks'
      <4> SUFFICES ASSUME incoming.id # 0, sending.id = incoming.id \/ EndIn(toBrowser', incoming.id)
                   PROVE  \A i \in DOMAIN incoming'.got : incoming'.got[i] = incoming.id
        BY <1>4, <2>1, <3>2 DEF OwnChunks
      <4>1. \A i \in DOMAIN incoming.got : incoming.got[i] = incoming.id
        BY <1>0, <3>7 DEF OwnChunks
      <4>2. m.id <= incoming.id
        BY <3>5, <3>7
      <4>3. m.id = incoming.id
        BY <3>4, <3>6, <3>7, <4>2, MessageIds DEF Positive
      <4>4. m.id \in Positive
        BY <3>6, <3>7, MessageIds
      <4> QED
        BY <3>2, <3>4, <4>1, <4>3, <4>4
    <3> QED
      BY <3>3, <3>7, <3>8, <3>9
  <2> QED
    BY <2>2, <2>3, <2>4
<1>8. CASE BrowserEnd
  <2>1. BrowserTakes("end")
    BY <1>8 DEF BrowserEnd
  <2>2. CASE UNCHANGED <<wanted, incoming>>
    BY <1>4, <2>1, <2>2, FileStays
  <2>3. CASE incoming' = NoFileIn
    BY <1>4, <2>1, <2>3, FileGone
  <2> QED
    BY <1>8, <2>2, <2>3 DEF BrowserEnd, AbortsDownload, FileOver, Finishes
<1>9. CASE BrowserAbort
  <2>1. BrowserTakes("abort")
    BY <1>9 DEF BrowserAbort
  <2>2. CASE UNCHANGED <<wanted, incoming>>
    BY <1>4, <2>1, <2>2, FileStays
  <2>3. CASE incoming' = NoFileIn
    BY <1>4, <2>1, <2>3, FileGone
  <2> QED
    BY <1>9, <2>2, <2>3 DEF BrowserAbort, FileOver, Finishes
<1> QED
  BY <1>1, <1>2, <1>3, <1>5, <1>6, <1>7, <1>8, <1>9 DEF BrowserHears

(* What the browser keeps of a file is typed.                               *)
LEMMA FileTyped ==
    ASSUME DlInv, BrowserHears
    PROVE  incoming' \in [id : Nat, size : Nat, got : Seq(Positive), fetch : Nat] /\ lastId' \in Nat
<1> DEFINE File == [id : Nat, size : Nat, got : Seq(Positive), fetch : Nat]
<1>1. incoming \in File /\ lastId \in Nat /\ toBrowser \in Seq(HostMessage)
  BY DEF DlInv, DlTyped
<1>2. NoFileIn \in File
  BY DEF NoFileIn
<1>3. toBrowser # <<>> => Head(toBrowser) \in HostMessage
  BY <1>1
<1>4. CASE BrowserOffer \/ BrowserEnd \/ BrowserAbort
  <2>1. lastId' = lastId /\ incoming' \in {incoming, NoFileIn}
    BY <1>4 DEF BrowserOffer, BrowserEnd, BrowserAbort, AbortsDownload, FileOver, Finishes
  <2> QED
    BY <1>1, <1>2, <2>1
<1>5. CASE BrowserStart
  <2> DEFINE m == Head(toBrowser)
  <2>1. m \in HostMessage /\ m.t = "start"
    BY <1>3, <1>5 DEF BrowserStart, BrowserTakes
  <2>2. m.id \in Nat /\ m.size \in Nat /\ m.fetch \in Nat
    BY <2>1 DEF HostMessage, Positive
  <2>3. lastId' \in {lastId, m.id}
    BY <1>5 DEF BrowserStart
  <2>4. incoming' \in {incoming, NoFileIn, [id |-> m.id, size |-> m.size, got |-> <<>>, fetch |-> m.fetch]}
    BY <1>5 DEF BrowserStart, AbortsDownload, Finishes
  <2> HIDE DEF m
  <2>5. [id |-> m.id, size |-> m.size, got |-> <<>>, fetch |-> m.fetch] \in File
    BY <2>2
  <2> QED
    BY <1>1, <1>2, <2>2, <2>3, <2>4, <2>5
<1>6. CASE BrowserChunk
  <2> DEFINE m == Head(toBrowser)
  <2>1. m \in HostMessage /\ m.t = "chunk"
    BY <1>3, <1>6 DEF BrowserChunk, BrowserTakes
  <2>2. m.id \in Positive
    BY <2>1, MessageIds DEF OfFile
  <2>3. lastId' = lastId /\ incoming' \in {incoming, NoFileIn, [incoming EXCEPT !.got = Append(incoming.got, m.id)]}
    BY <1>6 DEF BrowserChunk, AbortsDownload, Finishes
  <2>4. Append(incoming.got, m.id) \in Seq(Positive)
    BY <1>1, <2>2
  <2> DEFINE more == Append(incoming.got, m.id)
  <2> HIDE DEF more, m
  <2>5. [incoming EXCEPT !.got = more] \in File
    BY <1>1, <2>4 DEF more
  <2> QED
    BY <1>1, <1>2, <2>3, <2>5 DEF more
<1> QED
  BY <1>4, <1>5, <1>6 DEF BrowserHears

LEMMA DlTypes ==
    ASSUME DlInv, DlNext, toBrowser' \in Seq(HostMessage)
    PROVE  DlTyped'
<1> DEFINE Sending == [rest : Seq(FileSize), id : Nat, left : Nat, cancel : BOOLEAN, fetch : Nat]
<1>0. DlTyped
  BY DEF DlInv
<1>1. NoSend \in Sending /\ NoList \in List /\ NoList.sizes = <<>>
      /\ NoFileIn \in [id : Nat, size : Nat, got : Seq(Positive), fetch : Nat]
  BY DEF NoSend, NoList, List, NoFileIn
<1>2. /\ sending \in Sending /\ nextFile \in Positive /\ nextList \in Nat /\ toHost \in Seq(BrowserMessage)
      /\ toHost # <<>> => Tail(toHost) \in Seq(BrowserMessage) /\ Head(toHost) \in BrowserMessage
      /\ (sending # NoSend /\ sending.id = 0) => sending.rest # <<>>
      /\ hostList \in List /\ (hostList # NoList => hostList.sizes # <<>>)
  BY <1>0 DEF DlTyped
<1>3. ASSUME NEW sizes \in OfferSizes, Offers(sizes) PROVE DlTyped'
  <2>1. hostList' = [id |-> nextList, sizes |-> sizes] /\ sizes \in Seq(FileSize) /\ sizes # <<>>
    BY <1>3 DEF Offers
  <2>2. hostList' \in List /\ hostList'.sizes # <<>> /\ nextList' \in Nat
    BY <1>2, <1>3, <2>1 DEF List, Offers
  <2> QED
    BY <1>0, <1>3, <2>2 DEF DlTyped, Offers, browserVars
<1>4. CASE Clears
  BY <1>0, <1>1, <1>2, <1>4 DEF DlTyped, Clears, browserVars
<1>5. CASE HostHears
  <2>1. toHost' \in Seq(BrowserMessage)
    BY <1>2, <1>5 DEF HostHears, HostFetch, HostAbort, HostTakes
  <2>2. sending' \in Sending /\ (sending' # NoSend /\ sending'.id = 0 => sending'.rest # <<>>)
    <3>1. CASE HostFetch
      <4> DEFINE m == Head(toHost)
      <4>1. m \in BrowserMessage /\ m.t = "fetch"
        BY <1>2, <3>1 DEF HostFetch, HostTakes
      <4>2. m.fetch \in Nat
        BY <4>1 DEF BrowserMessage
      <4>3. \/ sending' = sending
            \/ /\ hostList # NoList
               /\ sending' = [rest |-> hostList.sizes, id |-> 0, left |-> 0, cancel |-> FALSE, fetch |-> m.fetch]
        BY <3>1 DEF HostFetch
      <4> HIDE DEF m
      <4>4. hostList.sizes \in Seq(FileSize)
        BY <1>2 DEF List
      <4>5. ASSUME hostList # NoList,
                   sending' = [rest |-> hostList.sizes, id |-> 0, left |-> 0, cancel |-> FALSE, fetch |-> m.fetch]
            PROVE  sending' \in Sending /\ sending'.rest # <<>>
        <5>1. sending'.rest = hostList.sizes
          BY <4>5
        <5>2. hostList.sizes # <<>>
          BY <1>2, <4>5
        <5>3. sending' \in Sending
          BY <4>2, <4>4, <4>5
        <5> QED
          BY <5>1, <5>2, <5>3
      <4> QED
        BY <1>2, <4>3, <4>5
    <3>2. CASE HostAbort
      <4>1. sending' = IF sending = NoSend THEN sending ELSE [sending EXCEPT !.cancel = TRUE]
        BY <3>2 DEF HostAbort
      <4>2. /\ [sending EXCEPT !.cancel = TRUE] \in Sending
            /\ [sending EXCEPT !.cancel = TRUE].id = sending.id /\ [sending EXCEPT !.cancel = TRUE].rest = sending.rest
        BY <1>2
      <4> QED
        BY <1>2, <4>1, <4>2
    <3> QED
      BY <1>5, <3>1, <3>2 DEF HostHears
  <2>3. UNCHANGED <<hostList, nextList, nextFile, browserVars>>
    BY <1>5 DEF HostHears, HostFetch, HostAbort
  <2> QED
    BY <1>0, <2>1, <2>2, <2>3 DEF DlTyped, browserVars
<1>6. CASE SendStep
  <2>1. UNCHANGED <<hostList, nextList, toHost, browserVars>>
    BY <1>6 DEF SendStep, SendsStart, SendsChunk, SendsEnd, SendStops
  <2>2. FileEnds /\ sending # NoSend => sending' \in Sending /\ (sending' # NoSend /\ sending'.id = 0 => sending'.rest # <<>>)
    <3>1. [sending EXCEPT !.id = 0] \in Sending /\ [sending EXCEPT !.id = 0].rest = sending.rest
      BY <1>2
    <3> QED
      BY <1>1, <3>1 DEF FileEnds
  <2>3. sending.id # 0 => sending # NoSend
    BY DEF NoSend
  <2>4. CASE SendsStart
    <3> DEFINE rest == Tail(sending.rest)
    <3>1. sending.rest \in Seq(FileSize) /\ sending.rest # <<>> /\ nextFile' = nextFile + 1
      BY <1>2, <2>4 DEF SendsStart
    <3>2. rest \in Seq(FileSize) /\ nextFile' \in Positive /\ nextFile \in Nat /\ nextFile # 0
      BY <1>2, <3>1 DEF Positive
    <3>3. \/ \E size \in FileSize : sending' = [sending EXCEPT !.rest = rest, !.id = nextFile, !.left = size]
          \/ sending' = IF rest = <<>> THEN NoSend ELSE [sending EXCEPT !.rest = rest]
      BY <2>4 DEF SendsStart
    <3> HIDE DEF rest
    <3>4. ASSUME NEW size \in FileSize, sending' = [sending EXCEPT !.rest = rest, !.id = nextFile, !.left = size]
          PROVE  sending' \in Sending /\ sending'.id # 0
      BY <1>2, <3>2, <3>4
    <3>5. ASSUME sending' = IF rest = <<>> THEN NoSend ELSE [sending EXCEPT !.rest = rest]
          PROVE  sending' \in Sending /\ (sending' # NoSend => sending'.rest # <<>>)
      <4>1. [sending EXCEPT !.rest = rest] \in Sending /\ [sending EXCEPT !.rest = rest].rest = rest
        BY <1>2, <3>2
      <4> QED
        BY <1>1, <3>5, <4>1
    <3> QED
      BY <1>0, <2>1, <3>2, <3>3, <3>4, <3>5 DEF DlTyped, browserVars
  <2>5. CASE SendsChunk
    <3>1. sending.left \in Nat /\ sending.left > 0 /\ nextFile' = nextFile
      BY <1>2, <2>5 DEF SendsChunk
    <3>2. [sending EXCEPT !.left = @ - 1] \in Sending /\ [sending EXCEPT !.left = @ - 1].id = sending.id
      <4>1. sending.left - 1 \in Nat
        BY <3>1
      <4> QED
        BY <1>2, <4>1
    <3>3. sending' = [sending EXCEPT !.left = @ - 1] \/ FileEnds
      BY <2>5 DEF SendsChunk
    <3>4. sending.id # 0
      BY <2>5 DEF SendsChunk
    <3>5. sending' \in Sending /\ (sending' # NoSend /\ sending'.id = 0 => sending'.rest # <<>>)
      BY <2>2, <2>3, <3>2, <3>3, <3>4
    <3> QED
      BY <1>0, <2>1, <3>1, <3>5 DEF DlTyped, browserVars
  <2>6. CASE SendsEnd
    <3>1. sending' \in Sending /\ (sending' # NoSend /\ sending'.id = 0 => sending'.rest # <<>>) /\ nextFile' = nextFile
      BY <2>2, <2>3, <2>6 DEF SendsEnd
    <3> QED
      BY <1>0, <2>1, <3>1 DEF DlTyped, browserVars
  <2>7. CASE SendStops
    <3>1. sending' = NoSend /\ nextFile' = nextFile
      BY <2>7 DEF SendStops
    <3> QED
      BY <1>0, <1>1, <2>1, <3>1 DEF DlTyped, browserVars
  <2> QED
    BY <1>6, <2>4, <2>5, <2>6, <2>7 DEF SendStep
<1>7. ASSUME NEW id \in Nat, toHost' = Append(toHost, [t |-> "abort", id |-> id])
      PROVE  toHost' \in Seq(BrowserMessage)
  <2>1. [t |-> "abort", id |-> id] \in BrowserMessage
    BY DEF BrowserMessage
  <2> QED
    BY <1>2, <1>7, <2>1
<1>8. CASE Fetch
  <2>1. toHost' \in Seq(BrowserMessage) /\ fetchSeq' \in Nat
    <3>1. UNCHANGED <<toHost, fetchSeq>> \/ /\ fetchSeq' = fetchSeq + 1
                                            /\ toHost' = Append(toHost, [t |-> "fetch", list |-> offer.id, fetch |-> fetchSeq'])
      BY <1>8 DEF Fetch
    <3>2. offer.id \in Nat /\ fetchSeq \in Nat
      BY <1>0 DEF DlTyped, List
    <3>3. ASSUME fetchSeq' = fetchSeq + 1
          PROVE  [t |-> "fetch", list |-> offer.id, fetch |-> fetchSeq'] \in BrowserMessage
      BY <3>2, <3>3 DEF BrowserMessage
    <3>4. fetchSeq' = fetchSeq + 1 => fetchSeq' \in Nat
      BY <3>2
    <3>5. fetchSeq' \in Nat
      BY <3>1, <3>2, <3>4
    <3>6. ASSUME fetchSeq' = fetchSeq + 1, toHost' = Append(toHost, [t |-> "fetch", list |-> offer.id, fetch |-> fetchSeq'])
          PROVE  toHost' \in Seq(BrowserMessage)
      <4> DEFINE m == [t |-> "fetch", list |-> offer.id, fetch |-> fetchSeq']
      <4>1. m \in BrowserMessage /\ toHost' = Append(toHost, m)
        BY <3>3, <3>6
      <4> HIDE DEF m
      <4> QED
        BY <1>2, <4>1
    <3> QED
      BY <1>2, <3>1, <3>5, <3>6
  <2> QED
    BY <1>0, <1>8, <2>1 DEF DlTyped, Fetch, hostVars
<1>9. CASE Cancel
  <2>1. IF incoming = NoFileIn THEN lastId \in Nat ELSE incoming.id \in Nat
    BY <1>0 DEF DlTyped
  <2>2. toHost' \in Seq(BrowserMessage)
    BY <1>7, <1>9, <2>1 DEF Cancel, AbortsDownload
  <2>3. incoming' = NoFileIn
    BY <1>9 DEF Cancel, AbortsDownload, Finishes
  <2> QED
    BY <1>0, <1>1, <1>9, <2>2, <2>3 DEF DlTyped, Cancel, hostVars
<1>10. CASE ChannelCloses
  BY <1>0, <1>1, <1>10 DEF DlTyped, ChannelCloses, Finishes
<1>11. CASE BrowserHears
  <2>1. UNCHANGED <<hostVars, fetchSeq>> /\ toBrowser # <<>>
    BY <1>11 DEF BrowserHears, BrowserOffer, BrowserStart, BrowserChunk, BrowserEnd, BrowserAbort, BrowserTakes
  <2>2. Head(toBrowser) \in HostMessage /\ incoming.id \in Nat
    BY <1>0, <2>1 DEF DlTyped
  <2>3. offer' \in List
    <3>1. CASE BrowserOffer
      <4>1. Head(toBrowser).t = "offer" /\ offer' = Head(toBrowser).list
        BY <3>1 DEF BrowserOffer, BrowserTakes
      <4> QED
        BY <2>2, <4>1 DEF HostMessage
    <3>2. CASE ~BrowserOffer
      BY <1>0, <1>11, <3>2 DEF BrowserHears, BrowserStart, BrowserChunk, BrowserEnd, BrowserAbort, DlTyped
    <3> QED
      BY <3>1, <3>2
  <2>4. toHost' \in Seq(BrowserMessage)
    <3>1. Head(toBrowser).t = "start" => Head(toBrowser).id \in Nat
      BY <2>2, MessageIds DEF OfFile, Positive
    <3>2. CASE UNCHANGED toHost
      BY <1>2, <3>2
    <3>3. CASE AbortsDownload(incoming.id)
      BY <1>7, <2>2, <3>3 DEF AbortsDownload
    <3>4. CASE BrowserStart /\ AbortsDownload(Head(toBrowser).id)
      BY <1>7, <3>1, <3>4 DEF BrowserStart, BrowserTakes, AbortsDownload
    <3> QED
      BY <1>11, <3>2, <3>3, <3>4 DEF BrowserHears, BrowserOffer, BrowserStart, BrowserChunk, BrowserEnd, BrowserAbort
  <2> QED
    BY <1>0, <1>11, <2>1, <2>3, <2>4, FileTyped DEF DlTyped, hostVars
<1> QED
  BY <1>3, <1>4, <1>5, <1>6, <1>8, <1>9, <1>10, <1>11 DEF DlNext, SendStep
-----------------------------------------------------------------------------
LEMMA DlStep == DlInv /\ [DlNext]_dlVars => DlInv'
<1> SUFFICES ASSUME DlInv, [DlNext]_dlVars PROVE DlInv'
  OBVIOUS
<1>1. CASE DlNext
  <2>1. toBrowser' \in Seq(HostMessage) /\ OneByOne' /\ OwnChunks' /\ ForTheRequest'
    BY <1>1, HostKeeps, BrowserKeeps DEF DlNext
  <2> QED
    BY <1>1, <2>1, DlTypes DEF DlInv
<1>2. CASE UNCHANGED dlVars
  BY <1>2 DEF dlVars, hostVars, browserVars, DlInv, DlTyped, OneByOne, Newest, OwnChunks, ForTheRequest, Wanting
<1> QED
  BY <1>1, <1>2

LEMMA DlInitially == DlInit => DlInv
<1> SUFFICES ASSUME DlInit PROVE DlInv
  OBVIOUS
<1>1. DlTyped
  BY DEF DlInit, DlTyped, NoList, List, NoSend, NoFileIn, Positive
<1>2. OneByOne
  BY DEF DlInit, OneByOne, Newest, NoSend, NoFileIn, Rising, Numbered
<1>3. OwnChunks /\ ForTheRequest
  BY DEF DlInit, OwnChunks, ForTheRequest, NoFileIn
<1> QED
  BY <1>1, <1>2, <1>3 DEF DlInv

HandsOver ==
    handed' # handed =>
      /\ handed'.fetch = fetchSeq
      /\ Len(handed'.got) = handed'.size
      /\ \A i \in DOMAIN handed'.got : handed'.got[i] = handed'.id

LEMMA HandedStep == DlInv /\ [DlNext]_dlVars => HandsOver
<1> SUFFICES ASSUME DlInv, [DlNext]_dlVars, handed' # handed PROVE BrowserEnd
  BY EndsWell DEF HandsOver
<1> QED
  BY DEF DlNext, Offers, Clears, Fetch, Cancel, ChannelCloses, HostHears, HostFetch, HostAbort, SendStep, SendsStart,
         SendsChunk, SendsEnd, SendStops, BrowserHears, BrowserOffer, BrowserStart, BrowserChunk, BrowserAbort,
         dlVars, browserVars

(* A file handed to the user holds every chunk of one transfer, in order,   *)
(* and no other, for files of any length, any number of offers, fetches and *)
(* cancellations, and whatever is still in the channel of a transfer that   *)
(* was cut short.                                                           *)
THEOREM FilesAreWhole == DlSpec => HandedIsWhole
<1>1. DlInv /\ [DlNext]_dlVars => [HandsOver]_dlVars
  BY HandedStep
<1> QED
  BY <1>1, DlInitially, DlStep, PTL DEF DlSpec, HandedIsWhole, HandsOver
=============================================================================
