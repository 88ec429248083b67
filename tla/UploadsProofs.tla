---------------------------- MODULE UploadsProofs ---------------------------
(***************************************************************************)
(* What the shared folder holds of the files that are uploaded to it, for  *)
(* any numbers of sessions, files and names and for queues of any length,  *)
(* whichever renames and removals fail: an unfinished file is in someone's *)
(* care (LeftInv), and a whole one that was reported saved stays (HoldInv).*)
(* Both lean on the order of the messages of a session (FlowInv).          *)
(***************************************************************************)
EXTENDS Uploads, FiniteSetTheorems, TLAPS

UploadOrNone == Upload \cup {NoUpload}
SlotOrNone == Slot \cup {-1}
Message == [t : {"start", "chunk", "end", "abort"}, of : Upload]

UplTyped ==
    /\ user \in [Upload -> Session \cup {NoUpload}]
    /\ queue \in [Session -> Seq(Upload)] /\ current \in [Session -> UploadOrNone]
    /\ at \in [Session -> {"idle", "loop", "reading", "ended"}]
    /\ \A s \in Session : at[s] # "idle" => current[s] \in Upload
    /\ up \in [Session -> Seq(Message)]
    /\ life \in [Session -> {"off", "on", "over", "crashed"}]
    /\ active \in [Session -> [of : UploadOrNone, slot : SlotOrNone, written : Nat]]
    /\ job \in [Session -> [t : {"none", "creating", "renaming", "renamed", "failed"},
                            of : UploadOrNone, slot : SlotOrNone]]
    /\ retrying \in [Session -> SUBSET Path]
    /\ part \in [Slot -> UploadOrNone]
    /\ final \in [Slot -> [of : UploadOrNone, whole : BOOLEAN]]
    /\ data \in [Upload -> Seq(Upload)] /\ stale \subseteq Upload
    /\ savedAt \subseteq Upload \X Slot

(* The receiver is at one thing: it waits for a file to be made, or it      *)
(* receives one, or it waits for that one to be renamed.                    *)
Receiving(s, u, n) == active[s].of = u /\ active[s].slot = n

OneJob(s) ==
    /\ active[s].of = NoUpload => active[s] = NoReceive
    /\ active[s].of # NoUpload => active[s].slot \in Slot
    /\ life[s] # "on" => active[s].of = NoUpload /\ job[s].t # "creating"
    /\ life[s] = "off" => job[s].t = "none"
    /\ job[s].t = "creating" => active[s].of = NoUpload /\ job[s].of \in Upload
    /\ job[s].t \in {"renaming", "renamed", "failed"} =>
         /\ job[s].of \in Upload /\ job[s].slot \in Slot
         /\ life[s] = "on" => Receiving(s, job[s].of, job[s].slot)

(* The messages of a transfer follow its start, and chunks reach a receive  *)
(* of their own upload or none.                                             *)
Expects(s, u) ==
    /\ active[s].of \in {u, NoUpload}
    /\ job[s].t = "creating" => job[s].of = u

Follows(q) ==
    \A i, j \in DOMAIN q : j = i + 1 => q[j].t = "start" \/ q[j].of = q[i].of

InTurn(s) ==
    /\ Follows(up[s])
    /\ up[s] # <<>> => /\ up[s][1].t = "start" \/ Expects(s, up[s][1].of)
                       /\ up[s][Len(up[s])].of = current[s]
    /\ up[s] = <<>> => Expects(s, current[s])

(* An upload is of one session and starts once.                             *)
Own(s) ==
    /\ \A i \in DOMAIN queue[s] : user[queue[s][i]] = s
    /\ \A i \in DOMAIN up[s] : user[up[s][i].of] = s
    /\ active[s].of # NoUpload => user[active[s].of] = s
    /\ job[s].t = "creating" => user[job[s].of] = s
    /\ current[s] # NoUpload => user[current[s]] = s

Starts(q, u, i) == i \in DOMAIN q /\ q[i].t = "start" /\ q[i].of = u

Once(s) ==
    /\ \A i, j \in DOMAIN queue[s] : queue[s][i] = queue[s][j] => i = j
    /\ \A u \in Upload, i, j \in DOMAIN up[s] : Starts(up[s], u, i) /\ Starts(up[s], u, j) => i = j
    /\ \A i \in DOMAIN queue[s], j \in DOMAIN up[s] : ~Starts(up[s], queue[s][i], j)
    /\ job[s].t = "creating" =>
         /\ \A i \in DOMAIN queue[s] : queue[s][i] # job[s].of
         /\ \A j \in DOMAIN up[s] : ~Starts(up[s], job[s].of, j)

ToCome(s, u) ==
    \/ \E i \in DOMAIN queue[s] : queue[s][i] = u
    \/ \E j \in DOMAIN up[s] : Starts(up[s], u, j)
    \/ job[s].t = "creating" /\ job[s].of = u

Unknown(u) ==
    /\ data[u] = <<>> /\ u \notin stale
    /\ \A n \in Slot : part[n] # u /\ final[n].of # u
    /\ \A s \in Session : active[s].of # u
    /\ \A x \in savedAt : x[1] # u

NewIsUnknown(u) == user[u] = NoUpload \/ (\E s \in Session : ToCome(s, u)) => Unknown(u)

FlowInv ==
    /\ UplTyped
    /\ \A s \in Session : OneJob(s) /\ InTurn(s) /\ Own(s) /\ Once(s)
    /\ \A u \in Upload : NewIsUnknown(u)

(* Whose a file is that is not whole.                                       *)
Cared(kind, u, n) ==
    \/ Receiving(user[u], u, n) \/ <<kind, n>> \in retrying[user[u]] \/ life[user[u]] = "crashed"

Kept(u, n) ==
    /\ part[n] = u => user[u] \in Session /\ Cared("part", u, n)
    /\ final[n] = [of |-> u, whole |-> FALSE] => user[u] \in Session /\ Cared("final", u, n)

Renamed(s) ==
    life[s] = "on" /\ job[s].t = "renamed" =>
      /\ part[job[s].slot] # job[s].of
      /\ final[job[s].slot] # [of |-> job[s].of, whole |-> FALSE]

LeftInv ==
    /\ FlowInv
    /\ \A u \in Upload, n \in Slot : Kept(u, n)
    /\ \A s \in Session : Renamed(s)

(* The name of a receive is its own.                                        *)
Data(u, k) == Len(data[u]) = k /\ \A i \in DOMAIN data[u] : data[u][i] = u

NoRetry(n) == \A s \in Session : <<"final", n>> \notin retrying[s]

Holds(s) ==
    active[s].of # NoUpload =>
      LET u == active[s].of
          n == active[s].slot
      IN /\ final[n].of = u /\ part[n] \in {u, NoUpload} /\ u \notin stale
         /\ NoRetry(n) /\ Data(u, active[s].written)
         /\ \A x \in savedAt : x[1] # u

Done(s) ==
    life[s] = "on" /\ job[s].t \in {"renaming", "renamed"} =>
      /\ active[s].written = Size[job[s].of]
      /\ job[s].t = "renamed" => /\ final[job[s].slot] = [of |-> job[s].of, whole |-> TRUE]
                                 /\ part[job[s].slot] = NoUpload

(* A name that is still to be removed stays taken until then, and is        *)
(* nobody's.                                                                *)
Doomed(s, n) ==
    <<"final", n>> \in retrying[s] =>
      /\ final[n] # NoFile /\ part[n] \notin stale
      /\ \A r \in Session : /\ active[r].slot # n
                            /\ <<"final", n>> \in retrying[r] => r = s
      /\ \A x \in savedAt : x[2] # n

Safe(x) ==
    /\ final[x[2]] = [of |-> x[1], whole |-> TRUE] /\ part[x[2]] = NoUpload
    /\ Data(x[1], Size[x[1]])

HoldInv ==
    /\ FlowInv
    /\ \A s \in Session : Holds(s) /\ Done(s) /\ \A n \in Slot : Doomed(s, n)
    /\ \A x \in savedAt : Safe(x)
-----------------------------------------------------------------------------
LEMMA Appended ==
    ASSUME NEW S, NEW q \in Seq(S), NEW e \in S, NEW r, r = Append(q, e)
    PROVE  /\ r \in Seq(S) /\ r # <<>> /\ Len(r) = Len(q) + 1 /\ Len(q) \in Nat
           /\ DOMAIN q = 1 .. Len(q) /\ DOMAIN r = 1 .. Len(q) + 1
           /\ \A i \in DOMAIN q : r[i] = q[i]
           /\ r[Len(q) + 1] = e
<1>1. Len(q) \in Nat /\ DOMAIN q = 1 .. Len(q)
  OBVIOUS
<1>2. r \in Seq(S) /\ Len(r) = Len(q) + 1
  OBVIOUS
<1>3. DOMAIN r = 1 .. Len(q) + 1 /\ r # <<>>
  BY <1>1, <1>2
<1>4. \A i \in DOMAIN q : r[i] = q[i]
  OBVIOUS
<1>5. r[Len(q) + 1] = e
  OBVIOUS
<1> QED
  BY <1>1, <1>2, <1>3, <1>4, <1>5

LEMMA Taken ==
    ASSUME NEW S, NEW q \in Seq(S), q # <<>>, NEW r, r = Tail(q)
    PROVE  /\ r \in Seq(S) /\ Len(q) \in Nat /\ Len(q) >= 1 /\ Len(r) = Len(q) - 1
           /\ DOMAIN q = 1 .. Len(q) /\ DOMAIN r = 1 .. Len(q) - 1
           /\ \A i \in DOMAIN r : r[i] = q[i + 1] /\ i + 1 \in DOMAIN q
           /\ Head(q) = q[1] /\ q[1] \in S /\ 1 \in DOMAIN q
           /\ r = <<>> => Len(q) = 1
<1>1. Len(q) \in Nat /\ DOMAIN q = 1 .. Len(q) /\ Len(q) >= 1
  OBVIOUS
<1>2. r \in Seq(S) /\ Len(r) = Len(q) - 1
  OBVIOUS
<1>3. DOMAIN r = 1 .. Len(q) - 1 /\ (r = <<>> => Len(q) = 1)
  <2>1. DOMAIN r = 1 .. Len(r)
    BY <1>2
  <2>2. r = <<>> => Len(r) = 0
    OBVIOUS
  <2> QED
    BY <1>1, <1>2, <2>1, <2>2
<1>4. \A i \in 1 .. Len(q) - 1 : r[i] = q[i + 1]
  BY <1>1
<1>5. Head(q) = q[1] /\ q[1] \in S
  BY <1>1
<1> QED
  BY <1>1, <1>2, <1>3, <1>4, <1>5

(* What a message more at the end changes.                                  *)
SentOn(q, m, r) ==
    /\ r \in Seq(Message) /\ r # <<>> /\ Follows(r)
    /\ r[Len(r)] = m /\ (q # <<>> => r[1] = q[1]) /\ (q = <<>> => r[1] = m)
    /\ \A i \in DOMAIN r : r[i] = m \/ \E j \in DOMAIN q : r[i] = q[j]
    /\ \A v : \A i \in DOMAIN r :
         Starts(r, v, i) => Starts(q, v, i) \/ (i = Len(q) + 1 /\ m.t = "start" /\ v = m.of)

LEMMA SendingFollows ==
    ASSUME NEW q \in Seq(Message), NEW m \in Message, NEW r, r = Append(q, m), Follows(q),
           m.t = "start" \/ (q # <<>> => q[Len(q)].of = m.of)
    PROVE  SentOn(q, m, r)
<1>1. /\ r \in Seq(Message) /\ r # <<>> /\ Len(r) = Len(q) + 1 /\ Len(q) \in Nat
      /\ DOMAIN q = 1 .. Len(q) /\ DOMAIN r = 1 .. Len(q) + 1
      /\ \A i \in DOMAIN q : r[i] = q[i]
      /\ r[Len(q) + 1] = m
  BY Appended
<1>2. \A i \in DOMAIN r : i \in DOMAIN q \/ i = Len(q) + 1
  BY <1>1
<1>3. Follows(r)
  <2> SUFFICES ASSUME NEW i \in DOMAIN r, NEW j \in DOMAIN r, j = i + 1
               PROVE  r[j].t = "start" \/ r[j].of = r[i].of
    BY DEF Follows
  <2>1. i \in DOMAIN q
    BY <1>1
  <2>2. CASE j \in DOMAIN q
    BY <1>1, <2>1, <2>2 DEF Follows
  <2>3. CASE j = Len(q) + 1
    <3>1. i = Len(q) /\ q # <<>> /\ r[i] = q[Len(q)] /\ r[j] = m
      BY <1>1, <2>1, <2>3
    <3> QED
      BY <3>1
  <2> QED
    BY <1>2, <2>2, <2>3
<1>4. (q # <<>> => r[1] = q[1]) /\ (q = <<>> => r[1] = m)
  <2>1. q = <<>> => Len(q) = 0
    OBVIOUS
  <2>2. q # <<>> => 1 \in DOMAIN q
    BY <1>1
  <2> QED
    BY <1>1, <2>1, <2>2
<1>5. \A i \in DOMAIN r : r[i] = m \/ \E j \in DOMAIN q : r[i] = q[j]
  BY <1>1, <1>2
<1>6. \A v : \A i \in DOMAIN r :
        Starts(r, v, i) => Starts(q, v, i) \/ (i = Len(q) + 1 /\ m.t = "start" /\ v = m.of)
  BY <1>1, <1>2 DEF Starts
<1> QED
  BY <1>1, <1>3, <1>4, <1>5, <1>6 DEF SentOn

(* What the first message taken changes.                                    *)
TakenOn(q, r) ==
    /\ r \in Seq(Message) /\ Follows(r) /\ q[1] \in Message /\ 1 \in DOMAIN q /\ Head(q) = q[1]
    /\ r # <<>> => /\ r[1].t = "start" \/ r[1].of = q[1].of
                   /\ r[Len(r)] = q[Len(q)]
    /\ r = <<>> => q[Len(q)] = q[1]
    /\ \A i \in DOMAIN r : r[i] = q[i + 1] /\ i + 1 \in DOMAIN q /\ i + 1 # 1 /\ i \in Nat

LEMMA TakingFollows ==
    ASSUME NEW q \in Seq(Message), q # <<>>, NEW r, r = Tail(q), Follows(q)
    PROVE  TakenOn(q, r)
<1>1. /\ r \in Seq(Message) /\ Len(q) \in Nat /\ Len(q) >= 1 /\ Len(r) = Len(q) - 1
      /\ DOMAIN q = 1 .. Len(q) /\ DOMAIN r = 1 .. Len(q) - 1
      /\ \A i \in DOMAIN r : r[i] = q[i + 1] /\ i + 1 \in DOMAIN q
      /\ Head(q) = q[1] /\ q[1] \in Message /\ 1 \in DOMAIN q
      /\ r = <<>> => Len(q) = 1
  BY Taken
<1>2. Follows(r)
  <2> SUFFICES ASSUME NEW i \in DOMAIN r, NEW j \in DOMAIN r, j = i + 1
               PROVE  r[j].t = "start" \/ r[j].of = r[i].of
    BY DEF Follows
  <2>1. r[i] = q[i + 1] /\ r[j] = q[j + 1] /\ i + 1 \in DOMAIN q /\ j + 1 \in DOMAIN q /\ j + 1 = (i + 1) + 1
    BY <1>1
  <2> QED
    BY <2>1 DEF Follows
<1>3. ASSUME r # <<>>
      PROVE  (r[1].t = "start" \/ r[1].of = q[1].of) /\ r[Len(r)] = q[Len(q)]
  <2>1. 1 \in DOMAIN r /\ Len(r) \in DOMAIN r
    BY <1>1, <1>3
  <2>2. r[1] = q[2] /\ 2 \in DOMAIN q /\ 2 = 1 + 1
    BY <1>1, <2>1
  <2>3. r[Len(r)] = q[Len(q)]
    BY <1>1, <2>1
  <2> QED
    BY <1>1, <2>2, <2>3 DEF Follows
<1>4. \A i \in DOMAIN r : i + 1 # 1 /\ i \in Nat
  BY <1>1
<1> QED
  BY <1>1, <1>2, <1>3, <1>4 DEF TakenOn

USE UploadsAssumption DEF UploadsAssumption

NoRecords == NoReceive.of = NoUpload /\ NoReceive.slot = -1 /\ NoFile.of = NoUpload

(* The drop of a receive, its files removed at once or later.               *)
LEMMA Dropped ==
    ASSUME UplTyped, NEW s \in Session, OneJob(s), DropsReceive(s)
    PROVE  /\ active' = [active EXCEPT ![s] = NoReceive]
           /\ active' \in [Session -> [of : UploadOrNone, slot : SlotOrNone, written : Nat]]
           /\ part' \in [Slot -> UploadOrNone]
           /\ final' \in [Slot -> [of : UploadOrNone, whole : BOOLEAN]]
           /\ retrying' \in [Session -> SUBSET Path]
           /\ \A n \in Slot : /\ part'[n] = part[n] \/ (part'[n] = NoUpload /\ n = At(s))
                              /\ final'[n] = final[n] \/ (final'[n] = NoFile /\ n = At(s))
           /\ \A r \in Session \ {s} : retrying'[r] = retrying[r]
           /\ \A n \in Slot : \A k \in {"part", "final"} :
                /\ <<k, n>> \in retrying[s] => <<k, n>> \in retrying'[s]
                /\ <<k, n>> \in retrying'[s] => <<k, n>> \in retrying[s] \/ n = At(s)
           /\ active[s].of # NoUpload =>
                /\ part'[At(s)] = NoUpload \/ <<"part", At(s)>> \in retrying'[s]
                /\ final'[At(s)] = NoFile \/ <<"final", At(s)>> \in retrying'[s]
                /\ <<"final", At(s)>> \in retrying'[s] \ retrying[s] => final'[At(s)] = final[At(s)]
<1>1. /\ active \in [Session -> [of : UploadOrNone, slot : SlotOrNone, written : Nat]]
      /\ part \in [Slot -> UploadOrNone] /\ retrying \in [Session -> SUBSET Path]
      /\ final \in [Slot -> [of : UploadOrNone, whole : BOOLEAN]]
  BY DEF UplTyped
<1>2. /\ active' = [active EXCEPT ![s] = NoReceive]
      /\ NoReceive \in [of : UploadOrNone, slot : SlotOrNone, written : Nat]
      /\ NoFile \in [of : UploadOrNone, whole : BOOLEAN] /\ NoReceive.of = NoUpload
  BY DEF DropsReceive, NoReceive, NoFile, UploadOrNone, SlotOrNone
<1>3. CASE active[s] = NoReceive
  <2>1. part' = part /\ final' = final /\ retrying' = retrying
    BY <1>3 DEF DropsReceive
  <2> QED
    BY <1>1, <1>2, <1>3, <2>1
<1>4. CASE active[s] # NoReceive
  <2> DEFINE n == At(s)
             paths == {<<"part", n>>, <<"final", n>>}
  <2>1. n \in Slot
    BY <1>4 DEF OneJob, At
  <2>2. PICK later \in SUBSET paths :
          /\ part' = [m \in Slot |-> IF <<"part", m>> \in paths \ later THEN NoUpload ELSE part[m]]
          /\ final' = [m \in Slot |-> IF <<"final", m>> \in paths \ later THEN NoFile ELSE final[m]]
          /\ retrying' = [retrying EXCEPT ![s] = @ \cup later]
    BY <1>4 DEF DropsReceive, Removes
  <2>3. \A m \in Slot : /\ <<"part", m>> \in paths \ later <=> m = n /\ <<"part", n>> \notin later
                        /\ <<"final", m>> \in paths \ later <=> m = n /\ <<"final", n>> \notin later
    OBVIOUS
  <2>4. /\ \A m \in Slot : part'[m] = IF m = n /\ <<"part", n>> \notin later THEN NoUpload ELSE part[m]
        /\ \A m \in Slot : final'[m] = IF m = n /\ <<"final", n>> \notin later THEN NoFile ELSE final[m]
    BY <2>2, <2>3
  <2>5. /\ \A r \in Session \ {s} : retrying'[r] = retrying[r]
        /\ retrying'[s] = retrying[s] \cup later
    BY <1>1, <2>2
  <2>6. part' \in [Slot -> UploadOrNone]
    BY <1>1, <2>2 DEF UploadOrNone
  <2>7. final' \in [Slot -> [of : UploadOrNone, whole : BOOLEAN]]
    BY <1>1, <1>2, <2>2
  <2>8. retrying' \in [Session -> SUBSET Path]
    <3>1. later \subseteq Path
      BY <2>1 DEF Path
    <3> QED
      BY <1>1, <2>2, <3>1
  <2>9. active' \in [Session -> [of : UploadOrNone, slot : SlotOrNone, written : Nat]]
    BY <1>1, <1>2
  <2>10. \A m \in Slot : \A k \in {"part", "final"} :
           /\ <<k, m>> \in retrying[s] => <<k, m>> \in retrying'[s]
           /\ <<k, m>> \in retrying'[s] => <<k, m>> \in retrying[s] \/ m = n
    BY <2>5
  <2>11. /\ part'[n] = NoUpload \/ <<"part", n>> \in retrying'[s]
         /\ final'[n] = NoFile \/ <<"final", n>> \in retrying'[s]
         /\ <<"final", n>> \in retrying'[s] \ retrying[s] => final'[n] = final[n]
    BY <2>1, <2>4, <2>5
  <2> QED
    BY <1>2, <2>4, <2>5, <2>6, <2>7, <2>8, <2>9, <2>10, <2>11
<1> QED
  BY <1>3, <1>4
-----------------------------------------------------------------------------
(* The flow of messages, session by session.                                *)

LEMMA FlowTypes ==
    ASSUME UplTyped, NEW r \in Session, OneJob(r)
    PROVE  /\ \A i \in DOMAIN queue[r] : queue[r][i] \in Upload
           /\ \A i \in DOMAIN up[r] : up[r][i].of \in Upload
           /\ active[r].of # NoUpload => active[r].of \in Upload
           /\ job[r].t = "creating" => job[r].of \in Upload
           /\ current[r] # NoUpload => current[r] \in Upload
<1>1. /\ queue[r] \in Seq(Upload) /\ up[r] \in Seq(Message) /\ current[r] \in UploadOrNone
      /\ active[r] \in [of : UploadOrNone, slot : SlotOrNone, written : Nat]
  BY DEF UplTyped
<1>2. \A i \in DOMAIN queue[r] : queue[r][i] \in Upload
  BY <1>1
<1>3. \A i \in DOMAIN up[r] : up[r][i] \in Message
  BY <1>1
<1>4. \A i \in DOMAIN up[r] : up[r][i].of \in Upload
  BY <1>3 DEF Message
<1> QED
  BY <1>1, <1>2, <1>4 DEF OneJob, UploadOrNone

LEMMA CalmSession ==
    ASSUME UplTyped, NEW r \in Session, OneJob(r), InTurn(r), Own(r), Once(r),
           up'[r] = up[r], current'[r] = current[r],
           \A u \in Upload : user[u] = r => user'[u] = r,
           queue'[r] \in {queue[r], <<>>},
           active'[r].of \in {active[r].of, NoUpload},
           job'[r].t = "creating" => job'[r] = job[r]
    PROVE  /\ InTurn(r)' /\ Own(r)' /\ Once(r)'
           /\ \A u \in Upload : ToCome(r, u)' => ToCome(r, u)
<1>1. InTurn(r)'
  BY DEF InTurn, Expects
<1>2. /\ \A i \in DOMAIN queue[r] : queue[r][i] \in Upload
      /\ \A i \in DOMAIN up[r] : up[r][i].of \in Upload
      /\ active[r].of # NoUpload => active[r].of \in Upload
      /\ job[r].t = "creating" => job[r].of \in Upload
      /\ current[r] # NoUpload => current[r] \in Upload
  BY FlowTypes
<1>3. \A i \in DOMAIN queue'[r] : i \in DOMAIN queue[r] /\ queue'[r][i] = queue[r][i]
  OBVIOUS
<1>4. Own(r)'
  BY <1>2, <1>3 DEF Own
<1>6. Once(r)'
  <2>1. \A i, j \in DOMAIN queue'[r] : queue'[r][i] = queue'[r][j] => i = j
    BY <1>3 DEF Once
  <2>2. \A u \in Upload, i, j \in DOMAIN up'[r] : Starts(up'[r], u, i) /\ Starts(up'[r], u, j) => i = j
    BY DEF Once
  <2>3. \A i \in DOMAIN queue'[r], j \in DOMAIN up'[r] : ~Starts(up'[r], queue'[r][i], j)
    BY <1>3 DEF Once
  <2>4. job'[r].t = "creating" =>
         /\ \A i \in DOMAIN queue'[r] : queue'[r][i] # job'[r].of
         /\ \A j \in DOMAIN up'[r] : ~Starts(up'[r], job'[r].of, j)
    BY <1>3 DEF Once
  <2> QED
    BY <2>1, <2>2, <2>3, <2>4 DEF Once
<1>7. ASSUME NEW u \in Upload, ToCome(r, u)' PROVE ToCome(r, u)
  BY <1>3, <1>7 DEF ToCome
<1> QED
  BY <1>1, <1>4, <1>6, <1>7

(* What every step does to the sessions it is not of.                       *)
Elsewhere(s) ==
    \A r \in Session \ {s} :
      /\ queue'[r] = queue[r] /\ up'[r] = up[r] /\ current'[r] = current[r]
      /\ active'[r] = active[r] /\ job'[r] = job[r] /\ life'[r] = life[r]

LEMMA FlowStep ==
    ASSUME FlowInv, UplTyped', NEW s \in Session, Elsewhere(s),
           OneJob(s)', InTurn(s)', Own(s)', Once(s)',
           \A u \in Upload : user'[u] = user[u] \/ (user[u] = NoUpload /\ user'[u] = s),
           \A u \in Upload : ToCome(s, u)' => ToCome(s, u) \/ user[u] = NoUpload,
           \A u \in Upload : Unknown(u) => Unknown(u)' \/ (user[u] = s /\ ~ToCome(s, u)')
    PROVE  FlowInv'
<1>1. UplTyped /\ NoUpload \notin Session
  BY DEF FlowInv
<1>2. ASSUME NEW r \in Session \ {s}
      PROVE  /\ OneJob(r)' /\ InTurn(r)' /\ Own(r)' /\ Once(r)'
             /\ \A u \in Upload : ToCome(r, u)' => ToCome(r, u) /\ user[u] = r
  <2>1. OneJob(r) /\ InTurn(r) /\ Own(r) /\ Once(r)
    BY DEF FlowInv
  <2>2. /\ queue'[r] = queue[r] /\ up'[r] = up[r] /\ current'[r] = current[r]
        /\ active'[r] = active[r] /\ job'[r] = job[r] /\ life'[r] = life[r]
    BY DEF Elsewhere
  <2>3. OneJob(r)'
    BY <2>1, <2>2 DEF OneJob, Receiving, NoReceive
  <2>4. /\ InTurn(r)' /\ Own(r)' /\ Once(r)'
        /\ \A u \in Upload : ToCome(r, u)' => ToCome(r, u)
    BY <1>1, <2>1, <2>2, CalmSession
  <2>5. \A u \in Upload : ToCome(r, u) => user[u] = r
    BY <2>1 DEF ToCome, Own, Starts
  <2> QED
    BY <2>3, <2>4, <2>5
<1>3. ASSUME NEW u \in Upload, user'[u] = NoUpload \/ \E r \in Session : ToCome(r, u)'
      PROVE  Unknown(u)'
  <2>1. user[u] = NoUpload \/ \E r \in Session : ToCome(r, u)
    BY <1>1, <1>2, <1>3
  <2>2. Unknown(u)
    BY <2>1 DEF FlowInv, NewIsUnknown
  <2>3. ~(user[u] = s /\ ~ToCome(s, u)')
    BY <1>1, <1>2, <1>3
  <2> QED
    BY <2>2, <2>3
<1>4. \A u \in Upload : NewIsUnknown(u)'
  BY <1>3 DEF NewIsUnknown
<1>5. \A r \in Session : OneJob(r)' /\ InTurn(r)' /\ Own(r)' /\ Once(r)'
  BY <1>2
<1> QED
  BY <1>4, <1>5 DEF FlowInv

(* Files and receives that come to an end make no upload known.             *)
LEMMA StaysUnknown ==
    ASSUME NEW u \in Upload, Unknown(u), data'[u] = data[u], u \in stale' => u \in stale,
           \A n \in Slot : /\ part'[n] = u => part[n] = u
                           /\ final'[n].of = u => final[n].of = u \/ \E k \in Slot : part[k] = u,
           \A r \in Session : active'[r].of = u => active[r].of = u,
           \A x \in savedAt' : x \in savedAt \/ x[1] # u
    PROVE  Unknown(u)'
  BY DEF Unknown

(* A step that starts nothing and sends nothing.                            *)
LEMMA CalmStep ==
    ASSUME FlowInv, UplTyped', NEW s \in Session, Elsewhere(s), OneJob(s)', user' = user,
           up'[s] = up[s], current'[s] = current[s], queue'[s] \in {queue[s], <<>>},
           active'[s].of \in {active[s].of, NoUpload},
           job'[s].t = "creating" => job'[s] = job[s],
           \A u \in Upload : Unknown(u) => Unknown(u)'
    PROVE  FlowInv'
<1>1. UplTyped /\ OneJob(s) /\ InTurn(s) /\ Own(s) /\ Once(s)
  BY DEF FlowInv
<1>2. /\ InTurn(s)' /\ Own(s)' /\ Once(s)'
      /\ \A u \in Upload : ToCome(s, u)' => ToCome(s, u)
  BY <1>1, CalmSession
<1> QED
  BY <1>2, FlowStep
-----------------------------------------------------------------------------
(* The sender                                                               *)

LEMMA EnqueueFlows ==
    ASSUME FlowInv, NEW s \in Session, NEW u \in Upload, Enqueue(s, u)
    PROVE  FlowInv'
<1>1. UplTyped /\ OneJob(s) /\ InTurn(s) /\ Own(s) /\ Once(s) /\ NoUpload \notin Upload \cup Session
  BY DEF FlowInv
<1>2. /\ user[u] = NoUpload /\ user' = [user EXCEPT ![u] = s]
      /\ queue' = [queue EXCEPT ![s] = Append(@, u)]
      /\ UNCHANGED <<current, outcome, offset, at, channel, receiver, folder, savedAt>>
  BY DEF Enqueue
<1>3. queue \in [Session -> Seq(Upload)] /\ user \in [Upload -> Session \cup {NoUpload}]
  BY <1>1 DEF UplTyped
<1>4. queue'[s] = Append(queue[s], u) /\ queue[s] \in Seq(Upload)
  BY <1>2, <1>3
<1>5. queue' \in [Session -> Seq(Upload)] /\ user' \in [Upload -> Session \cup {NoUpload}]
  BY <1>2, <1>3
<1>6. UplTyped'
  BY <1>1, <1>2, <1>5 DEF UplTyped, channel, receiver, folder
<1>7. Elsewhere(s) /\ OneJob(s)' /\ InTurn(s)'
  BY <1>1, <1>2, <1>3 DEF Elsewhere, OneJob, InTurn, Expects, Receiving, channel, receiver, folder
<1>8. /\ DOMAIN queue[s] = 1 .. Len(queue[s]) /\ DOMAIN queue'[s] = 1 .. Len(queue[s]) + 1
      /\ Len(queue[s]) \in Nat /\ \A i \in DOMAIN queue[s] : queue'[s][i] = queue[s][i]
      /\ queue'[s][Len(queue[s]) + 1] = u
  BY <1>4, Appended
<1>9. /\ \A i \in DOMAIN queue[s] : queue[s][i] \in Upload /\ queue[s][i] # u
      /\ \A i \in DOMAIN up[s] : up[s][i].of # u
      /\ active[s].of # u /\ (job[s].t = "creating" => job[s].of # u) /\ current[s] # u
  <2>1. \A i \in DOMAIN queue[s] : queue[s][i] \in Upload
    BY <1>4
  <2> QED
    BY <1>1, <1>2, <2>1 DEF Own
<1>10. Own(s)'
  <2>1. \A v \in Upload : user[v] = s => user'[v] = s
    BY <1>2, <1>3
  <2>2. user'[u] = s
    BY <1>2, <1>3
  <2>3. up'[s] = up[s] /\ active'[s] = active[s] /\ job'[s] = job[s] /\ current'[s] = current[s]
    BY <1>2 DEF channel, receiver
  <2>4. /\ \A i \in DOMAIN up[s] : up[s][i].of \in Upload
        /\ active[s].of # NoUpload => active[s].of \in Upload
        /\ job[s].t = "creating" => job[s].of \in Upload
        /\ current[s] # NoUpload => current[s] \in Upload
    BY <1>1, FlowTypes
  <2>5. \A i \in DOMAIN queue'[s] : user'[queue'[s][i]] = s
    BY <1>1, <1>8, <1>9, <2>1, <2>2 DEF Own
  <2> QED
    BY <1>1, <2>1, <2>3, <2>4, <2>5 DEF Own
<1>11. Once(s)'
  BY <1>1, <1>2, <1>8, <1>9 DEF Once, Starts, channel, receiver
<1>12. \A v \in Upload : ToCome(s, v)' => ToCome(s, v) \/ user[v] = NoUpload
  BY <1>2, <1>8 DEF ToCome, Starts, channel, receiver
<1>13. \A v \in Upload : Unknown(v) => Unknown(v)'
  BY <1>2 DEF Unknown, channel, receiver, folder
<1>14. \A v \in Upload : user'[v] = user[v] \/ (user[v] = NoUpload /\ user'[v] = s)
  BY <1>2, <1>3
<1> QED
  BY <1>6, <1>7, <1>10, <1>11, <1>12, <1>13, <1>14, FlowStep

LEMMA TransferStartsFlows ==
    ASSUME FlowInv, NEW s \in Session, TransferStarts(s)
    PROVE  FlowInv'
<1> DEFINE u == Head(queue[s])
           m == [t |-> "start", of |-> u]
<1>1. UplTyped /\ OneJob(s) /\ InTurn(s) /\ Own(s) /\ Once(s)
  BY DEF FlowInv
<1>2. /\ queue[s] # <<>> /\ queue' = [queue EXCEPT ![s] = Tail(@)]
      /\ current' = [current EXCEPT ![s] = u] /\ at' = [at EXCEPT ![s] = "loop"]
      /\ up' = [up EXCEPT ![s] = Append(@, m)]
      /\ UNCHANGED <<user, down, receiver, folder, savedAt>>
  BY DEF TransferStarts
<1>3. /\ queue \in [Session -> Seq(Upload)] /\ up \in [Session -> Seq(Message)]
      /\ current \in [Session -> UploadOrNone]
      /\ at \in [Session -> {"idle", "loop", "reading", "ended"}]
      /\ \A r \in Session : at[r] # "idle" => current[r] \in Upload
  BY <1>1 DEF UplTyped
<1>4. queue'[s] = Tail(queue[s]) /\ up'[s] = Append(up[s], m) /\ current'[s] = u
  BY <1>2, <1>3
<1>5. /\ u = queue[s][1] /\ u \in Upload /\ 1 \in DOMAIN queue[s] /\ Len(queue[s]) \in Nat
      /\ queue'[s] \in Seq(Upload) /\ DOMAIN queue[s] = 1 .. Len(queue[s])
      /\ DOMAIN queue'[s] = 1 .. Len(queue[s]) - 1
      /\ \A i \in DOMAIN queue'[s] : queue'[s][i] = queue[s][i + 1] /\ i + 1 \in DOMAIN queue[s]
  BY <1>2, <1>3, <1>4, Taken
<1>6. m \in Message /\ m.t = "start" /\ m.of = u
  BY <1>5 DEF Message
<1> HIDE DEF u, m
<1>7. /\ up'[s] \in Seq(Message) /\ up'[s] # <<>> /\ Follows(up'[s])
      /\ up'[s][Len(up'[s])] = m
      /\ (up[s] # <<>> => up'[s][1] = up[s][1]) /\ (up[s] = <<>> => up'[s][1] = m)
      /\ \A i \in DOMAIN up'[s] : up'[s][i] = m \/ \E j \in DOMAIN up[s] : up'[s][i] = up[s][j]
      /\ \A v : \A i \in DOMAIN up'[s] :
           Starts(up'[s], v, i) => Starts(up[s], v, i) \/ (i = Len(up[s]) + 1 /\ v = u)
  <2>1. up[s] \in Seq(Message) /\ Follows(up[s])
    BY <1>1, <1>3 DEF InTurn
  <2>2. SentOn(up[s], m, up'[s])
    BY <1>4, <1>6, <2>1, SendingFollows
  <2>3. \A v : \A i \in DOMAIN up'[s] :
          Starts(up'[s], v, i) => Starts(up[s], v, i) \/ (i = Len(up[s]) + 1 /\ v = u)
    BY <1>6, <2>2 DEF SentOn
  <2> QED
    BY <2>2, <2>3 DEF SentOn
<1>8. UplTyped'
  <2>1. queue' \in [Session -> Seq(Upload)] /\ up' \in [Session -> Seq(Message)]
    BY <1>2, <1>3, <1>4, <1>5, <1>7
  <2>2. /\ current' \in [Session -> UploadOrNone]
        /\ at' \in [Session -> {"idle", "loop", "reading", "ended"}]
        /\ \A r \in Session : at'[r] # "idle" => current'[r] \in Upload
    BY <1>2, <1>3, <1>5 DEF UploadOrNone
  <2> QED
    BY <1>1, <1>2, <2>1, <2>2 DEF UplTyped, receiver, folder
<1>9. active' = active /\ job' = job /\ life' = life /\ user' = user
  BY <1>2 DEF receiver
<1>10. Elsewhere(s) /\ OneJob(s)'
  BY <1>1, <1>2, <1>3, <1>9 DEF Elsewhere, OneJob, Receiving
<1>11. InTurn(s)'
  <2>1. up'[s][1].t = "start" \/ Expects(s, up'[s][1].of)
    BY <1>1, <1>6, <1>7 DEF InTurn
  <2>2. up'[s][1].t = "start" \/ Expects(s, up[s][1].of)'
    BY <1>1, <1>6, <1>7, <1>9 DEF InTurn, Expects
  <2>3. up'[s][Len(up'[s])].of = current'[s]
    BY <1>4, <1>6, <1>7
  <2> QED
    BY <1>7, <2>2, <2>3 DEF InTurn
<1>12. user[u] = s /\ \A i \in DOMAIN queue'[s] : queue'[s][i] # u
  BY <1>1, <1>5 DEF Own, Once
<1>13. Own(s)'
  <2>1. ASSUME NEW i \in DOMAIN queue'[s] PROVE user'[queue'[s][i]] = s
    <3>1. queue'[s][i] = queue[s][i + 1] /\ i + 1 \in DOMAIN queue[s]
      BY <1>5
    <3> QED
      BY <1>1, <1>9, <3>1 DEF Own
  <2>2. ASSUME NEW i \in DOMAIN up'[s] PROVE user'[up'[s][i].of] = s
    <3>1. CASE up'[s][i] = m
      BY <1>6, <1>9, <1>12, <3>1
    <3>2. ASSUME NEW j \in DOMAIN up[s], up'[s][i] = up[s][j] PROVE user'[up'[s][i].of] = s
      BY <1>1, <1>9, <3>2 DEF Own
    <3> QED
      BY <1>7, <3>1, <3>2
  <2>3. /\ active'[s].of # NoUpload => user'[active'[s].of] = s
        /\ job'[s].t = "creating" => user'[job'[s].of] = s
    BY <1>1, <1>9 DEF Own
  <2>4. current'[s] # NoUpload => user'[current'[s]] = s
    BY <1>4, <1>9, <1>12
  <2> QED
    BY <2>1, <2>2, <2>3, <2>4 DEF Own
<1>14. \A j \in DOMAIN up[s] : ~Starts(up[s], u, j)
  BY <1>1, <1>5 DEF Once
<1>15. \A v, i : Starts(up[s], v, i) => i \in DOMAIN up[s]
  BY DEF Starts
<1>16. Once(s)'
  <2>1. \A i, j \in DOMAIN queue'[s] : queue'[s][i] = queue'[s][j] => i = j
    <3> SUFFICES ASSUME NEW i \in DOMAIN queue'[s], NEW j \in DOMAIN queue'[s],
                        queue'[s][i] = queue'[s][j]
                 PROVE  i = j
      OBVIOUS
    <3>1. i \in Nat /\ j \in Nat
      <4>1. DOMAIN queue'[s] = 1 .. Len(queue[s]) - 1
        BY <1>5
      <4> QED
        BY <1>5, <4>1
    <3>2. queue'[s][i] = queue[s][i + 1] /\ i + 1 \in DOMAIN queue[s]
      BY <1>5
    <3>3. queue'[s][j] = queue[s][j + 1] /\ j + 1 \in DOMAIN queue[s]
      BY <1>5
    <3>4. i + 1 = j + 1
      BY <1>1, <3>2, <3>3 DEF Once
    <3> QED
      BY <3>1, <3>4
  <2>2. \A v \in Upload, i, j \in DOMAIN up'[s] : Starts(up'[s], v, i) /\ Starts(up'[s], v, j) => i = j
    BY <1>1, <1>7, <1>14, <1>15 DEF Once
  <2>3. \A i \in DOMAIN queue'[s], j \in DOMAIN up'[s] : ~Starts(up'[s], queue'[s][i], j)
    <3> SUFFICES ASSUME NEW i \in DOMAIN queue'[s], NEW j \in DOMAIN up'[s],
                        Starts(up'[s], queue'[s][i], j)
                 PROVE  FALSE
      OBVIOUS
    <3>1. Starts(up[s], queue[s][i + 1], j) /\ i + 1 \in DOMAIN queue[s] /\ j \in DOMAIN up[s]
      BY <1>5, <1>7, <1>12, <1>15
    <3> QED
      BY <1>1, <3>1 DEF Once
  <2>4. job[s].t = "creating" =>
         /\ \A i \in DOMAIN queue'[s] : queue'[s][i] # job[s].of
         /\ \A j \in DOMAIN up'[s] : ~Starts(up'[s], job[s].of, j)
    <3> SUFFICES ASSUME job[s].t = "creating"
                 PROVE  /\ \A i \in DOMAIN queue'[s] : queue'[s][i] # job[s].of
                        /\ \A j \in DOMAIN up'[s] : ~Starts(up'[s], job[s].of, j)
      OBVIOUS
    <3>1. /\ \A i \in DOMAIN queue[s] : queue[s][i] # job[s].of
          /\ \A j \in DOMAIN up[s] : ~Starts(up[s], job[s].of, j)
      BY <1>1 DEF Once
    <3>2. ASSUME NEW i \in DOMAIN queue'[s] PROVE queue'[s][i] # job[s].of
      <4>1. queue'[s][i] = queue[s][i + 1] /\ i + 1 \in DOMAIN queue[s]
        BY <1>5
      <4> QED
        BY <3>1, <4>1
    <3>3. u # job[s].of
      BY <1>5, <3>1
    <3>4. ASSUME NEW j \in DOMAIN up'[s], Starts(up'[s], job[s].of, j) PROVE FALSE
      <4>1. Starts(up[s], job[s].of, j)
        BY <1>7, <3>3, <3>4
      <4> QED
        BY <1>15, <3>1, <4>1
    <3> QED
      BY <3>2, <3>4
  <2> QED
    BY <1>9, <2>1, <2>2, <2>3, <2>4 DEF Once
<1>17. \A v \in Upload : ToCome(s, v)' => ToCome(s, v)
  <2> SUFFICES ASSUME NEW v \in Upload, ToCome(s, v)' PROVE ToCome(s, v)
    OBVIOUS
  <2>1. ASSUME NEW i \in DOMAIN queue'[s], queue'[s][i] = v PROVE ToCome(s, v)
    <3>1. queue'[s][i] = queue[s][i + 1] /\ i + 1 \in DOMAIN queue[s]
      BY <1>5
    <3> QED
      BY <2>1, <3>1 DEF ToCome
  <2>2. ASSUME NEW j \in DOMAIN up'[s], Starts(up'[s], v, j) PROVE ToCome(s, v)
    <3>1. Starts(up[s], v, j) \/ v = u
      BY <1>7, <2>2
    <3>2. Starts(up[s], v, j) => j \in DOMAIN up[s]
      BY <1>15
    <3>3. v = u => \E i \in DOMAIN queue[s] : queue[s][i] = v
      BY <1>5
    <3> QED
      BY <3>1, <3>2, <3>3 DEF ToCome
  <2>3. job'[s].t = "creating" /\ job'[s].of = v => ToCome(s, v)
    BY <1>9 DEF ToCome
  <2> QED
    BY <2>1, <2>2, <2>3 DEF ToCome
<1>18. \A v \in Upload : Unknown(v) => Unknown(v)'
  BY <1>2 DEF Unknown, receiver, folder
<1> QED
  BY <1>8, <1>9, <1>10, <1>11, <1>13, <1>16, <1>17, <1>18, FlowStep
(* What the sender does in the course of a transfer.                        *)
LEMMA SenderFlows ==
    ASSUME FlowInv, NEW s \in Session,
           up' = up \/ (current[s] \in Upload /\ \E t \in {"chunk", "end", "abort"} : Sends(s, t)),
           queue' = queue \/ queue' = [queue EXCEPT ![s] = <<>>],
           at' \in [Session -> {"idle", "loop", "reading", "ended"}],
           \A r \in Session : at'[r] # "idle" => at[r] # "idle",
           UNCHANGED <<user, current, receiver, folder, savedAt>>
    PROVE  FlowInv'
<1>1. UplTyped /\ OneJob(s) /\ InTurn(s) /\ Own(s) /\ Once(s)
  BY DEF FlowInv
<1>2. /\ queue \in [Session -> Seq(Upload)] /\ up \in [Session -> Seq(Message)]
      /\ \A r \in Session : at[r] # "idle" => current[r] \in Upload
  BY <1>1 DEF UplTyped
<1>3. /\ active' = active /\ job' = job /\ life' = life /\ user' = user /\ current' = current
  BY DEF receiver
<1>4. queue' \in [Session -> Seq(Upload)] /\ queue'[s] \in {queue[s], <<>>}
  <2>1. <<>> \in Seq(Upload)
    OBVIOUS
  <2>2. CASE queue' = queue
    BY <1>2, <2>2
  <2>3. CASE queue' = [queue EXCEPT ![s] = <<>>]
    BY <1>2, <2>1, <2>3
  <2> QED
    BY <2>2, <2>3
<1>5. \A v \in Upload : Unknown(v) => Unknown(v)'
  BY DEF Unknown, receiver, folder
<1>6. OneJob(s)'
  BY <1>1, <1>3 DEF OneJob, Receiving
<1>7. up' \in [Session -> Seq(Message)] => UplTyped'
  BY <1>1, <1>2, <1>4 DEF UplTyped, receiver, folder
<1>8. \A r \in Session \ {s} : queue'[r] = queue[r]
  BY <1>2
<1>9. CASE up' = up
  <2>1. UplTyped' /\ Elsewhere(s)
    BY <1>2, <1>3, <1>7, <1>8, <1>9 DEF Elsewhere
  <2>2. FlowInv /\ up'[s] = up[s] /\ current'[s] = current[s] /\ active'[s].of \in {active[s].of, NoUpload}
        /\ (job'[s].t = "creating" => job'[s] = job[s])
    BY <1>3, <1>9
  <2> QED
    BY <1>3, <1>4, <1>5, <1>6, <2>1, <2>2, CalmStep
<1>10. ASSUME current[s] \in Upload, NEW t \in {"chunk", "end", "abort"}, Sends(s, t)
       PROVE  FlowInv'
  <2> DEFINE m == [t |-> t, of |-> current[s]]
  <2>1. up' = [up EXCEPT ![s] = Append(@, m)]
    BY <1>10 DEF Sends
  <2>2. m \in Message /\ m.t # "start" /\ m.of = current[s]
    BY <1>10 DEF Message
  <2> HIDE DEF m
  <2>3. up'[s] = Append(up[s], m) /\ up[s] \in Seq(Message) /\ Follows(up[s])
    BY <1>1, <1>2, <2>1 DEF InTurn
  <2>4. up[s] # <<>> => up[s][Len(up[s])].of = m.of
    BY <1>1, <2>2 DEF InTurn
  <2>5. /\ up'[s] \in Seq(Message) /\ up'[s] # <<>> /\ Follows(up'[s])
        /\ up'[s][Len(up'[s])] = m
        /\ (up[s] # <<>> => up'[s][1] = up[s][1]) /\ (up[s] = <<>> => up'[s][1] = m)
        /\ \A i \in DOMAIN up'[s] : up'[s][i] = m \/ \E j \in DOMAIN up[s] : up'[s][i] = up[s][j]
        /\ \A v : \A i \in DOMAIN up'[s] :
             Starts(up'[s], v, i) => Starts(up[s], v, i) \/ (i = Len(up[s]) + 1 /\ m.t = "start" /\ v = m.of)
    <3>1. SentOn(up[s], m, up'[s])
      BY <2>2, <2>3, <2>4, SendingFollows
    <3> QED
      BY <3>1 DEF SentOn
  <2>6. \A v : \A i \in DOMAIN up'[s] : Starts(up'[s], v, i) => Starts(up[s], v, i)
    BY <2>2, <2>5
  <2>7. up' \in [Session -> Seq(Message)] /\ \A r \in Session \ {s} : up'[r] = up[r]
    BY <1>2, <2>1, <2>5
  <2>8. UplTyped' /\ Elsewhere(s)
    BY <1>3, <1>7, <1>8, <2>7 DEF Elsewhere
  <2>9. InTurn(s)'
    <3>1. up'[s][1].t = "start" \/ Expects(s, up'[s][1].of)
      BY <1>1, <2>2, <2>5 DEF InTurn
    <3>2. up'[s][1].t = "start" \/ Expects(s, up[s][1].of)'
      BY <1>3, <3>1 DEF Expects
    <3> QED
      BY <1>3, <2>2, <2>5, <3>2 DEF InTurn
  <2>10. \A i \in DOMAIN queue'[s] : i \in DOMAIN queue[s] /\ queue'[s][i] = queue[s][i]
    BY <1>4
  <2>11. Own(s)'
    <3>1. user[current[s]] = s
      BY <1>1, <1>10 DEF Own
    <3> QED
      BY <1>1, <1>3, <2>2, <2>5, <2>10, <3>1 DEF Own
  <2>12. \A v, i : Starts(up'[s], v, i) => Starts(up[s], v, i) /\ i \in DOMAIN up[s]
    BY <2>6 DEF Starts
  <2>13. Once(s)'
    <3>1. \A i, j \in DOMAIN queue'[s] : queue'[s][i] = queue'[s][j] => i = j
      BY <1>1, <2>10 DEF Once
    <3>2. \A v \in Upload, i, j \in DOMAIN up'[s] : Starts(up'[s], v, i) /\ Starts(up'[s], v, j) => i = j
      BY <1>1, <2>12 DEF Once
    <3>3. \A i \in DOMAIN queue'[s], j \in DOMAIN up'[s] : ~Starts(up'[s], queue'[s][i], j)
      BY <1>1, <2>10, <2>12 DEF Once
    <3>4. job[s].t = "creating" =>
           /\ \A i \in DOMAIN queue'[s] : queue'[s][i] # job[s].of
           /\ \A j \in DOMAIN up'[s] : ~Starts(up'[s], job[s].of, j)
      BY <1>1, <2>10, <2>12 DEF Once
    <3> QED
      BY <1>3, <3>1, <3>2, <3>3, <3>4 DEF Once
  <2>14. \A v \in Upload : ToCome(s, v)' => ToCome(s, v)
    BY <1>3, <2>10, <2>12 DEF ToCome
  <2> QED
    BY <1>3, <1>5, <1>6, <2>8, <2>9, <2>11, <2>13, <2>14, FlowStep
<1> QED
  BY <1>9, <1>10

LEMMA SenderStepFlows ==
    ASSUME FlowInv, NEW s \in Session, SenderStep(s)
    PROVE  FlowInv'
<1>1. UplTyped
  BY DEF FlowInv
<1>2. /\ at \in [Session -> {"idle", "loop", "reading", "ended"}]
      /\ \A r \in Session : at[r] # "idle" => current[r] \in Upload
      /\ queue \in [Session -> Seq(Upload)]
  BY <1>1 DEF UplTyped
<1>3. CASE \E u \in Upload : Enqueue(s, u)
  BY <1>3, EnqueueFlows
<1>4. CASE TransferStarts(s)
  BY <1>4, TransferStartsFlows
<1>5. CASE TransferGoesOn(s)
  <2>1. /\ at[s] = "loop" /\ current[s] \in Upload
        /\ \E w \in {"idle", "reading", "ended"} : at' = [at EXCEPT ![s] = w]
        /\ up' = up \/ Sends(s, "end")
        /\ queue' = queue /\ UNCHANGED <<user, current, receiver, folder, savedAt>>
    BY <1>2, <1>5 DEF TransferGoesOn
  <2>2. /\ at' \in [Session -> {"idle", "loop", "reading", "ended"}]
        /\ \A r \in Session : at'[r] # "idle" => at[r] # "idle"
    BY <1>2, <2>1
  <2> QED
    BY <2>1, <2>2, SenderFlows
<1>6. CASE ChunkRead(s)
  <2>1. /\ at[s] = "reading" /\ current[s] \in Upload
        /\ \E w \in {"idle", "loop"} : at' = [at EXCEPT ![s] = w]
        /\ up' = up \/ Sends(s, "chunk")
        /\ queue' = queue /\ UNCHANGED <<user, current, receiver, folder, savedAt>>
    BY <1>2, <1>6 DEF ChunkRead
  <2>2. /\ at' \in [Session -> {"idle", "loop", "reading", "ended"}]
        /\ \A r \in Session : at'[r] # "idle" => at[r] # "idle"
    BY <1>2, <2>1
  <2> QED
    BY <2>1, <2>2, SenderFlows
<1>7. CASE EndAnswered(s)
  <2>1. /\ at' = [at EXCEPT ![s] = "idle"] /\ up' = up /\ queue' = queue
        /\ UNCHANGED <<user, current, receiver, folder, savedAt>>
    BY <1>7 DEF EndAnswered, channel
  <2>2. /\ at' \in [Session -> {"idle", "loop", "reading", "ended"}]
        /\ \A r \in Session : at'[r] # "idle" => at[r] # "idle"
    BY <1>2, <2>1
  <2> QED
    BY <2>1, <2>2, SenderFlows
<1>8. CASE CancelAll(s)
  <2>1. /\ current[s] \in Upload /\ at' = at
        /\ queue' = [queue EXCEPT ![s] = <<>>]
        /\ up' = up \/ Sends(s, "abort")
        /\ UNCHANGED <<user, current, receiver, folder, savedAt>>
    BY <1>2, <1>8 DEF CancelAll
  <2> QED
    BY <1>2, <2>1, SenderFlows
<1>9. CASE SenderHears(s)
  <2>1. /\ at' = at /\ up' = up
        /\ queue' = queue \/ queue' = [queue EXCEPT ![s] = <<>>]
        /\ UNCHANGED <<user, current, receiver, folder, savedAt>>
    BY <1>9 DEF SenderHears
  <2> QED
    BY <1>2, <2>1, SenderFlows
<1> QED
  BY <1>3, <1>4, <1>5, <1>6, <1>7, <1>8, <1>9 DEF SenderStep
-----------------------------------------------------------------------------
(* The receiver                                                             *)

LEMMA TakeStep ==
    ASSUME FlowInv, UplTyped', NEW s \in Session, NEW u \in Upload, NEW t,
           ReceiverTakes(s, [t |-> t, of |-> u]), Elsewhere(s), OneJob(s)',
           user' = user, queue' = queue, current' = current,
           active'[s].of \in {active[s].of, NoUpload},
           t = "start" => active'[s].of = NoUpload,
           job'[s].t = "creating" => t = "start" /\ job'[s].of = u,
           \A v \in Upload : Unknown(v) => Unknown(v)'
    PROVE  FlowInv'
<1>1. UplTyped /\ OneJob(s) /\ InTurn(s) /\ Own(s) /\ Once(s)
  BY DEF FlowInv
<1> DEFINE m == [t |-> t, of |-> u]
<1>2. up[s] # <<>> /\ Head(up[s]) = m /\ m.t = t /\ m.of = u /\ up' = [up EXCEPT ![s] = Tail(@)] /\ job[s] = NoJob
  BY DEF ReceiverTakes
<1> HIDE DEF m
<1>3. up \in [Session -> Seq(Message)]
  BY <1>1 DEF UplTyped
<1>4. up'[s] = Tail(up[s]) /\ up[s] \in Seq(Message) /\ Follows(up[s])
  BY <1>1, <1>2, <1>3 DEF InTurn
<1>5. /\ up'[s] \in Seq(Message) /\ Follows(up'[s]) /\ 1 \in DOMAIN up[s] /\ up[s][1] = m
      /\ up'[s] # <<>> => /\ up'[s][1].t = "start" \/ up'[s][1].of = m.of
                          /\ up'[s][Len(up'[s])] = up[s][Len(up[s])]
      /\ up'[s] = <<>> => up[s][Len(up[s])] = m
      /\ \A i \in DOMAIN up'[s] : up'[s][i] = up[s][i + 1] /\ i + 1 \in DOMAIN up[s] /\ i + 1 # 1 /\ i \in Nat
  <2>1. TakenOn(up[s], up'[s])
    BY <1>2, <1>4, TakingFollows
  <2> QED
    BY <1>2, <2>1 DEF TakenOn
<1>6. Expects(s, u)'
  <2>1. t = "start" \/ Expects(s, u)
    BY <1>1, <1>2, <1>5 DEF InTurn
  <2> QED
    BY <2>1 DEF Expects
<1>7. up[s][Len(up[s])].of = current[s]
  BY <1>1, <1>2 DEF InTurn
<1>8. InTurn(s)'
  BY <1>2, <1>5, <1>6, <1>7 DEF InTurn, Expects
<1>9. user[u] = s
  BY <1>1, <1>2, <1>5 DEF Own
<1>10. Own(s)'
  <2>1. ASSUME NEW i \in DOMAIN up'[s] PROVE user'[up'[s][i].of] = s
    <3>1. up'[s][i] = up[s][i + 1] /\ i + 1 \in DOMAIN up[s]
      BY <1>5
    <3> QED
      BY <1>1, <3>1 DEF Own
  <2>2. \A i \in DOMAIN queue'[s] : user'[queue'[s][i]] = s
    BY <1>1 DEF Own
  <2>3. /\ active'[s].of # NoUpload => user'[active'[s].of] = s
        /\ current'[s] # NoUpload => user'[current'[s]] = s
    BY <1>1 DEF Own
  <2>4. job'[s].t = "creating" => user'[job'[s].of] = s
    BY <1>9
  <2> QED
    BY <2>1, <2>2, <2>3, <2>4 DEF Own
<1>11. \A v, i : Starts(up'[s], v, i) => Starts(up[s], v, i + 1) /\ i \in Nat /\ i + 1 \in DOMAIN up[s] /\ i + 1 # 1
  BY <1>5 DEF Starts
<1>12. t = "start" => Starts(up[s], u, 1) /\ 1 \in DOMAIN up[s]
  BY <1>2, <1>5 DEF Starts
<1>13. Once(s)'
  <2>1. \A i, j \in DOMAIN queue'[s] : queue'[s][i] = queue'[s][j] => i = j
    BY <1>1 DEF Once
  <2>2. \A v \in Upload, i, j \in DOMAIN up'[s] : Starts(up'[s], v, i) /\ Starts(up'[s], v, j) => i = j
    <3>1. \A v \in Upload, i, j \in DOMAIN up'[s] : Starts(up'[s], v, i) /\ Starts(up'[s], v, j) => i + 1 = j + 1
      BY <1>1, <1>11 DEF Once
    <3> QED
      BY <1>5, <3>1
  <2>3. \A i \in DOMAIN queue'[s], j \in DOMAIN up'[s] : ~Starts(up'[s], queue'[s][i], j)
    BY <1>1, <1>11 DEF Once
  <2>4. job'[s].t = "creating" =>
         /\ \A i \in DOMAIN queue'[s] : queue'[s][i] # job'[s].of
         /\ \A j \in DOMAIN up'[s] : ~Starts(up'[s], job'[s].of, j)
    BY <1>1, <1>11, <1>12 DEF Once
  <2> QED
    BY <2>1, <2>2, <2>3, <2>4 DEF Once
<1>14. \A v \in Upload : ToCome(s, v)' => ToCome(s, v)
  BY <1>11, <1>12 DEF ToCome
<1> QED
  BY <1>8, <1>10, <1>13, <1>14, FlowStep

LEMMA Takes ==
    ASSUME UplTyped, NEW s \in Session, NEW u \in Upload, NEW t, ReceiverTakes(s, [t |-> t, of |-> u])
    PROVE  /\ up' \in [Session -> Seq(Message)] /\ job[s].t = "none" /\ life[s] = "on"
           /\ \A r \in Session \ {s} : up'[r] = up[r]
<1>1. up \in [Session -> Seq(Message)]
  BY DEF UplTyped
<1>2. up[s] # <<>> /\ up' = [up EXCEPT ![s] = Tail(@)] /\ job[s] = NoJob /\ life[s] = "on"
  BY DEF ReceiverTakes
<1>3. Tail(up[s]) \in Seq(Message)
  BY <1>1, <1>2
<1> QED
  BY <1>1, <1>2, <1>3 DEF NoJob

(* A drop makes no upload known.                                            *)
LEMMA DropCalm ==
    ASSUME UplTyped, NEW s \in Session, OneJob(s), DropsReceive(s),
           data' = data, stale' = stale, savedAt' = savedAt
    PROVE  /\ \A v \in Upload : Unknown(v) => Unknown(v)'
           /\ \A r \in Session \ {s} : active'[r] = active[r]
           /\ active'[s] = NoReceive /\ active'[s].of = NoUpload
<1>1. /\ active' = [active EXCEPT ![s] = NoReceive]
      /\ \A n \in Slot : /\ part'[n] = part[n] \/ (part'[n] = NoUpload /\ n = At(s))
                         /\ final'[n] = final[n] \/ (final'[n] = NoFile /\ n = At(s))
  BY Dropped
<1>2. active \in [Session -> [of : UploadOrNone, slot : SlotOrNone, written : Nat]]
  BY DEF UplTyped
<1>3. active'[s] = NoReceive /\ active'[s].of = NoUpload /\ \A r \in Session \ {s} : active'[r] = active[r]
  BY <1>1, <1>2 DEF NoReceive
<1>4. \A v \in Upload : \A n \in Slot : /\ part'[n] = v => part[n] = v
                                        /\ final'[n].of = v => final[n].of = v
  BY <1>1 DEF NoFile
<1>5. \A v \in Upload : \A r \in Session : active'[r].of = v => active[r].of = v
  BY <1>3
<1> QED
  BY <1>3, <1>4, <1>5 DEF Unknown

LEMMA OnStartFlows ==
    ASSUME FlowInv, NEW s \in Session, NEW u \in Upload, OnStart(s, u)
    PROVE  FlowInv'
<1>1. UplTyped /\ OneJob(s)
  BY DEF FlowInv
<1>2. /\ ReceiverTakes(s, [t |-> "start", of |-> u]) /\ DropsReceive(s)
      /\ job' = job \/ Awaits(s, "creating", u)
      /\ UNCHANGED <<sender, life, accepted, sweeping, data, stale, savedAt>>
  BY DEF OnStart
<1>3. /\ up' \in [Session -> Seq(Message)] /\ job[s].t = "none" /\ life[s] = "on"
      /\ \A r \in Session \ {s} : up'[r] = up[r]
  BY <1>1, <1>2, Takes
<1>4. /\ active' \in [Session -> [of : UploadOrNone, slot : SlotOrNone, written : Nat]]
      /\ part' \in [Slot -> UploadOrNone]
      /\ final' \in [Slot -> [of : UploadOrNone, whole : BOOLEAN]]
      /\ retrying' \in [Session -> SUBSET Path]
  BY <1>1, <1>2, Dropped
<1>5. /\ \A v \in Upload : Unknown(v) => Unknown(v)'
      /\ \A r \in Session \ {s} : active'[r] = active[r]
      /\ active'[s] = NoReceive /\ active'[s].of = NoUpload
  BY <1>1, <1>2, DropCalm
<1>6. /\ job \in [Session -> [t : {"none", "creating", "renaming", "renamed", "failed"},
                              of : UploadOrNone, slot : SlotOrNone]]
      /\ active \in [Session -> [of : UploadOrNone, slot : SlotOrNone, written : Nat]]
  BY <1>1 DEF UplTyped
<1>7. /\ job' \in [Session -> [t : {"none", "creating", "renaming", "renamed", "failed"},
                              of : UploadOrNone, slot : SlotOrNone]]
      /\ \A r \in Session \ {s} : job'[r] = job[r]
      /\ job'[s].t = "none" \/ (job'[s].t = "creating" /\ job'[s].of = u)
  <2>1. CASE job' = job
    BY <1>3, <1>6, <2>1
  <2>2. CASE Awaits(s, "creating", u)
    <3> DEFINE j == [t |-> "creating", of |-> u, slot |-> At(s)]
    <3>1. job' = [job EXCEPT ![s] = j]
      BY <2>2 DEF Awaits
    <3>2. /\ j \in [t : {"none", "creating", "renaming", "renamed", "failed"},
                    of : UploadOrNone, slot : SlotOrNone]
          /\ j.t = "creating" /\ j.of = u
      BY <1>6 DEF At, UploadOrNone
    <3> HIDE DEF j
    <3> QED
      BY <1>6, <3>1, <3>2
  <2> QED
    BY <1>2, <2>1, <2>2
<1>8. UplTyped'
  BY <1>1, <1>2, <1>3, <1>4, <1>7 DEF UplTyped, sender
<1>9. Elsewhere(s)
  BY <1>2, <1>3, <1>5, <1>7 DEF Elsewhere, sender
<1>10. OneJob(s)'
  BY <1>2, <1>3, <1>5, <1>7 DEF OneJob
<1> QED
  BY <1>2, <1>5, <1>7, <1>8, <1>9, <1>10, TakeStep DEF sender

LEMMA OnChunkFlows ==
    ASSUME FlowInv, NEW s \in Session, NEW u \in Upload, OnChunk(s, u)
    PROVE  FlowInv'
<1>1. UplTyped /\ OneJob(s)
  BY DEF FlowInv
<1>2. /\ ReceiverTakes(s, [t |-> "chunk", of |-> u])
      /\ UNCHANGED <<sender, life, job, accepted, sweeping, savedAt>>
  BY DEF OnChunk
<1>3. /\ up' \in [Session -> Seq(Message)] /\ job[s].t = "none" /\ life[s] = "on"
      /\ \A r \in Session \ {s} : up'[r] = up[r]
  BY <1>1, <1>2, Takes
<1>4. /\ active \in [Session -> [of : UploadOrNone, slot : SlotOrNone, written : Nat]]
      /\ data \in [Upload -> Seq(Upload)] /\ stale \subseteq Upload
  BY <1>1 DEF UplTyped
<1>5. ASSUME /\ active' \in [Session -> [of : UploadOrNone, slot : SlotOrNone, written : Nat]]
             /\ part' \in [Slot -> UploadOrNone]
             /\ final' \in [Slot -> [of : UploadOrNone, whole : BOOLEAN]]
             /\ retrying' \in [Session -> SUBSET Path]
             /\ data' \in [Upload -> Seq(Upload)] /\ stale' \subseteq Upload,
             \A v \in Upload : Unknown(v) => Unknown(v)',
             \A r \in Session \ {s} : active'[r] = active[r],
             active'[s].of \in {active[s].of, NoUpload},
             OneJob(s)'
      PROVE  FlowInv'
  <2>1. UplTyped'
    BY <1>1, <1>2, <1>3, <1>5 DEF UplTyped, sender
  <2>2. Elsewhere(s)
    BY <1>2, <1>3, <1>5 DEF Elsewhere, sender
  <2>3. job'[s].t # "creating" /\ user' = user /\ queue' = queue /\ current' = current
    BY <1>2, <1>3 DEF sender
  <2> QED
    BY <1>2, <1>5, <2>1, <2>2, <2>3, TakeStep
<1>6. CASE UNCHANGED <<active, part, final, retrying, down, data, stale>>
  BY <1>1, <1>2, <1>3, <1>5, <1>6 DEF UplTyped, OneJob, Receiving, Unknown
<1>7. CASE /\ active[s] # NoReceive
           /\ active' = [active EXCEPT ![s].written = @ + 1]
           /\ data' = [data EXCEPT ![active[s].of] = Append(@, u)]
           /\ stale' = stale \ {active[s].of}
           /\ UNCHANGED <<part, final, retrying, down>>
  <2>1. active[s].of # NoUpload /\ active[s].of \in Upload /\ active[s].written + 1 \in Nat
    BY <1>1, <1>4, <1>7 DEF OneJob, UploadOrNone
  <2>2. /\ active' = [active EXCEPT ![s] = [active[s] EXCEPT !.written = active[s].written + 1]]
        /\ [active[s] EXCEPT !.written = active[s].written + 1] \in [of : UploadOrNone, slot : SlotOrNone, written : Nat]
    BY <1>4, <1>7, <2>1
  <2>3. /\ active' \in [Session -> [of : UploadOrNone, slot : SlotOrNone, written : Nat]]
        /\ \A r \in Session \ {s} : active'[r] = active[r]
        /\ active'[s].of = active[s].of /\ active'[s].slot = active[s].slot
    BY <1>4, <2>2
  <2>4. Append(data[active[s].of], u) \in Seq(Upload)
    BY <1>4, <2>1
  <2>5. data' \in [Upload -> Seq(Upload)] /\ stale' \subseteq Upload
    BY <1>4, <1>7, <2>4
  <2>6. OneJob(s)'
    BY <1>1, <1>2, <1>3, <2>1, <2>3 DEF OneJob
  <2>7. \A v \in Upload : Unknown(v) => Unknown(v)'
    <3> SUFFICES ASSUME NEW v \in Upload, Unknown(v) PROVE Unknown(v)'
      OBVIOUS
    <3>1. v # active[s].of
      BY DEF Unknown
    <3>2. data'[v] = data[v] /\ stale' \subseteq stale /\ part' = part /\ final' = final /\ savedAt' = savedAt
      BY <1>2, <1>4, <1>7, <3>1
    <3>3. \A r \in Session : active'[r].of = active[r].of
      BY <2>3
    <3> QED
      BY <3>2, <3>3 DEF Unknown
  <2> QED
    BY <1>1, <1>5, <1>7, <2>3, <2>5, <2>6, <2>7 DEF UplTyped
<1>8. CASE AbortsReceive(s) /\ UNCHANGED <<data, stale>>
  <2>1. DropsReceive(s)
    BY <1>8 DEF AbortsReceive
  <2>2. /\ active' \in [Session -> [of : UploadOrNone, slot : SlotOrNone, written : Nat]]
        /\ part' \in [Slot -> UploadOrNone]
        /\ final' \in [Slot -> [of : UploadOrNone, whole : BOOLEAN]]
        /\ retrying' \in [Session -> SUBSET Path]
    BY <1>1, <2>1, Dropped
  <2>3. /\ \A v \in Upload : Unknown(v) => Unknown(v)'
        /\ \A r \in Session \ {s} : active'[r] = active[r]
        /\ active'[s] = NoReceive /\ active'[s].of = NoUpload
    BY <1>1, <1>2, <1>8, <2>1, DropCalm
  <2>4. OneJob(s)'
    BY <1>2, <1>3, <2>3 DEF OneJob
  <2> QED
    BY <1>4, <1>5, <1>8, <2>2, <2>3, <2>4
<1> QED
  BY <1>6, <1>7, <1>8 DEF OnChunk

LEMMA OnEndFlows ==
    ASSUME FlowInv, NEW s \in Session, NEW u \in Upload, OnEnd(s, u) \/ OnAbort(s, u)
    PROVE  FlowInv'
<1>1. UplTyped /\ OneJob(s)
  BY DEF FlowInv
<1>2. PICK t \in {"end", "abort"} :
        /\ ReceiverTakes(s, [t |-> t, of |-> u])
        /\ UNCHANGED <<sender, life, accepted, sweeping, data, stale, savedAt>>
  BY DEF OnEnd, OnAbort
<1>3. /\ up' \in [Session -> Seq(Message)] /\ job[s].t = "none" /\ life[s] = "on"
      /\ \A r \in Session \ {s} : up'[r] = up[r]
  BY <1>1, <1>2, Takes
<1>4. /\ active \in [Session -> [of : UploadOrNone, slot : SlotOrNone, written : Nat]]
      /\ job \in [Session -> [t : {"none", "creating", "renaming", "renamed", "failed"},
                              of : UploadOrNone, slot : SlotOrNone]]
  BY <1>1 DEF UplTyped
<1>5. ASSUME /\ active' \in [Session -> [of : UploadOrNone, slot : SlotOrNone, written : Nat]]
             /\ part' \in [Slot -> UploadOrNone]
             /\ final' \in [Slot -> [of : UploadOrNone, whole : BOOLEAN]]
             /\ retrying' \in [Session -> SUBSET Path]
             /\ job' \in [Session -> [t : {"none", "creating", "renaming", "renamed", "failed"},
                                      of : UploadOrNone, slot : SlotOrNone]],
             \A v \in Upload : Unknown(v) => Unknown(v)',
             \A r \in Session \ {s} : active'[r] = active[r] /\ job'[r] = job[r],
             active'[s].of \in {active[s].of, NoUpload},
             job'[s].t # "creating", OneJob(s)'
      PROVE  FlowInv'
  <2>1. UplTyped'
    BY <1>1, <1>2, <1>3, <1>5 DEF UplTyped, sender
  <2>2. Elsewhere(s)
    BY <1>2, <1>3, <1>5 DEF Elsewhere, sender
  <2>3. user' = user /\ queue' = queue /\ current' = current
    BY <1>2 DEF sender
  <2> QED
    BY <1>2, <1>5, <2>1, <2>2, <2>3, TakeStep
<1>6. CASE UNCHANGED <<active, part, final, retrying, job>>
  BY <1>1, <1>2, <1>3, <1>5, <1>6 DEF UplTyped, OneJob, Receiving, Unknown
<1>7. CASE /\ active[s].of = u /\ Awaits(s, "renaming", u)
           /\ UNCHANGED <<active, part, final, retrying>>
  <2> DEFINE j == [t |-> "renaming", of |-> u, slot |-> At(s)]
  <2>1. job' = [job EXCEPT ![s] = j]
    BY <1>7 DEF Awaits
  <2>2. active[s].slot \in Slot
    BY <1>1, <1>7 DEF OneJob
  <2>3. /\ j \in [t : {"none", "creating", "renaming", "renamed", "failed"},
                  of : UploadOrNone, slot : SlotOrNone]
        /\ j.t = "renaming" /\ j.of = u /\ j.slot = active[s].slot
    BY <1>4 DEF At, UploadOrNone
  <2> HIDE DEF j
  <2>4. /\ job' \in [Session -> [t : {"none", "creating", "renaming", "renamed", "failed"},
                                 of : UploadOrNone, slot : SlotOrNone]]
        /\ \A r \in Session \ {s} : job'[r] = job[r]
        /\ job'[s] = j
    BY <1>4, <2>1, <2>3
  <2>5. OneJob(s)'
    BY <1>1, <1>2, <1>3, <1>7, <2>2, <2>3, <2>4 DEF OneJob, Receiving
  <2>6. \A v \in Upload : Unknown(v) => Unknown(v)'
    BY <1>2, <1>7 DEF Unknown
  <2> QED
    BY <1>1, <1>5, <1>7, <2>3, <2>4, <2>5, <2>6 DEF UplTyped
<1>8. CASE DropsReceive(s) /\ job' = job
  <2>2. /\ active' \in [Session -> [of : UploadOrNone, slot : SlotOrNone, written : Nat]]
        /\ part' \in [Slot -> UploadOrNone]
        /\ final' \in [Slot -> [of : UploadOrNone, whole : BOOLEAN]]
        /\ retrying' \in [Session -> SUBSET Path]
    BY <1>1, <1>8, Dropped
  <2>3. /\ \A v \in Upload : Unknown(v) => Unknown(v)'
        /\ \A r \in Session \ {s} : active'[r] = active[r]
        /\ active'[s] = NoReceive /\ active'[s].of = NoUpload
    BY <1>1, <1>2, <1>8, DropCalm
  <2>4. OneJob(s)'
    BY <1>2, <1>3, <1>8, <2>3 DEF OneJob
  <2> QED
    BY <1>3, <1>4, <1>5, <1>8, <2>2, <2>3, <2>4
<1> QED
  BY <1>6, <1>7, <1>8 DEF OnEnd, OnAbort, AbortsReceive

LEMMA CreatesFlows ==
    ASSUME FlowInv, NEW s \in Session, Creates(s)
    PROVE  FlowInv'
<1>0. PICK u : u = job[s].of
  OBVIOUS
<1>1. UplTyped /\ OneJob(s) /\ InTurn(s) /\ Own(s) /\ Once(s) /\ NoUpload \notin Upload
  BY DEF FlowInv
<1>2. /\ life[s] = "on" /\ job[s].t = "creating"
      /\ job' = [job EXCEPT ![s] = NoJob]
      /\ UNCHANGED <<sender, up, life, sweeping, retrying, data, stale, savedAt>>
  BY DEF Creates
<1>3. /\ active \in [Session -> [of : UploadOrNone, slot : SlotOrNone, written : Nat]]
      /\ job \in [Session -> [t : {"none", "creating", "renaming", "renamed", "failed"},
                              of : UploadOrNone, slot : SlotOrNone]]
      /\ part \in [Slot -> UploadOrNone] /\ final \in [Slot -> [of : UploadOrNone, whole : BOOLEAN]]
  BY <1>1 DEF UplTyped
<1>4. u \in Upload /\ active[s].of = NoUpload /\ user[u] = s
  BY <1>0, <1>1, <1>2 DEF OneJob, Own
<1>5. /\ job' \in [Session -> [t : {"none", "creating", "renaming", "renamed", "failed"},
                              of : UploadOrNone, slot : SlotOrNone]]
      /\ job'[s].t = "none" /\ \A r \in Session \ {s} : job'[r] = job[r]
  <2>1. /\ NoJob \in [t : {"none", "creating", "renaming", "renamed", "failed"},
                      of : UploadOrNone, slot : SlotOrNone]
        /\ NoJob.t = "none"
    BY DEF NoJob, UploadOrNone, SlotOrNone
  <2> QED
    BY <1>2, <1>3, <2>1
<1>6. CASE UNCHANGED <<part, final, active>>
  <2>1. UplTyped'
    BY <1>1, <1>2, <1>5, <1>6 DEF UplTyped, sender
  <2>2. Elsewhere(s) /\ OneJob(s)'
    BY <1>1, <1>2, <1>5, <1>6 DEF Elsewhere, sender, OneJob, Receiving
  <2>3. \A v \in Upload : Unknown(v) => Unknown(v)'
    BY <1>2, <1>6 DEF Unknown
  <2>4. /\ user' = user /\ up'[s] = up[s] /\ current'[s] = current[s] /\ queue'[s] \in {queue[s], <<>>}
        /\ active'[s].of \in {active[s].of, NoUpload} /\ job'[s].t # "creating"
    BY <1>2, <1>5, <1>6 DEF sender
  <2> QED
    BY <2>1, <2>2, <2>3, <2>4, CalmStep
<1>7. ASSUME NEW n \in FreeSlots,
             part' = [part EXCEPT ![n] = u],
             final' = [final EXCEPT ![n] = [of |-> u, whole |-> FALSE]],
             active' = [active EXCEPT ![s] = [of |-> u, slot |-> n, written |-> 0]]
      PROVE  FlowInv'
  <2>1. n \in Slot
    BY DEF FreeSlots
  <2>2. /\ [of |-> u, slot |-> n, written |-> 0] \in [of : UploadOrNone, slot : SlotOrNone, written : Nat]
        /\ [of |-> u, whole |-> FALSE] \in [of : UploadOrNone, whole : BOOLEAN] /\ u \in UploadOrNone
    BY <1>4, <2>1 DEF UploadOrNone, SlotOrNone
  <2>3. /\ active' \in [Session -> [of : UploadOrNone, slot : SlotOrNone, written : Nat]]
        /\ part' \in [Slot -> UploadOrNone] /\ final' \in [Slot -> [of : UploadOrNone, whole : BOOLEAN]]
    BY <1>3, <1>7, <2>2
  <2>4. active'[s].of = u /\ active'[s].slot = n /\ \A r \in Session \ {s} : active'[r] = active[r]
    BY <1>3, <1>7
  <2>5. UplTyped'
    BY <1>1, <1>2, <1>5, <2>3 DEF UplTyped, sender
  <2>6. Elsewhere(s)
    BY <1>2, <1>5, <2>4 DEF Elsewhere, sender
  <2>7. OneJob(s)'
    BY <1>2, <1>4, <1>5, <2>1, <2>4 DEF OneJob
  <2>8. user' = user /\ queue' = queue /\ current' = current /\ up' = up
    BY <1>2 DEF sender
  <2>9. InTurn(s)'
    BY <1>0, <1>1, <1>2, <1>5, <2>4, <2>8 DEF InTurn, Expects
  <2>10. Own(s)'
    BY <1>0, <1>1, <1>4, <1>5, <2>4, <2>8 DEF Own
  <2>11. Once(s)'
    BY <1>0, <1>1, <1>5, <2>8 DEF Once
  <2>12. \A v \in Upload : ToCome(s, v)' => ToCome(s, v)
    BY <1>5, <2>8 DEF ToCome
  <2>13. ~ToCome(s, u)'
    BY <1>0, <1>1, <1>2, <1>5, <2>8 DEF ToCome, Once, Starts
  <2>14. \A v \in Upload : Unknown(v) => Unknown(v)' \/ (user[v] = s /\ ~ToCome(s, v)')
    <3> SUFFICES ASSUME NEW v \in Upload, Unknown(v), v # u PROVE Unknown(v)'
      BY <1>4, <2>13
    <3>1. \A k \in Slot : part'[k] # v /\ final'[k].of # v
      BY <1>3, <1>7 DEF Unknown
    <3>2. \A r \in Session : active'[r].of # v
      BY <2>4 DEF Unknown
    <3> QED
      BY <1>2, <3>1, <3>2 DEF Unknown
  <2> QED
    BY <2>5, <2>6, <2>7, <2>8, <2>9, <2>10, <2>11, <2>12, <2>14, FlowStep
<1> QED
  BY <1>0, <1>6, <1>7 DEF Creates

LEMMA RenamesFlows ==
    ASSUME FlowInv, NEW s \in Session, Renames(s)
    PROVE  FlowInv'
<1> DEFINE n == job[s].slot
<1>1. UplTyped /\ OneJob(s)
  BY DEF FlowInv
<1>2. /\ job[s].t = "renaming" /\ \E w \in {"renamed", "failed"} : job' = [job EXCEPT ![s].t = w]
      /\ \/ /\ final' = [final EXCEPT ![n] = [of |-> part[n], whole |-> TRUE]]
            /\ part' = [part EXCEPT ![n] = NoUpload]
         \/ UNCHANGED <<part, final>>
      /\ UNCHANGED <<sender, channel, life, active, accepted, sweeping, retrying, data, stale, savedAt>>
  BY DEF Renames
<1>3. /\ job \in [Session -> [t : {"none", "creating", "renaming", "renamed", "failed"},
                              of : UploadOrNone, slot : SlotOrNone]]
      /\ part \in [Slot -> UploadOrNone] /\ final \in [Slot -> [of : UploadOrNone, whole : BOOLEAN]]
  BY <1>1 DEF UplTyped
<1>4. n \in Slot
  BY <1>1, <1>2 DEF OneJob
<1>5. /\ job' \in [Session -> [t : {"none", "creating", "renaming", "renamed", "failed"},
                               of : UploadOrNone, slot : SlotOrNone]]
      /\ \A r \in Session \ {s} : job'[r] = job[r]
      /\ job'[s].t \in {"renamed", "failed"} /\ job'[s].of = job[s].of /\ job'[s].slot = job[s].slot
  <2>1. PICK w \in {"renamed", "failed"} : job' = [job EXCEPT ![s].t = w]
    BY <1>2
  <2>2. job' = [job EXCEPT ![s] = [job[s] EXCEPT !.t = w]]
    BY <2>1
  <2>3. [job[s] EXCEPT !.t = w] \in [t : {"none", "creating", "renaming", "renamed", "failed"},
                                     of : UploadOrNone, slot : SlotOrNone]
    BY <1>3
  <2> QED
    BY <1>3, <2>2, <2>3
<1>6. /\ part' \in [Slot -> UploadOrNone] /\ final' \in [Slot -> [of : UploadOrNone, whole : BOOLEAN]]
      /\ \A k \in Slot : /\ part'[k] \in {part[k], NoUpload}
                         /\ final'[k].of = final[k].of \/ final'[k].of = part[k]
  <2>1. [of |-> part[n], whole |-> TRUE] \in [of : UploadOrNone, whole : BOOLEAN] /\ NoUpload \in UploadOrNone
    BY <1>3, <1>4 DEF UploadOrNone
  <2>2. CASE /\ final' = [final EXCEPT ![n] = [of |-> part[n], whole |-> TRUE]]
             /\ part' = [part EXCEPT ![n] = NoUpload]
    <3> DEFINE f == [of |-> part[n], whole |-> TRUE]
    <3>1. f \in [of : UploadOrNone, whole : BOOLEAN] /\ f.of = part[n] /\ final' = [final EXCEPT ![n] = f]
      BY <2>1, <2>2
    <3> HIDE DEF f
    <3>2. part' \in [Slot -> UploadOrNone] /\ \A k \in Slot : part'[k] \in {part[k], NoUpload}
      BY <1>3, <2>1, <2>2
    <3>3. final' \in [Slot -> [of : UploadOrNone, whole : BOOLEAN]]
      BY <1>3, <3>1
    <3>4. \A k \in Slot : final'[k] = final[k] \/ (k = n /\ final'[k] = f)
      BY <1>3, <3>1
    <3> QED
      BY <3>1, <3>2, <3>3, <3>4
  <2> QED
    BY <1>2, <1>3, <2>2
<1>7. UplTyped'
  BY <1>1, <1>2, <1>5, <1>6 DEF UplTyped, sender, channel
<1>8. Elsewhere(s)
  BY <1>2, <1>5 DEF Elsewhere, sender, channel
<1>9. OneJob(s)'
  BY <1>1, <1>2, <1>5 DEF OneJob, Receiving
<1>10. \A v \in Upload : Unknown(v) => Unknown(v)'
  BY <1>2, <1>6 DEF Unknown
<1>11. /\ user' = user /\ up'[s] = up[s] /\ current'[s] = current[s] /\ queue'[s] \in {queue[s], <<>>}
       /\ active'[s].of \in {active[s].of, NoUpload} /\ job'[s].t # "creating"
  BY <1>2, <1>5 DEF sender, channel
<1> QED
  BY <1>7, <1>8, <1>9, <1>10, <1>11, CalmStep

LEMMA EndsFileFlows ==
    ASSUME FlowInv, NEW s \in Session, EndsFile(s)
    PROVE  FlowInv'
<1>1. UplTyped /\ OneJob(s)
  BY DEF FlowInv
<1>2. /\ life[s] = "on" /\ job[s].t \in {"renamed", "failed"}
      /\ job' = [job EXCEPT ![s] = NoJob]
      /\ UNCHANGED <<sender, up, life, accepted, sweeping, data, stale>>
  BY DEF EndsFile
<1>3. /\ active \in [Session -> [of : UploadOrNone, slot : SlotOrNone, written : Nat]]
      /\ job \in [Session -> [t : {"none", "creating", "renaming", "renamed", "failed"},
                              of : UploadOrNone, slot : SlotOrNone]]
  BY <1>1 DEF UplTyped
<1>4. /\ job' \in [Session -> [t : {"none", "creating", "renaming", "renamed", "failed"},
                               of : UploadOrNone, slot : SlotOrNone]]
      /\ job'[s].t = "none" /\ \A r \in Session \ {s} : job'[r] = job[r]
  <2>1. /\ NoJob \in [t : {"none", "creating", "renaming", "renamed", "failed"},
                      of : UploadOrNone, slot : SlotOrNone]
        /\ NoJob.t = "none"
    BY DEF NoJob, UploadOrNone, SlotOrNone
  <2> QED
    BY <1>2, <1>3, <2>1
<1>5. ASSUME /\ active' \in [Session -> [of : UploadOrNone, slot : SlotOrNone, written : Nat]]
             /\ part' \in [Slot -> UploadOrNone]
             /\ final' \in [Slot -> [of : UploadOrNone, whole : BOOLEAN]]
             /\ retrying' \in [Session -> SUBSET Path]
             /\ savedAt' \subseteq Upload \X Slot,
             \A v \in Upload : Unknown(v) => Unknown(v)',
             \A r \in Session \ {s} : active'[r] = active[r],
             active'[s] = NoReceive, active'[s].of = NoUpload
      PROVE  FlowInv'
  <2>1. UplTyped'
    BY <1>1, <1>2, <1>4, <1>5 DEF UplTyped, sender
  <2>2. Elsewhere(s)
    BY <1>2, <1>4, <1>5 DEF Elsewhere, sender
  <2>3. OneJob(s)'
    BY <1>2, <1>4, <1>5 DEF OneJob
  <2>4. user' = user /\ queue' = queue /\ current' = current /\ up' = up
    BY <1>2 DEF sender
  <2> QED
    BY <1>4, <1>5, <2>1, <2>2, <2>3, <2>4, CalmStep
<1>6. CASE /\ active' = [active EXCEPT ![s] = NoReceive]
           /\ savedAt' = savedAt \cup {<<job[s].of, job[s].slot>>}
           /\ UNCHANGED <<part, final, retrying>>
  <2>1. /\ NoReceive \in [of : UploadOrNone, slot : SlotOrNone, written : Nat]
        /\ NoReceive.of = NoUpload
    BY DEF NoReceive, UploadOrNone, SlotOrNone
  <2>2. /\ active' \in [Session -> [of : UploadOrNone, slot : SlotOrNone, written : Nat]]
        /\ \A r \in Session \ {s} : active'[r] = active[r]
        /\ active'[s] = NoReceive /\ active'[s].of = NoUpload
    BY <1>3, <1>6, <2>1
  <2>3. job[s].of \in Upload /\ job[s].slot \in Slot /\ active[s].of = job[s].of
    BY <1>1, <1>2 DEF OneJob, Receiving
  <2>4. savedAt' \subseteq Upload \X Slot
    BY <1>1, <1>6, <2>3 DEF UplTyped
  <2>5. \A v \in Upload : Unknown(v) => Unknown(v)'
    BY <1>2, <1>6, <2>2, <2>3 DEF Unknown
  <2> QED
    BY <1>1, <1>5, <1>6, <2>2, <2>4, <2>5 DEF UplTyped
<1>7. CASE DropsReceive(s) /\ savedAt' = savedAt
  <2>1. /\ active' \in [Session -> [of : UploadOrNone, slot : SlotOrNone, written : Nat]]
        /\ part' \in [Slot -> UploadOrNone]
        /\ final' \in [Slot -> [of : UploadOrNone, whole : BOOLEAN]]
        /\ retrying' \in [Session -> SUBSET Path]
    BY <1>1, <1>7, Dropped
  <2>2. /\ \A v \in Upload : Unknown(v) => Unknown(v)'
        /\ \A r \in Session \ {s} : active'[r] = active[r]
        /\ active'[s] = NoReceive /\ active'[s].of = NoUpload
    BY <1>1, <1>2, <1>7, DropCalm
  <2>3. savedAt' \subseteq Upload \X Slot
    BY <1>1, <1>7 DEF UplTyped
  <2> QED
    BY <1>5, <2>1, <2>2, <2>3
<1> QED
  BY <1>6, <1>7 DEF EndsFile, AbortsReceive
-----------------------------------------------------------------------------
(* Sessions, the folder and time                                            *)

LEMMA SessionStartsFlows ==
    ASSUME FlowInv, NEW s \in Session, SessionStarts(s)
    PROVE  FlowInv'
<1>1. UplTyped /\ OneJob(s)
  BY DEF FlowInv
<1>2. /\ life[s] = "off" /\ life' = [life EXCEPT ![s] = "on"]
      /\ UNCHANGED <<sender, channel, active, job, accepted, retrying, folder, savedAt>>
  BY DEF SessionStarts
<1>3. /\ life' \in [Session -> {"off", "on", "over", "crashed"}]
      /\ life'[s] = "on" /\ \A r \in Session \ {s} : life'[r] = life[r]
  BY <1>1, <1>2 DEF UplTyped
<1>4. UplTyped'
  BY <1>1, <1>2, <1>3 DEF UplTyped, sender, channel, folder
<1>5. Elsewhere(s)
  BY <1>2, <1>3 DEF Elsewhere, sender, channel
<1>6. OneJob(s)'
  BY <1>1, <1>2, <1>3 DEF OneJob
<1>7. \A v \in Upload : Unknown(v) => Unknown(v)'
  BY <1>2 DEF Unknown, folder
<1>8. /\ user' = user /\ up'[s] = up[s] /\ current'[s] = current[s] /\ queue'[s] \in {queue[s], <<>>}
      /\ active'[s].of \in {active[s].of, NoUpload} /\ (job'[s].t = "creating" => job'[s] = job[s])
  BY <1>2 DEF sender, channel
<1> QED
  BY <1>4, <1>5, <1>6, <1>7, <1>8, CalmStep

(* Files removed by a thread of the session or by its sweep.                *)
LEMMA RemovalFlows ==
    ASSUME FlowInv, NEW s \in Session,
           UNCHANGED <<sender, channel, life, active, job, data, stale, savedAt>>,
           part' \in [Slot -> UploadOrNone], final' \in [Slot -> [of : UploadOrNone, whole : BOOLEAN]],
           retrying' \in [Session -> SUBSET Path],
           \A n \in Slot : part'[n] \in {part[n], NoUpload} /\ final'[n].of \in {final[n].of, NoUpload}
    PROVE  FlowInv'
<1>1. UplTyped /\ OneJob(s) /\ NoUpload \notin Upload
  BY DEF FlowInv
<1>2. UplTyped'
  BY <1>1 DEF UplTyped, sender, channel
<1>3. Elsewhere(s) /\ OneJob(s)'
  BY <1>1 DEF Elsewhere, sender, channel, OneJob, Receiving
<1>4. \A v \in Upload : Unknown(v) => Unknown(v)'
  BY <1>1 DEF Unknown
<1>5. /\ user' = user /\ up'[s] = up[s] /\ current'[s] = current[s] /\ queue'[s] \in {queue[s], <<>>}
      /\ active'[s].of \in {active[s].of, NoUpload} /\ (job'[s].t = "creating" => job'[s] = job[s])
  BY DEF sender, channel
<1> QED
  BY <1>2, <1>3, <1>4, <1>5, CalmStep

LEMMA SweepsFlows ==
    ASSUME FlowInv, NEW s \in Session, Sweeps(s)
    PROVE  FlowInv'
<1> DEFINE old == {n \in Slot : part[n] \in stale}
<1>1. UplTyped
  BY DEF FlowInv
<1>2. /\ part' = [n \in Slot |-> IF n \in old THEN NoUpload ELSE part[n]]
      /\ final' = [n \in Slot |-> IF n \in old /\ ~final[n].whole THEN NoFile ELSE final[n]]
      /\ UNCHANGED <<sender, channel, life, active, job, accepted, retrying, data, stale, savedAt>>
  BY DEF Sweeps
<1>3. /\ part \in [Slot -> UploadOrNone] /\ final \in [Slot -> [of : UploadOrNone, whole : BOOLEAN]]
      /\ retrying \in [Session -> SUBSET Path]
  BY <1>1 DEF UplTyped
<1>4. NoFile \in [of : UploadOrNone, whole : BOOLEAN] /\ NoFile.of = NoUpload /\ NoUpload \in UploadOrNone
  BY DEF NoFile, UploadOrNone
<1> HIDE DEF old
<1>5. /\ part' \in [Slot -> UploadOrNone] /\ final' \in [Slot -> [of : UploadOrNone, whole : BOOLEAN]]
      /\ \A n \in Slot : part'[n] \in {part[n], NoUpload} /\ final'[n].of \in {final[n].of, NoUpload}
  BY <1>2, <1>3, <1>4
<1> QED
  BY <1>2, <1>3, <1>5, RemovalFlows

LEMMA RetriesFlows ==
    ASSUME FlowInv, NEW s \in Session, NEW p \in Path, Retries(s, p)
    PROVE  FlowInv'
<1>1. UplTyped
  BY DEF FlowInv
<1>2. /\ part' = IF p[1] = "part" THEN [part EXCEPT ![p[2]] = NoUpload] ELSE part
      /\ final' = IF p[1] = "final" THEN [final EXCEPT ![p[2]] = NoFile] ELSE final
      /\ retrying' = [retrying EXCEPT ![s] = @ \ {p}]
      /\ UNCHANGED <<sender, channel, life, active, job, accepted, sweeping, data, stale, savedAt>>
  BY DEF Retries
<1>3. /\ part \in [Slot -> UploadOrNone] /\ final \in [Slot -> [of : UploadOrNone, whole : BOOLEAN]]
      /\ retrying \in [Session -> SUBSET Path]
  BY <1>1 DEF UplTyped
<1>4. NoFile \in [of : UploadOrNone, whole : BOOLEAN] /\ NoFile.of = NoUpload /\ NoUpload \in UploadOrNone
  BY DEF NoFile, UploadOrNone
<1>5. /\ part' \in [Slot -> UploadOrNone]
      /\ \A n \in Slot : part'[n] \in {part[n], NoUpload}
  BY <1>2, <1>3, <1>4
<1>6. /\ final' \in [Slot -> [of : UploadOrNone, whole : BOOLEAN]]
      /\ \A n \in Slot : final'[n].of \in {final[n].of, NoUpload}
  BY <1>2, <1>3, <1>4
<1>7. retrying' \in [Session -> SUBSET Path]
  BY <1>2, <1>3
<1> QED
  BY <1>2, <1>5, <1>6, <1>7, RemovalFlows

(* A session that is over has nothing under way.                            *)
LEMMA CloseFlows ==
    ASSUME FlowInv, UplTyped', NEW s \in Session, Closes(s), user' = user,
           active'[s] = NoReceive, active'[s].of = NoUpload,
           life'[s] \in {"over", "crashed"},
           job'[s] = job[s] \/ job'[s].t = "none", job'[s].t # "creating",
           \A r \in Session \ {s} : active'[r] = active[r] /\ job'[r] = job[r] /\ life'[r] = life[r],
           \A v \in Upload : Unknown(v) => Unknown(v)'
    PROVE  FlowInv'
<1>1. UplTyped /\ OneJob(s)
  BY DEF FlowInv
<1>2. /\ queue' = [queue EXCEPT ![s] = <<>>] /\ current' = [current EXCEPT ![s] = NoUpload]
      /\ up' = [up EXCEPT ![s] = <<>>]
  BY DEF Closes
<1>3. /\ queue \in [Session -> Seq(Upload)] /\ current \in [Session -> UploadOrNone]
      /\ up \in [Session -> Seq(Message)]
  BY <1>1 DEF UplTyped
<1>4. /\ queue'[s] = <<>> /\ current'[s] = NoUpload /\ up'[s] = <<>>
      /\ \A r \in Session \ {s} : queue'[r] = queue[r] /\ current'[r] = current[r] /\ up'[r] = up[r]
  BY <1>2, <1>3
<1>5. Elsewhere(s)
  BY <1>4 DEF Elsewhere
<1>6. OneJob(s)'
  <2>1. life'[s] # "on" /\ life'[s] # "off"
    OBVIOUS
  <2>2. job'[s].t \in {"renaming", "renamed", "failed"} => job'[s].of \in Upload /\ job'[s].slot \in Slot
    BY <1>1 DEF OneJob
  <2> QED
    BY <2>1, <2>2 DEF OneJob
<1>7. DOMAIN <<>> = {}
  OBVIOUS
<1>8. InTurn(s)'
  BY <1>4, <1>7 DEF InTurn, Expects, Follows
<1>9. Own(s)' /\ Once(s)'
  BY <1>4, <1>7 DEF Own, Once
<1>10. \A v \in Upload : ~ToCome(s, v)'
  BY <1>4, <1>7 DEF ToCome, Starts
<1> QED
  BY <1>5, <1>6, <1>8, <1>9, <1>10, FlowStep

LEMMA ClosesTyped ==
    ASSUME UplTyped, NEW s \in Session, Closes(s)
    PROVE  /\ queue' \in [Session -> Seq(Upload)] /\ current' \in [Session -> UploadOrNone]
           /\ at' \in [Session -> {"idle", "loop", "reading", "ended"}]
           /\ \A r \in Session : at'[r] # "idle" => current'[r] \in Upload
           /\ up' \in [Session -> Seq(Message)]
<1>1. /\ queue \in [Session -> Seq(Upload)] /\ current \in [Session -> UploadOrNone]
      /\ at \in [Session -> {"idle", "loop", "reading", "ended"}]
      /\ \A r \in Session : at[r] # "idle" => current[r] \in Upload
      /\ up \in [Session -> Seq(Message)]
  BY DEF UplTyped
<1>2. /\ queue' = [queue EXCEPT ![s] = <<>>] /\ current' = [current EXCEPT ![s] = NoUpload]
      /\ up' = [up EXCEPT ![s] = <<>>] /\ at' = [at EXCEPT ![s] = "idle"]
  BY DEF Closes
<1>3. <<>> \in Seq(Upload) /\ <<>> \in Seq(Message) /\ NoUpload \in UploadOrNone
  BY DEF UploadOrNone
<1>4. queue' \in [Session -> Seq(Upload)]
  BY <1>1, <1>2, <1>3
<1>5. up' \in [Session -> Seq(Message)]
  BY <1>1, <1>2, <1>3
<1> QED
  BY <1>1, <1>2, <1>3, <1>4, <1>5

LEMMA SessionEndsFlows ==
    ASSUME FlowInv, NEW s \in Session, SessionEnds(s)
    PROVE  FlowInv'
<1>1. UplTyped /\ OneJob(s)
  BY DEF FlowInv
<1>2. /\ life[s] = "on" /\ life' = [life EXCEPT ![s] = "over"] /\ Closes(s) /\ DropsReceive(s)
      /\ job' = [job EXCEPT ![s] = IF @.t = "renaming" THEN @ ELSE NoJob]
      /\ UNCHANGED <<user, accepted, sweeping, data, stale, savedAt>>
  BY DEF SessionEnds
<1>3. /\ queue' \in [Session -> Seq(Upload)] /\ current' \in [Session -> UploadOrNone]
      /\ at' \in [Session -> {"idle", "loop", "reading", "ended"}]
      /\ \A r \in Session : at'[r] # "idle" => current'[r] \in Upload
      /\ up' \in [Session -> Seq(Message)]
  BY <1>1, <1>2, ClosesTyped
<1>4. /\ active' \in [Session -> [of : UploadOrNone, slot : SlotOrNone, written : Nat]]
      /\ part' \in [Slot -> UploadOrNone]
      /\ final' \in [Slot -> [of : UploadOrNone, whole : BOOLEAN]]
      /\ retrying' \in [Session -> SUBSET Path]
  BY <1>1, <1>2, Dropped
<1>5. /\ \A v \in Upload : Unknown(v) => Unknown(v)'
      /\ \A r \in Session \ {s} : active'[r] = active[r]
      /\ active'[s] = NoReceive /\ active'[s].of = NoUpload
  BY <1>1, <1>2, DropCalm
<1>6. /\ job \in [Session -> [t : {"none", "creating", "renaming", "renamed", "failed"},
                              of : UploadOrNone, slot : SlotOrNone]]
      /\ life \in [Session -> {"off", "on", "over", "crashed"}]
  BY <1>1 DEF UplTyped
<1>7. /\ NoJob \in [t : {"none", "creating", "renaming", "renamed", "failed"},
                    of : UploadOrNone, slot : SlotOrNone]
      /\ NoJob.t = "none"
  BY DEF NoJob, UploadOrNone, SlotOrNone
<1>8. /\ job' \in [Session -> [t : {"none", "creating", "renaming", "renamed", "failed"},
                               of : UploadOrNone, slot : SlotOrNone]]
      /\ life' \in [Session -> {"off", "on", "over", "crashed"}] /\ life'[s] = "over"
      /\ \A r \in Session \ {s} : job'[r] = job[r] /\ life'[r] = life[r]
      /\ (job'[s] = job[s] /\ job[s].t = "renaming") \/ job'[s].t = "none"
  BY <1>2, <1>6, <1>7
<1>9. UplTyped'
  BY <1>1, <1>2, <1>3, <1>4, <1>8 DEF UplTyped
<1> QED
  BY <1>2, <1>5, <1>8, <1>9, CloseFlows

LEMMA CrashFlows ==
    ASSUME FlowInv, NEW s \in Session, Crash(s)
    PROVE  FlowInv'
<1>1. UplTyped /\ OneJob(s)
  BY DEF FlowInv
<1>2. /\ life' = [life EXCEPT ![s] = "crashed"] /\ Closes(s)
      /\ active' = [active EXCEPT ![s] = NoReceive]
      /\ job' = [job EXCEPT ![s] = NoJob]
      /\ retrying' = [retrying EXCEPT ![s] = {}]
      /\ UNCHANGED <<user, accepted, folder, savedAt>>
  BY DEF Crash
<1>3. /\ queue' \in [Session -> Seq(Upload)] /\ current' \in [Session -> UploadOrNone]
      /\ at' \in [Session -> {"idle", "loop", "reading", "ended"}]
      /\ \A r \in Session : at'[r] # "idle" => current'[r] \in Upload
      /\ up' \in [Session -> Seq(Message)]
  BY <1>1, <1>2, ClosesTyped
<1>4. /\ active \in [Session -> [of : UploadOrNone, slot : SlotOrNone, written : Nat]]
      /\ job \in [Session -> [t : {"none", "creating", "renaming", "renamed", "failed"},
                              of : UploadOrNone, slot : SlotOrNone]]
      /\ life \in [Session -> {"off", "on", "over", "crashed"}]
      /\ retrying \in [Session -> SUBSET Path]
  BY <1>1 DEF UplTyped
<1>5. /\ NoJob \in [t : {"none", "creating", "renaming", "renamed", "failed"},
                    of : UploadOrNone, slot : SlotOrNone]
      /\ NoJob.t = "none"
      /\ NoReceive \in [of : UploadOrNone, slot : SlotOrNone, written : Nat] /\ NoReceive.of = NoUpload
  BY DEF NoJob, NoReceive, UploadOrNone, SlotOrNone
<1>6. /\ active' \in [Session -> [of : UploadOrNone, slot : SlotOrNone, written : Nat]]
      /\ job' \in [Session -> [t : {"none", "creating", "renaming", "renamed", "failed"},
                               of : UploadOrNone, slot : SlotOrNone]]
      /\ life' \in [Session -> {"off", "on", "over", "crashed"}] /\ life'[s] = "crashed"
      /\ \A r \in Session \ {s} : active'[r] = active[r] /\ job'[r] = job[r] /\ life'[r] = life[r]
      /\ active'[s] = NoReceive /\ active'[s].of = NoUpload /\ job'[s].t = "none"
  BY <1>2, <1>4, <1>5
<1>7. retrying' \in [Session -> SUBSET Path]
  BY <1>2, <1>4
<1>8. UplTyped'
  BY <1>1, <1>2, <1>3, <1>6, <1>7 DEF UplTyped, folder
<1>9. \A v \in Upload : Unknown(v) => Unknown(v)'
  BY <1>2, <1>6 DEF Unknown, folder
<1> QED
  BY <1>2, <1>6, <1>8, <1>9, CloseFlows

LEMMA TenMinutesPassFlows ==
    ASSUME FlowInv, NEW u \in Upload, TenMinutesPass(u)
    PROVE  FlowInv'
<1>1. /\ \E n \in Slot : part[n] = u
      /\ stale' = stale \cup {u} /\ UNCHANGED <<sender, channel, receiver, part, final, data, savedAt>>
  BY DEF TenMinutesPass
<1>2. UplTyped'
  BY <1>1 DEF FlowInv, UplTyped, sender, channel, receiver
<1>3. ASSUME NEW s \in Session
      PROVE  OneJob(s)' /\ InTurn(s)' /\ Own(s)' /\ Once(s)'
  BY <1>1 DEF FlowInv, OneJob, Receiving, InTurn, Expects, Own, Once, sender, channel, receiver
<1>4. ASSUME NEW v \in Upload
      PROVE  NewIsUnknown(v)'
  <2>1. (user'[v] = NoUpload \/ \E s \in Session : ToCome(s, v)')
          => (user[v] = NoUpload \/ \E s \in Session : ToCome(s, v))
    BY <1>1 DEF ToCome, sender, channel, receiver
  <2>2. Unknown(v) => Unknown(v)'
    BY <1>1 DEF Unknown, receiver
  <2> QED
    BY <2>1, <2>2 DEF FlowInv, NewIsUnknown
<1> QED
  BY <1>2, <1>3, <1>4 DEF FlowInv

LEMMA FlowNext ==
    ASSUME FlowInv, UplNext PROVE FlowInv'
<1>1. ASSUME NEW s \in Session, ReceiverStep(s)
      PROVE  FlowInv'
  <2>1. CASE \E u \in Upload : OnStart(s, u) \/ OnChunk(s, u) \/ OnEnd(s, u) \/ OnAbort(s, u)
    BY <2>1, OnStartFlows, OnChunkFlows, OnEndFlows
  <2>2. CASE Creates(s) \/ Renames(s) \/ EndsFile(s)
    BY <2>2, CreatesFlows, RenamesFlows, EndsFileFlows
  <2>3. CASE SessionStarts(s) \/ Sweeps(s) \/ SessionEnds(s) \/ Crash(s)
    BY <2>3, SessionStartsFlows, SweepsFlows, SessionEndsFlows, CrashFlows
  <2>4. CASE \E p \in Path : Retries(s, p)
    BY <2>4, RetriesFlows
  <2> QED
    BY <1>1, <2>1, <2>2, <2>3, <2>4 DEF ReceiverStep
<1> QED
  BY <1>1, SenderStepFlows, TenMinutesPassFlows DEF UplNext
-----------------------------------------------------------------------------
(* What is left in the folder                                               *)

(* What a step of a session may do to what is left: a file that lies there  *)
(* afterwards lay there before or is one that the session has made.         *)
LEMMA LeftStep ==
    ASSUME LeftInv, FlowInv', NEW s \in Session, Renamed(s)',
           \A u \in Upload : user'[u] = user[u] \/ user[u] = NoUpload,
           \A r \in Session : life[r] = "crashed" => life'[r] = "crashed",
           \A r \in Session \ {s} : /\ active'[r] = active[r] /\ retrying'[r] = retrying[r]
                                    /\ job'[r] = job[r] /\ life'[r] = life[r],
           \A u \in Upload, n \in Slot :
             /\ part'[n] = u => part[n] = u \/ (user'[u] = s /\ Cared("part", u, n)')
             /\ final'[n] = [of |-> u, whole |-> FALSE] =>
                  final[n] = [of |-> u, whole |-> FALSE] \/ (user'[u] = s /\ Cared("final", u, n)')
             /\ user[u] = s /\ Cared("part", u, n) => Cared("part", u, n)' \/ part'[n] # u
             /\ user[u] = s /\ Cared("final", u, n) =>
                  Cared("final", u, n)' \/ final'[n] # [of |-> u, whole |-> FALSE]
    PROVE  LeftInv'
<1>1. NoUpload \notin Session
  OBVIOUS
<1>2. ASSUME NEW u \in Upload, NEW n \in Slot, NEW kind, user[u] \in Session \ {s}, Cared(kind, u, n)
      PROVE  user'[u] \in Session /\ Cared(kind, u, n)'
  <2> DEFINE r == user[u]
  <2>1. user'[u] = r /\ r \in Session \ {s}
    BY <1>1, <1>2
  <2>2. active'[r] = active[r] /\ retrying'[r] = retrying[r] /\ (life[r] = "crashed" => life'[r] = "crashed")
    BY <2>1
  <2> QED
    BY <1>2, <2>1, <2>2 DEF Cared, Receiving
<1>3. ASSUME NEW u \in Upload, NEW n \in Slot
      PROVE  Kept(u, n)'
  <2>1. Kept(u, n)
    BY DEF LeftInv
  <2>2. ASSUME part'[n] = u
        PROVE  user'[u] \in Session /\ Cared("part", u, n)'
    <3>1. CASE user'[u] = s /\ Cared("part", u, n)'
      BY <3>1
    <3>2. CASE part[n] = u
      <4>1. user[u] \in Session /\ Cared("part", u, n)
        BY <2>1, <3>2 DEF Kept
      <4>2. CASE user[u] = s
        <5>1. Cared("part", u, n)'
          BY <2>2, <4>1, <4>2
        <5> QED
          BY <1>1, <4>2, <5>1
      <4>3. CASE user[u] # s
        BY <1>2, <4>1, <4>3
      <4> QED
        BY <4>2, <4>3
    <3> QED
      BY <2>2, <3>1, <3>2
  <2>3. ASSUME final'[n] = [of |-> u, whole |-> FALSE]
        PROVE  user'[u] \in Session /\ Cared("final", u, n)'
    <3>1. CASE user'[u] = s /\ Cared("final", u, n)'
      BY <3>1
    <3>2. CASE final[n] = [of |-> u, whole |-> FALSE]
      <4>1. user[u] \in Session /\ Cared("final", u, n)
        BY <2>1, <3>2 DEF Kept
      <4>2. CASE user[u] = s
        <5>1. Cared("final", u, n)'
          BY <2>3, <4>1, <4>2
        <5> QED
          BY <1>1, <4>2, <5>1
      <4>3. CASE user[u] # s
        BY <1>2, <4>1, <4>3
      <4> QED
        BY <4>2, <4>3
    <3> QED
      BY <2>3, <3>1, <3>2
  <2> QED
    BY <2>2, <2>3 DEF Kept
<1>4. ASSUME NEW r \in Session \ {s}
      PROVE  Renamed(r)'
  <2>1. Renamed(r) /\ OneJob(r) /\ Own(r)
    BY DEF LeftInv, FlowInv
  <2>2. SUFFICES ASSUME life[r] = "on", job[r].t = "renamed"
                 PROVE  /\ part'[job[r].slot] # job[r].of
                        /\ final'[job[r].slot] # [of |-> job[r].of, whole |-> FALSE]
    BY DEF Renamed
  <2>3. job[r].of \in Upload /\ job[r].slot \in Slot /\ active[r].of = job[r].of
    BY <2>1, <2>2 DEF OneJob, Receiving
  <2>4. user[job[r].of] = r
    BY <2>1, <2>3 DEF Own
  <2>5. user'[job[r].of] = r
    BY <1>1, <2>3, <2>4
  <2> QED
    BY <2>1, <2>2, <2>3, <2>5 DEF Renamed
<1> QED
  BY <1>3, <1>4 DEF LeftInv

(* A step that leaves receives and removals alone.                          *)
LEMMA LeftCalm ==
    ASSUME LeftInv, FlowInv', NEW s \in Session, Renamed(s)',
           \A u \in Upload : user'[u] = user[u] \/ user[u] = NoUpload,
           \A r \in Session : life[r] = "crashed" => life'[r] = "crashed",
           \A r \in Session \ {s} : job'[r] = job[r] /\ life'[r] = life[r],
           \A r \in Session : /\ active'[r].of = active[r].of /\ active'[r].slot = active[r].slot
                              /\ r # s => active'[r] = active[r],
           retrying' = retrying,
           \A u \in Upload, n \in Slot :
             /\ part'[n] = u => part[n] = u
             /\ final'[n] = [of |-> u, whole |-> FALSE] => final[n] = [of |-> u, whole |-> FALSE]
    PROVE  LeftInv'
<1>1. NoUpload \notin Session
  OBVIOUS
<1>2. ASSUME NEW u \in Upload, NEW n \in Slot, NEW kind, user[u] = s, Cared(kind, u, n)
      PROVE  Cared(kind, u, n)'
  <2>1. user'[u] = s
    BY <1>1, <1>2
  <2> QED
    BY <1>2, <2>1 DEF Cared, Receiving
<1> QED
  BY <1>2, LeftStep

(* A drop.                                                                  *)
LEMMA LeftDrop ==
    ASSUME LeftInv, FlowInv', NEW s \in Session, DropsReceive(s), user' = user,
           life'[s] # "on" \/ job'[s].t # "renamed",
           life[s] = "on",
           \A r \in Session \ {s} : job'[r] = job[r] /\ life'[r] = life[r]
    PROVE  LeftInv'
<1>1. UplTyped /\ OneJob(s)
  BY DEF LeftInv, FlowInv
<1>2. /\ active' = [active EXCEPT ![s] = NoReceive]
      /\ \A n \in Slot : /\ part'[n] = part[n] \/ (part'[n] = NoUpload /\ n = At(s))
                         /\ final'[n] = final[n] \/ (final'[n] = NoFile /\ n = At(s))
      /\ \A r \in Session \ {s} : retrying'[r] = retrying[r]
      /\ \A n \in Slot : \A k \in {"part", "final"} : <<k, n>> \in retrying[s] => <<k, n>> \in retrying'[s]
      /\ active[s].of # NoUpload =>
           /\ part'[At(s)] = NoUpload \/ <<"part", At(s)>> \in retrying'[s]
           /\ final'[At(s)] = NoFile \/ <<"final", At(s)>> \in retrying'[s]
  BY <1>1, Dropped
<1>3. active \in [Session -> [of : UploadOrNone, slot : SlotOrNone, written : Nat]]
  BY <1>1 DEF UplTyped
<1>4. \A r \in Session \ {s} : active'[r] = active[r]
  BY <1>2, <1>3
<1>5. \A u \in Upload : NoFile # [of |-> u, whole |-> FALSE] /\ u # NoUpload
  <2>1. NoFile.of = NoUpload /\ \A u \in Upload : u # NoUpload
    BY DEF NoFile
  <2> QED
    BY <2>1
<1>6. ASSUME NEW u \in Upload, NEW n \in Slot, user[u] = s, Cared("part", u, n), part'[n] = u
      PROVE  Cared("part", u, n)'
  BY <1>2, <1>5, <1>6 DEF Cared, Receiving, At
<1>7. ASSUME NEW u \in Upload, NEW n \in Slot, user[u] = s, Cared("final", u, n),
             final'[n] = [of |-> u, whole |-> FALSE]
      PROVE  Cared("final", u, n)'
  <2>1. CASE Receiving(s, u, n)
    <3>1. active[s].of # NoUpload /\ n = At(s) /\ final'[n] # NoFile
      BY <1>5, <1>7, <2>1 DEF Receiving, At
    <3>2. <<"final", n>> \in retrying'[s]
      BY <1>2, <3>1
    <3> QED
      BY <1>7, <3>2 DEF Cared
  <2>2. CASE <<"final", n>> \in retrying[s]
    <3>1. <<"final", n>> \in retrying'[s]
      BY <1>2, <2>2
    <3> QED
      BY <1>7, <3>1 DEF Cared
  <2>3. life[s] # "crashed"
    OBVIOUS
  <2> QED
    BY <1>7, <2>1, <2>2, <2>3 DEF Cared
<1>8. \A u \in Upload, n \in Slot :
        /\ part'[n] = u => part[n] = u
        /\ final'[n] = [of |-> u, whole |-> FALSE] => final[n] = [of |-> u, whole |-> FALSE]
  BY <1>2, <1>5
<1>9. Renamed(s)' /\ \A r \in Session : life[r] = "crashed" => life'[r] = "crashed"
  BY DEF Renamed
<1> QED
  BY <1>2, <1>4, <1>6, <1>7, <1>8, <1>9, LeftStep

LEMMA LeftSender ==
    ASSUME LeftInv, FlowInv', NEW s \in Session, SenderStep(s)
    PROVE  LeftInv'
<1>1. /\ UNCHANGED <<receiver, folder>>
      /\ user' = user \/ \E u \in Upload : user[u] = NoUpload /\ user' = [user EXCEPT ![u] = s]
  BY DEF SenderStep, Enqueue, TransferStarts, TransferGoesOn, ChunkRead, EndAnswered, CancelAll, SenderHears
<1>2. user \in [Upload -> Session \cup {NoUpload}] /\ Renamed(s)
  BY DEF LeftInv, FlowInv, UplTyped
<1>3. \A u \in Upload : user'[u] = user[u] \/ user[u] = NoUpload
  BY <1>1, <1>2
<1>4. /\ active' = active /\ job' = job /\ life' = life /\ retrying' = retrying /\ part' = part /\ final' = final
  BY <1>1 DEF receiver, folder
<1>5. Renamed(s)'
  BY <1>2, <1>4 DEF Renamed
<1> QED
  BY <1>3, <1>4, <1>5, LeftCalm

LEMMA LeftTaking ==
    ASSUME LeftInv, FlowInv', NEW s \in Session, NEW u \in Upload,
           OnStart(s, u) \/ OnChunk(s, u) \/ OnEnd(s, u) \/ OnAbort(s, u)
    PROVE  LeftInv'
<1>1. UplTyped
  BY DEF LeftInv, FlowInv
<1>2. PICK t \in {"start", "chunk", "end", "abort"} : ReceiverTakes(s, [t |-> t, of |-> u])
  BY DEF OnStart, OnChunk, OnEnd, OnAbort
<1>3. job[s].t = "none" /\ life[s] = "on"
  BY <1>1, <1>2, Takes
<1>4. user' = user /\ life' = life
  BY DEF OnStart, OnChunk, OnEnd, OnAbort, sender
<1>5. /\ job \in [Session -> [t : {"none", "creating", "renaming", "renamed", "failed"},
                              of : UploadOrNone, slot : SlotOrNone]]
      /\ active \in [Session -> [of : UploadOrNone, slot : SlotOrNone, written : Nat]]
  BY <1>1 DEF UplTyped
<1>6. job' = job \/ Awaits(s, "creating", u) \/ Awaits(s, "renaming", u)
  BY DEF OnStart, OnChunk, OnEnd, OnAbort
<1>7. job'[s].t # "renamed" /\ \A r \in Session \ {s} : job'[r] = job[r]
  BY <1>3, <1>5, <1>6 DEF Awaits
<1>8. CASE DropsReceive(s)
  BY <1>3, <1>4, <1>7, <1>8, LeftDrop
<1>9. ASSUME UNCHANGED <<part, final, retrying>>,
             active' = active \/ active' = [active EXCEPT ![s].written = @ + 1]
      PROVE  LeftInv'
  <2>1. \A r \in Session : /\ active'[r].of = active[r].of /\ active'[r].slot = active[r].slot
                           /\ r # s => active'[r] = active[r]
    BY <1>5, <1>9
  <2>2. Renamed(s)'
    BY <1>7 DEF Renamed
  <2> QED
    BY <1>4, <1>7, <1>9, <2>1, <2>2, LeftCalm
<1> QED
  BY <1>8, <1>9 DEF OnStart, OnChunk, OnEnd, OnAbort, AbortsReceive

LEMMA LeftCreates ==
    ASSUME LeftInv, FlowInv', NEW s \in Session, Creates(s)
    PROVE  LeftInv'
<1>0. PICK u : u = job[s].of
  OBVIOUS
<1>1. UplTyped /\ OneJob(s) /\ Own(s)
  BY DEF LeftInv, FlowInv
<1>2. /\ life[s] = "on" /\ job[s].t = "creating" /\ job' = [job EXCEPT ![s] = NoJob]
      /\ user' = user /\ life' = life /\ retrying' = retrying
  BY DEF Creates, sender
<1>3. /\ active \in [Session -> [of : UploadOrNone, slot : SlotOrNone, written : Nat]]
      /\ job \in [Session -> [t : {"none", "creating", "renaming", "renamed", "failed"},
                              of : UploadOrNone, slot : SlotOrNone]]
      /\ part \in [Slot -> UploadOrNone] /\ final \in [Slot -> [of : UploadOrNone, whole : BOOLEAN]]
  BY <1>1 DEF UplTyped
<1>4. u \in Upload /\ active[s].of = NoUpload /\ user[u] = s
  BY <1>0, <1>1, <1>2 DEF OneJob, Own
<1>5. job'[s].t = "none" /\ \A r \in Session \ {s} : job'[r] = job[r]
  BY <1>2, <1>3 DEF NoJob
<1>6. Renamed(s)'
  BY <1>5 DEF Renamed
<1>7. CASE UNCHANGED <<part, final, active>>
  BY <1>2, <1>5, <1>6, <1>7, LeftCalm
<1>8. ASSUME NEW n \in FreeSlots,
             part' = [part EXCEPT ![n] = u],
             final' = [final EXCEPT ![n] = [of |-> u, whole |-> FALSE]],
             active' = [active EXCEPT ![s] = [of |-> u, slot |-> n, written |-> 0]]
      PROVE  LeftInv'
  <2>1. active'[s].of = u /\ active'[s].slot = n /\ \A r \in Session \ {s} : active'[r] = active[r]
    BY <1>3, <1>8
  <2>2. \A k : Cared(k, u, n)'
    BY <1>2, <1>4, <2>1 DEF Cared, Receiving
  <2>3. \A v \in Upload, k \in Slot :
          /\ part'[k] = v => part[k] = v \/ (v = u /\ k = n)
          /\ final'[k] = [of |-> v, whole |-> FALSE] =>
               final[k] = [of |-> v, whole |-> FALSE] \/ (v = u /\ k = n)
    <3> TAKE v \in Upload, k \in Slot
    <3>1. CASE k = n
      <4>1. part'[k] = u /\ final'[k].of = u
        BY <1>3, <1>8, <3>1
      <4> QED
        BY <3>1, <4>1
    <3>2. CASE k # n
      BY <1>3, <1>8, <3>2
    <3> QED
      BY <3>1, <3>2
  <2>4. \A v \in Upload, k \in Slot, kind \in {"part", "final"} :
          user[v] = s /\ Cared(kind, v, k) => Cared(kind, v, k)'
    BY <1>2, <1>4, <2>1 DEF Cared, Receiving
  <2> QED
    BY <1>2, <1>4, <1>5, <1>6, <2>1, <2>2, <2>3, <2>4, LeftStep
<1> QED
  BY <1>0, <1>7, <1>8 DEF Creates

LEMMA LeftRenames ==
    ASSUME LeftInv, FlowInv', NEW s \in Session, Renames(s)
    PROVE  LeftInv'
<1> DEFINE n == job[s].slot
<1>1. UplTyped /\ OneJob(s)
  BY DEF LeftInv, FlowInv
<1>2. /\ job[s].t = "renaming"
      /\ user' = user /\ life' = life /\ retrying' = retrying /\ active' = active
      /\ \/ /\ final' = [final EXCEPT ![n] = [of |-> part[n], whole |-> TRUE]]
            /\ part' = [part EXCEPT ![n] = NoUpload]
            /\ job' = [job EXCEPT ![s].t = "renamed"]
         \/ UNCHANGED <<part, final>> /\ job' = [job EXCEPT ![s].t = "failed"]
  BY DEF Renames, sender
<1>3. /\ job \in [Session -> [t : {"none", "creating", "renaming", "renamed", "failed"},
                              of : UploadOrNone, slot : SlotOrNone]]
      /\ part \in [Slot -> UploadOrNone] /\ final \in [Slot -> [of : UploadOrNone, whole : BOOLEAN]]
  BY <1>1 DEF UplTyped
<1>4. n \in Slot /\ job[s].of \in Upload
  BY <1>1, <1>2 DEF OneJob
<1>5. /\ \A r \in Session \ {s} : job'[r] = job[r]
      /\ job'[s].slot = n /\ job'[s].of = job[s].of
  BY <1>2, <1>3
<1>6. CASE UNCHANGED <<part, final>> /\ job' = [job EXCEPT ![s].t = "failed"]
  <2>1. Renamed(s)'
    BY <1>3, <1>6 DEF Renamed
  <2> QED
    BY <1>2, <1>5, <1>6, <2>1, LeftCalm
<1>7. CASE /\ final' = [final EXCEPT ![n] = [of |-> part[n], whole |-> TRUE]]
           /\ part' = [part EXCEPT ![n] = NoUpload]
  <2>1. part'[n] = NoUpload /\ final'[n].whole = TRUE
    BY <1>3, <1>4, <1>7
  <2>2. \A k \in Slot \ {n} : part'[k] = part[k] /\ final'[k] = final[k]
    BY <1>3, <1>7
  <2>3. \A v \in Upload : part'[n] # v /\ final'[n] # [of |-> v, whole |-> FALSE]
    BY <2>1
  <2>4. Renamed(s)'
    BY <1>4, <1>5, <2>3 DEF Renamed
  <2> QED
    BY <1>2, <1>5, <2>2, <2>3, <2>4, LeftCalm
<1> QED
  BY <1>2, <1>6, <1>7

LEMMA LeftEndsFile ==
    ASSUME LeftInv, FlowInv', NEW s \in Session, EndsFile(s)
    PROVE  LeftInv'
<1>1. UplTyped /\ OneJob(s) /\ Renamed(s)
  BY DEF LeftInv, FlowInv
<1>2. /\ life[s] = "on" /\ job[s].t \in {"renamed", "failed"} /\ job' = [job EXCEPT ![s] = NoJob]
      /\ user' = user /\ life' = life
  BY DEF EndsFile, sender
<1>3. /\ active \in [Session -> [of : UploadOrNone, slot : SlotOrNone, written : Nat]]
      /\ job \in [Session -> [t : {"none", "creating", "renaming", "renamed", "failed"},
                              of : UploadOrNone, slot : SlotOrNone]]
  BY <1>1 DEF UplTyped
<1>4. job'[s].t = "none" /\ \A r \in Session \ {s} : job'[r] = job[r]
  BY <1>2, <1>3 DEF NoJob
<1>5. CASE DropsReceive(s)
  BY <1>2, <1>4, <1>5, LeftDrop
<1>6. CASE /\ job[s].t = "renamed" /\ active' = [active EXCEPT ![s] = NoReceive]
           /\ UNCHANGED <<part, final, retrying>>
  <2>1. Renamed(s)'
    BY <1>4 DEF Renamed
  <2>2. \A r \in Session \ {s} : active'[r] = active[r]
    BY <1>3, <1>6
  <2>3. /\ part[job[s].slot] # job[s].of
        /\ final[job[s].slot] # [of |-> job[s].of, whole |-> FALSE]
        /\ active[s].of = job[s].of /\ active[s].slot = job[s].slot
    BY <1>1, <1>2, <1>6 DEF Renamed, OneJob, Receiving
  <2>4. ASSUME NEW v \in Upload, NEW k \in Slot, user[v] = s
        PROVE  /\ Cared("part", v, k) => Cared("part", v, k)' \/ part'[k] # v
               /\ Cared("final", v, k) => Cared("final", v, k)' \/ final'[k] # [of |-> v, whole |-> FALSE]
    BY <1>2, <1>6, <2>3, <2>4 DEF Cared, Receiving
  <2> QED
    BY <1>2, <1>4, <1>6, <2>1, <2>2, <2>4, LeftStep
<1> QED
  BY <1>5, <1>6 DEF EndsFile, AbortsReceive

LEMMA LeftSessions ==
    ASSUME LeftInv, FlowInv', NEW s \in Session, SessionStarts(s) \/ SessionEnds(s) \/ Crash(s)
    PROVE  LeftInv'
<1>1. UplTyped /\ OneJob(s) /\ Renamed(s)
  BY DEF LeftInv, FlowInv
<1>2. /\ active \in [Session -> [of : UploadOrNone, slot : SlotOrNone, written : Nat]]
      /\ job \in [Session -> [t : {"none", "creating", "renaming", "renamed", "failed"},
                              of : UploadOrNone, slot : SlotOrNone]]
      /\ life \in [Session -> {"off", "on", "over", "crashed"}] /\ retrying \in [Session -> SUBSET Path]
  BY <1>1 DEF UplTyped
<1>3. CASE SessionStarts(s)
  <2>1. /\ life[s] = "off" /\ life' = [life EXCEPT ![s] = "on"]
        /\ user' = user /\ UNCHANGED <<active, job, retrying, part, final>>
    BY <1>3 DEF SessionStarts, sender, folder
  <2>2. /\ \A r \in Session \ {s} : life'[r] = life[r]
        /\ \A r \in Session : life[r] = "crashed" => life'[r] = "crashed"
    BY <1>2, <2>1
  <2>3. Renamed(s)'
    BY <1>1, <2>1 DEF Renamed, OneJob
  <2> QED
    BY <2>1, <2>2, <2>3, LeftCalm
<1>4. CASE SessionEnds(s)
  <2>1. /\ life[s] = "on" /\ life' = [life EXCEPT ![s] = "over"] /\ DropsReceive(s) /\ user' = user
        /\ job' = [job EXCEPT ![s] = IF @.t = "renaming" THEN @ ELSE NoJob]
    BY <1>4 DEF SessionEnds
  <2>2. life'[s] # "on" /\ \A r \in Session \ {s} : life'[r] = life[r] /\ job'[r] = job[r]
    BY <1>2, <2>1
  <2> QED
    BY <2>1, <2>2, LeftDrop
<1>5. CASE Crash(s)
  <2>1. /\ life' = [life EXCEPT ![s] = "crashed"] /\ user' = user
        /\ active' = [active EXCEPT ![s] = NoReceive] /\ job' = [job EXCEPT ![s] = NoJob]
        /\ retrying' = [retrying EXCEPT ![s] = {}] /\ UNCHANGED <<part, final>>
    BY <1>5 DEF Crash, folder
  <2>2. /\ \A r \in Session \ {s} : /\ life'[r] = life[r] /\ job'[r] = job[r]
                                    /\ active'[r] = active[r] /\ retrying'[r] = retrying[r]
        /\ life'[s] = "crashed"
    BY <1>2, <2>1
  <2>3. \A u \in Upload, n \in Slot, kind \in {"part", "final"} : user[u] = s => Cared(kind, u, n)'
    BY <2>1, <2>2 DEF Cared
  <2>4. Renamed(s)'
    BY <2>2 DEF Renamed
  <2> QED
    BY <2>1, <2>2, <2>3, <2>4, LeftStep
<1> QED
  BY <1>3, <1>4, <1>5

LEMMA LeftRemoval ==
    ASSUME LeftInv, FlowInv', NEW s \in Session, Sweeps(s) \/ \E p \in Path : Retries(s, p)
    PROVE  LeftInv'
<1>1. UplTyped /\ Renamed(s) /\ OneJob(s)
  BY DEF LeftInv, FlowInv
<1>2. /\ part \in [Slot -> UploadOrNone] /\ final \in [Slot -> [of : UploadOrNone, whole : BOOLEAN]]
      /\ retrying \in [Session -> SUBSET Path]
  BY <1>1 DEF UplTyped
<1>3. \A u \in Upload : NoFile # [of |-> u, whole |-> FALSE] /\ u # NoUpload
  <2>1. NoFile.of = NoUpload /\ \A u \in Upload : u # NoUpload
    BY DEF NoFile
  <2> QED
    BY <2>1
<1>4. /\ UNCHANGED <<user, active, job, life>>
      /\ \A n \in Slot : part'[n] \in {part[n], NoUpload} /\ final'[n] \in {final[n], NoFile}
  <2>1. CASE Sweeps(s)
    BY <1>2, <2>1 DEF Sweeps, sender
  <2>2. ASSUME NEW p \in Path, Retries(s, p)
        PROVE  /\ UNCHANGED <<user, active, job, life>>
               /\ \A n \in Slot : part'[n] \in {part[n], NoUpload} /\ final'[n] \in {final[n], NoFile}
    BY <1>2, <2>2 DEF Retries, sender
  <2> QED
    BY <2>1, <2>2
<1>5. \A u \in Upload, n \in Slot :
        /\ part'[n] = u => part[n] = u
        /\ final'[n] = [of |-> u, whole |-> FALSE] => final[n] = [of |-> u, whole |-> FALSE]
  BY <1>3, <1>4
<1>6. Renamed(s)'
  <2>1. job[s].t = "renamed" => job[s].of \in Upload /\ job[s].slot \in Slot
    BY <1>1 DEF OneJob
  <2> QED
    BY <1>1, <1>4, <1>5, <2>1 DEF Renamed
<1>7. CASE retrying' = retrying
  BY <1>4, <1>5, <1>6, <1>7, LeftCalm
<1>8. ASSUME NEW p \in Path, Retries(s, p)
      PROVE  LeftInv'
  <2>1. /\ part' = IF p[1] = "part" THEN [part EXCEPT ![p[2]] = NoUpload] ELSE part
        /\ final' = IF p[1] = "final" THEN [final EXCEPT ![p[2]] = NoFile] ELSE final
        /\ retrying' = [retrying EXCEPT ![s] = @ \ {p}]
    BY <1>8 DEF Retries
  <2>2. /\ \A r \in Session \ {s} : retrying'[r] = retrying[r]
        /\ \A q \in Path : q # p /\ q \in retrying[s] => q \in retrying'[s]
    BY <1>2, <2>1
  <2>3. \A k \in {"part", "final"}, n \in Slot : <<k, n>> \in Path
    BY DEF Path
  <2>4. ASSUME NEW u \in Upload, NEW n \in Slot, user[u] = s, Cared("part", u, n), part'[n] = u
        PROVE  Cared("part", u, n)'
    <3>1. p # <<"part", n>>
      <4>1. p = <<"part", n>> => part'[n] = NoUpload
        BY <1>2, <2>1
      <4> QED
        BY <1>3, <2>4, <4>1
    <3>2. <<"part", n>> \in retrying[s] => <<"part", n>> \in retrying'[s]
      BY <2>2, <2>3, <3>1
    <3> QED
      BY <1>4, <2>4, <3>2 DEF Cared, Receiving
  <2>5. ASSUME NEW u \in Upload, NEW n \in Slot, user[u] = s, Cared("final", u, n),
               final'[n] = [of |-> u, whole |-> FALSE]
        PROVE  Cared("final", u, n)'
    <3>1. p # <<"final", n>>
      <4>1. p = <<"final", n>> => final'[n] = NoFile
        BY <1>2, <2>1
      <4> QED
        BY <1>3, <2>5, <4>1
    <3>2. <<"final", n>> \in retrying[s] => <<"final", n>> \in retrying'[s]
      BY <2>2, <2>3, <3>1
    <3> QED
      BY <1>4, <2>5, <3>2 DEF Cared, Receiving
  <2> QED
    BY <1>4, <1>5, <1>6, <2>2, <2>4, <2>5, LeftStep
<1> QED
  BY <1>7, <1>8 DEF Sweeps

LEMMA LeftNext ==
    ASSUME LeftInv, UplNext PROVE LeftInv'
<1>1. FlowInv'
  BY FlowNext DEF LeftInv
<1>2. ASSUME NEW u \in Upload, TenMinutesPass(u)
      PROVE  LeftInv'
  BY <1>1, <1>2 DEF TenMinutesPass, LeftInv, Kept, Cared, Receiving, Renamed, sender, receiver
<1>3. ASSUME NEW s \in Session, ReceiverStep(s)
      PROVE  LeftInv'
  BY <1>1, <1>3, LeftTaking, LeftCreates, LeftRenames, LeftEndsFile, LeftSessions, LeftRemoval DEF ReceiverStep
<1> QED
  BY <1>1, <1>2, <1>3, LeftSender DEF UplNext

LEMMA LeftStart ==
    ASSUME UplInit PROVE LeftInv
<1>1. /\ NoReceive \in [of : UploadOrNone, slot : SlotOrNone, written : Nat] /\ NoReceive.of = NoUpload
      /\ NoFile \in [of : UploadOrNone, whole : BOOLEAN] /\ NoFile.of = NoUpload
      /\ NoJob \in [t : {"none", "creating", "renaming", "renamed", "failed"},
                    of : UploadOrNone, slot : SlotOrNone]
      /\ NoJob.t = "none" /\ NoUpload \in UploadOrNone
  BY DEF NoReceive, NoFile, NoJob, UploadOrNone, SlotOrNone
<1>2. DOMAIN <<>> = {} /\ <<>> \in Seq(Upload) /\ <<>> \in Seq(Message)
  OBVIOUS
<1>3. UplTyped
  <2>1. /\ queue \in [Session -> Seq(Upload)] /\ up \in [Session -> Seq(Message)]
        /\ data \in [Upload -> Seq(Upload)]
    BY <1>2 DEF UplInit
  <2>2. /\ part \in [Slot -> UploadOrNone] /\ final \in [Slot -> [of : UploadOrNone, whole : BOOLEAN]]
        /\ active \in [Session -> [of : UploadOrNone, slot : SlotOrNone, written : Nat]]
        /\ job \in [Session -> [t : {"none", "creating", "renaming", "renamed", "failed"},
                                of : UploadOrNone, slot : SlotOrNone]]
        /\ retrying \in [Session -> SUBSET Path]
    BY <1>1 DEF UplInit
  <2> QED
    BY <1>1, <2>1, <2>2 DEF UplInit, UplTyped
<1>4. ASSUME NEW s \in Session
      PROVE  OneJob(s) /\ InTurn(s) /\ Own(s) /\ Once(s) /\ Renamed(s)
  <2>1. /\ queue[s] = <<>> /\ up[s] = <<>> /\ current[s] = NoUpload /\ active[s] = NoReceive
        /\ job[s] = NoJob /\ life[s] = "off"
    BY DEF UplInit
  <2> QED
    BY <1>1, <1>2, <2>1 DEF OneJob, InTurn, Follows, Expects, Own, Once, Renamed
<1>5. ASSUME NEW u \in Upload
      PROVE  Unknown(u)
  BY <1>1 DEF Unknown, UplInit
<1>6. ASSUME NEW u \in Upload, NEW n \in Slot
      PROVE  Kept(u, n)
  <2>1. part[n] = NoUpload /\ final[n] = NoFile /\ u # NoUpload
    BY DEF UplInit
  <2>2. NoFile # [of |-> u, whole |-> FALSE]
    BY <1>1, <2>1
  <2> QED
    BY <2>1, <2>2 DEF Kept
<1> QED
  BY <1>3, <1>4, <1>5, <1>6 DEF LeftInv, FlowInv, NewIsUnknown

(* Whatever ends a transfer removes its part file and its placeholder.      *)
THEOREM NothingIsLeftBehind == UplSpec => []NothingIsLeft
<1>1. UplInit => LeftInv
  BY LeftStart
<1>2. LeftInv /\ [UplNext]_uplVars => LeftInv'
  <2>1. LeftInv /\ UNCHANGED uplVars => LeftInv'
    BY DEF LeftInv, FlowInv, UplTyped, OneJob, InTurn, Expects, Own, Once, NewIsUnknown, ToCome, Unknown,
           Kept, Cared, Receiving, Renamed, uplVars, sender, channel, receiver, folder
  <2> QED
    BY <2>1, LeftNext
<1>3. LeftInv => NothingIsLeft
  BY DEF LeftInv, Kept, Cared, Receiving, NothingIsLeft
<1> QED
  BY <1>1, <1>2, <1>3, PTL DEF UplSpec
-----------------------------------------------------------------------------
(* What was answered with `saved`                                           *)

LEMMA HoldNames ==
    ASSUME HoldInv, NEW s \in Session
    PROVE  /\ active[s].of = NoUpload => At(s) = -1
           /\ active[s].of # NoUpload => At(s) \in Slot /\ active[s].of \in Upload
           /\ \A r \in Session \ {s} :
                active[r].of # NoUpload => active[r].slot # At(s) /\ active[r].of # active[s].of
           /\ NoRetry(At(s))
           /\ \A x \in savedAt : x[2] # At(s) /\ x[1] # active[s].of
<1>1. UplTyped /\ \A r \in Session : OneJob(r) /\ Own(r) /\ Holds(r)
  BY DEF HoldInv, FlowInv
<1>2. /\ active \in [Session -> [of : UploadOrNone, slot : SlotOrNone, written : Nat]]
      /\ retrying \in [Session -> SUBSET Path] /\ savedAt \subseteq Upload \X Slot
  BY <1>1 DEF UplTyped
<1>3. /\ active[s].of = NoUpload => At(s) = -1
      /\ \A r \in Session : active[r].of # NoUpload => active[r].slot \in Slot
  BY <1>1 DEF OneJob, At, NoReceive
<1>4. active[s].of # NoUpload => active[s].of \in Upload
  BY <1>2 DEF UploadOrNone
<1>5. \A x \in savedAt : x[1] \in Upload /\ x[2] \in Slot
  BY <1>2
<1>6. -1 \notin Slot
  OBVIOUS
<1>7. CASE active[s].of = NoUpload
  <2>1. NoRetry(At(s))
    <3>1. <<"final", -1>> \notin Path
      BY <1>6 DEF Path
    <3> QED
      BY <1>2, <1>3, <1>7, <3>1 DEF NoRetry
  <2> QED
    BY <1>3, <1>5, <1>6, <1>7, <2>1
<1>8. CASE active[s].of # NoUpload
  <2>1. /\ final[At(s)].of = active[s].of /\ NoRetry(At(s)) /\ \A x \in savedAt : x[1] # active[s].of
    BY <1>1, <1>8 DEF Holds, At
  <2>2. \A x \in savedAt : final[x[2]].of = x[1]
    <3>1. \A x \in savedAt : Safe(x)
      BY DEF HoldInv
    <3>2. ASSUME NEW x \in savedAt, NEW u, NEW n, u = x[1], n = x[2] PROVE final[n].of = u
      <4>1. final[n] = [of |-> u, whole |-> TRUE]
        BY <3>1, <3>2 DEF Safe
      <4> QED
        BY <4>1
    <3> QED
      BY <3>2
  <2>3. \A r \in Session \ {s} : active[r].of # NoUpload =>
          final[active[r].slot].of = active[r].of /\ user[active[r].of] = r
    BY <1>1 DEF Holds, Own
  <2>4. user[active[s].of] = s
    BY <1>1, <1>8 DEF Own
  <2> QED
    BY <1>3, <1>4, <1>8, <2>1, <2>2, <2>3, <2>4 DEF At
<1> QED
  BY <1>7, <1>8

(* A step of a session that changes one name of the folder, and that name   *)
(* is nobody else's.                                                        *)
Confined(s, n) ==
    /\ \A r \in Session \ {s} : /\ active'[r] = active[r] /\ job'[r] = job[r]
                                /\ life'[r] = life[r] /\ retrying'[r] = retrying[r]
                                /\ active[r].of # NoUpload => active[r].slot # n
    /\ NoRetry(n) /\ \A x \in savedAt : x[2] # n
    /\ active'[s].slot \in {n, -1}
    /\ \A m \in Slot \ {n} : /\ part'[m] = part[m] /\ final'[m] = final[m]
                             /\ <<"final", m>> \in retrying'[s] => <<"final", m>> \in retrying[s]
    /\ \A u \in Upload : data'[u] = data[u] \/ u = active[s].of
    /\ stale' \subseteq stale
    /\ \A x \in savedAt' : x \in savedAt \/ (x[1] = active[s].of /\ x[2] = n /\ Safe(x)')
    /\ active[s].of = NoUpload => savedAt' = savedAt

LEMMA HoldStep ==
    ASSUME HoldInv, FlowInv', NEW s \in Session, NEW n, Confined(s, n),
           Holds(s)', Done(s)', n \in Slot => Doomed(s, n)'
    PROVE  HoldInv'
<1>0. /\ \A r \in Session \ {s} : /\ active'[r] = active[r] /\ job'[r] = job[r]
                                  /\ life'[r] = life[r] /\ retrying'[r] = retrying[r]
                                  /\ active[r].of # NoUpload => active[r].slot # n
      /\ NoRetry(n) /\ \A x \in savedAt : x[2] # n
      /\ active'[s].slot \in {n, -1}
      /\ \A m \in Slot \ {n} : /\ part'[m] = part[m] /\ final'[m] = final[m]
                               /\ <<"final", m>> \in retrying'[s] => <<"final", m>> \in retrying[s]
      /\ \A u \in Upload : data'[u] = data[u] \/ u = active[s].of
      /\ stale' \subseteq stale
      /\ \A x \in savedAt' : x \in savedAt \/ (x[1] = active[s].of /\ x[2] = n /\ Safe(x)')
      /\ active[s].of = NoUpload => savedAt' = savedAt
  BY DEF Confined
<1>1. UplTyped /\ \A r \in Session : OneJob(r) /\ Own(r) /\ Holds(r) /\ Done(r)
  BY DEF HoldInv, FlowInv
<1>2. /\ \A r \in Session \ {s} : active[r].of # NoUpload => active[r].of # active[s].of
      /\ \A x \in savedAt : x[1] # active[s].of
  BY HoldNames
<1>3. /\ \A r \in Session : active[r].of # NoUpload => active[r].slot \in Slot /\ active[r].of \in Upload
      /\ \A r \in Session : active[r].of = NoUpload => active[r].slot = -1
      /\ \A x \in savedAt : x[1] \in Upload /\ x[2] \in Slot
      /\ -1 \notin Slot
  <2>1. active \in [Session -> [of : UploadOrNone, slot : SlotOrNone, written : Nat]]
    BY <1>0, <1>1 DEF UplTyped
  <2>2. \A r \in Session : active[r].of # NoUpload => active[r].slot \in Slot /\ active[r].of \in Upload
    BY <1>0, <1>1, <2>1 DEF OneJob, UploadOrNone
  <2>3. \A r \in Session : active[r].of = NoUpload => active[r].slot = -1
    BY <1>0, <1>1 DEF OneJob, NoReceive
  <2>4. \A x \in savedAt : x[1] \in Upload /\ x[2] \in Slot
    BY <1>0, <1>1 DEF UplTyped
  <2> QED
    BY <1>0, <2>2, <2>3, <2>4
<1>4. \A m \in Slot \ {n} : NoRetry(m) => NoRetry(m)'
  BY <1>0 DEF NoRetry
<1>5. ASSUME NEW r \in Session \ {s}
      PROVE  Holds(r)'
  <2> SUFFICES ASSUME active[r].of # NoUpload PROVE Holds(r)'
    BY <1>0 DEF Holds
  <2>0. PICK u, m, k : u = active[r].of /\ m = active[r].slot /\ k = active[r].written
    OBVIOUS
  <2>1. m \in Slot \ {n} /\ u \in Upload /\ u # active[s].of
    BY <1>0, <1>2, <1>3, <2>0
  <2>2. /\ final[m].of = u /\ part[m] \in {u, NoUpload} /\ u \notin stale
        /\ NoRetry(m) /\ Data(u, k) /\ \A x \in savedAt : x[1] # u
    BY <1>0, <1>1, <2>0 DEF Holds
  <2>3. part'[m] = part[m] /\ final'[m] = final[m] /\ data'[u] = data[u] /\ active'[r] = active[r]
    BY <1>0, <2>1
  <2>4. Data(u, k)'
    BY <1>0, <2>2, <2>3 DEF Data
  <2>5. \A x \in savedAt' : x[1] # u
    BY <1>0, <2>1, <2>2
  <2>6. NoRetry(m)'
    BY <1>0, <1>4, <2>1, <2>2
  <2>7. active'[r].of = u /\ active'[r].slot = m /\ active'[r].written = k
    BY <1>0, <2>0, <2>3
  <2>8. final'[m].of = u /\ part'[m] \in {u, NoUpload} /\ u \notin stale'
    BY <1>0, <2>2, <2>3
  <2> QED
    BY <1>0, <2>8, <2>3, <2>4, <2>5, <2>6, <2>7 DEF Holds
<1>6. ASSUME NEW r \in Session \ {s}
      PROVE  Done(r)'
  <2> SUFFICES ASSUME life[r] = "on", job[r].t \in {"renaming", "renamed"} PROVE Done(r)'
    BY <1>0 DEF Done
  <2>1. job[r].of = active[r].of /\ job[r].slot = active[r].slot /\ job[r].of \in Upload
    BY <1>0, <1>1 DEF OneJob, Receiving
  <2>2. job[r].slot \in Slot \ {n}
    BY <1>0, <1>3, <2>1
  <2>3. Done(r) /\ job'[r] = job[r] /\ life'[r] = life[r] /\ active'[r] = active[r]
    BY <1>0, <1>1
  <2>4. part'[job[r].slot] = part[job[r].slot] /\ final'[job[r].slot] = final[job[r].slot]
    BY <1>0, <2>2
  <2> QED
    BY <1>0, <2>3, <2>4 DEF Done
<1>7. ASSUME NEW r \in Session, NEW m \in Slot
      PROVE  Doomed(r, m)'
  <2>1. CASE m = n
    <3>1. CASE r = s
      BY <1>0, <2>1, <3>1
    <3>2. CASE r # s
      BY <1>0, <2>1, <3>2 DEF NoRetry, Doomed
    <3> QED
      BY <1>0, <3>1, <3>2
  <2>2. CASE m # n
    <3> SUFFICES ASSUME <<"final", m>> \in retrying'[r] PROVE Doomed(r, m)'
      BY <1>0 DEF Doomed
    <3>1. <<"final", m>> \in retrying[r] /\ Doomed(r, m)
      BY <1>0, <2>2 DEF HoldInv
    <3>2. /\ final[m] # NoFile /\ part[m] \notin stale
          /\ \A q \in Session : active[q].slot # m /\ (<<"final", m>> \in retrying[q] => q = r)
          /\ \A x \in savedAt : x[2] # m
      BY <1>0, <3>1 DEF Doomed
    <3>3. final'[m] # NoFile /\ part'[m] \notin stale' /\ \A x \in savedAt' : x[2] # m
      <4>1. final'[m] = final[m] /\ part'[m] = part[m]
        BY <1>0, <2>2
      <4>2. \A x \in savedAt' : x[2] # m
        BY <1>0, <2>2, <3>2
      <4> QED
        BY <1>0, <3>2, <4>1, <4>2
    <3>4. \A q \in Session : active'[q].slot # m
      BY <1>0, <1>3, <2>2, <3>2
    <3>5. \A q \in Session : <<"final", m>> \in retrying'[q] => q = r
      BY <1>0, <2>2, <3>2
    <3> QED
      BY <1>0, <3>3, <3>4, <3>5 DEF Doomed
  <2> QED
    BY <1>0, <2>1, <2>2
<1>8. ASSUME NEW x \in savedAt'
      PROVE  Safe(x)'
  <2>1. CASE x \in savedAt
    <3>1. x[2] \in Slot \ {n} /\ x[1] \in Upload /\ x[1] # active[s].of /\ Safe(x)
      BY <1>0, <1>2, <1>3, <2>1 DEF HoldInv
    <3>2. data'[x[1]] = data[x[1]] /\ final'[x[2]] = final[x[2]] /\ part'[x[2]] = part[x[2]]
      BY <1>0, <3>1
    <3> QED
      BY <1>0, <3>1, <3>2 DEF Safe, Data
  <2> QED
    BY <1>0, <2>1
<1> QED
  BY <1>0, <1>5, <1>6, <1>7, <1>8 DEF HoldInv

(* A drop.                                                                  *)
LEMMA HoldDrop ==
    ASSUME HoldInv, FlowInv', NEW s \in Session, DropsReceive(s),
           data' = data, stale' = stale, savedAt' = savedAt,
           life'[s] # "on" \/ job'[s].t \notin {"renaming", "renamed"},
           \A r \in Session \ {s} : job'[r] = job[r] /\ life'[r] = life[r]
    PROVE  HoldInv'
<1>0. PICK n : n = At(s)
  OBVIOUS
<1>1. UplTyped /\ OneJob(s) /\ Holds(s)
  BY DEF HoldInv, FlowInv
<1>2. /\ active' = [active EXCEPT ![s] = NoReceive]
      /\ \A m \in Slot : /\ part'[m] = part[m] \/ (part'[m] = NoUpload /\ m = n)
                         /\ final'[m] = final[m] \/ (final'[m] = NoFile /\ m = n)
      /\ \A r \in Session \ {s} : retrying'[r] = retrying[r]
      /\ \A m \in Slot : \A k \in {"part", "final"} :
           <<k, m>> \in retrying'[s] => <<k, m>> \in retrying[s] \/ m = n
      /\ active[s].of # NoUpload => (<<"final", n>> \in retrying'[s] \ retrying[s] => final'[n] = final[n])
  BY <1>0, <1>1, Dropped
<1>3. active \in [Session -> [of : UploadOrNone, slot : SlotOrNone, written : Nat]]
  BY <1>1 DEF UplTyped
<1>4. /\ \A r \in Session \ {s} : active'[r] = active[r]
      /\ active'[s].of = NoUpload /\ active'[s].slot = -1
  BY <1>2, <1>3 DEF NoReceive
<1>5. /\ active[s].of = NoUpload => n = -1
      /\ \A r \in Session \ {s} : active[r].of # NoUpload => active[r].slot # n
      /\ NoRetry(n)
      /\ \A x \in savedAt : x[2] # n
  BY <1>0, HoldNames
<1>6. Holds(s)' /\ Done(s)'
  BY <1>4 DEF Holds, Done
<1>7. ASSUME n \in Slot
      PROVE  Doomed(s, n)'
  <2> SUFFICES ASSUME <<"final", n>> \in retrying'[s] PROVE Doomed(s, n)'
    BY DEF Doomed
  <2>1. active[s].of # NoUpload /\ active[s].of \in Upload /\ NoUpload \notin stale
    BY <1>1, <1>3, <1>5, <1>7 DEF UplTyped, UploadOrNone
  <2>2. <<"final", n>> \notin retrying[s] /\ \A r \in Session \ {s} : <<"final", n>> \notin retrying[r]
    BY <1>5 DEF NoRetry
  <2>3. final'[n] = final[n] /\ final[n].of = active[s].of /\ part[n] \in {active[s].of, NoUpload} /\ active[s].of \notin stale
    BY <1>0, <1>1, <1>2, <2>1, <2>2 DEF Holds, At
  <2>4. final'[n] # NoFile /\ part'[n] \notin stale'
    <3>1. part'[n] \in {part[n], NoUpload} /\ NoFile.of = NoUpload
      BY <1>2, <1>7 DEF NoFile
    <3> QED
      BY <2>1, <2>3, <3>1
  <2>5. \A r \in Session : active'[r].slot # n
    <3> TAKE r \in Session
    <3>1. CASE r = s
      BY <1>4, <1>7, <3>1
    <3>2. CASE r # s
      <4>1. OneJob(r)
        BY DEF HoldInv, FlowInv
      <4>2. active[r].of = NoUpload => active[r].slot = -1
        BY <4>1 DEF OneJob, NoReceive
      <4> QED
        BY <1>4, <1>5, <1>7, <3>2, <4>2
    <3> QED
      BY <3>1, <3>2
  <2>6. \A r \in Session : <<"final", n>> \in retrying'[r] => r = s
    BY <1>2, <2>2
  <2> QED
    BY <1>5, <2>4, <2>5, <2>6 DEF Doomed
<1>8. \A m \in Slot \ {n} : /\ part'[m] = part[m] /\ final'[m] = final[m]
                            /\ <<"final", m>> \in retrying'[s] => <<"final", m>> \in retrying[s]
  BY <1>2
<1>9. Confined(s, n)
  BY <1>2, <1>4, <1>5, <1>8 DEF Confined
<1> QED
  BY <1>6, <1>7, <1>9, HoldStep

(* A step that leaves the folder alone.                                     *)
LEMMA HoldCalm ==
    ASSUME HoldInv, FlowInv', NEW s \in Session, Done(s)',
           \A r \in Session \ {s} : job'[r] = job[r] /\ life'[r] = life[r],
           UNCHANGED <<active, retrying, folder, savedAt>>
    PROVE  HoldInv'
<1>1. /\ \A r \in Session \ {s} : active[r].of # NoUpload => active[r].slot # At(s)
      /\ NoRetry(At(s)) /\ \A x \in savedAt : x[2] # At(s)
  BY HoldNames
<1>2. Holds(s) /\ \A n \in Slot : Doomed(s, n)
  BY DEF HoldInv
<1>3. /\ active' = active /\ retrying' = retrying /\ part' = part /\ final' = final /\ data' = data
      /\ stale' = stale /\ savedAt' = savedAt
  BY DEF folder
<1>4. Holds(s)'
  BY <1>2, <1>3 DEF Holds, NoRetry, Data
<1>5. \A n \in Slot : Doomed(s, n)'
  BY <1>2, <1>3 DEF Doomed
<1>6. active'[s].slot = At(s)
  BY <1>3 DEF At
<1>7. PICK n : n = At(s)
  OBVIOUS
<1>8. Confined(s, n)
  BY <1>1, <1>3, <1>6, <1>7 DEF Confined
<1> QED
  BY <1>4, <1>5, <1>8, HoldStep

LEMMA HoldSender ==
    ASSUME HoldInv, FlowInv', NEW s \in Session, SenderStep(s)
    PROVE  HoldInv'
<1>1. UNCHANGED <<receiver, folder, savedAt>>
  BY DEF SenderStep, Enqueue, TransferStarts, TransferGoesOn, ChunkRead, EndAnswered, CancelAll, SenderHears
<1>2. UNCHANGED <<active, retrying, folder, savedAt>> /\ job' = job /\ life' = life /\ part' = part /\ final' = final
  BY <1>1 DEF receiver, folder
<1>3. Done(s)'
  BY <1>2 DEF HoldInv, Done
<1> QED
  BY <1>2, <1>3, HoldCalm

LEMMA HoldChunk ==
    ASSUME HoldInv, FlowInv', NEW s \in Session, NEW u \in Upload, OnChunk(s, u)
    PROVE  HoldInv'
<1>1. UplTyped /\ OneJob(s) /\ InTurn(s) /\ Holds(s)
  BY DEF HoldInv, FlowInv
<1>2. /\ ReceiverTakes(s, [t |-> "chunk", of |-> u])
      /\ UNCHANGED <<life, job, savedAt>>
  BY DEF OnChunk
<1>3. job[s].t = "none"
  BY <1>1, <1>2, Takes
<1>4. Done(s)'
  BY <1>2, <1>3 DEF Done
<1>5. CASE UNCHANGED <<active, part, final, retrying, down, data, stale>>
  BY <1>2, <1>4, <1>5, HoldCalm DEF folder
<1>6. CASE AbortsReceive(s) /\ UNCHANGED <<data, stale>>
  BY <1>2, <1>3, <1>6, HoldDrop DEF AbortsReceive
<1>7. CASE /\ active[s] # NoReceive
           /\ active' = [active EXCEPT ![s].written = @ + 1]
           /\ data' = [data EXCEPT ![active[s].of] = Append(@, u)]
           /\ stale' = stale \ {active[s].of}
           /\ UNCHANGED <<part, final, retrying, down>>
  <2>0. PICK n, v, k : n = At(s) /\ v = active[s].of /\ k = active[s].written
    OBVIOUS
  <2>1. /\ active \in [Session -> [of : UploadOrNone, slot : SlotOrNone, written : Nat]]
        /\ data \in [Upload -> Seq(Upload)] /\ up \in [Session -> Seq(Message)]
    BY <1>1 DEF UplTyped
  <2>2. v # NoUpload /\ v \in Upload /\ k \in Nat /\ n = active[s].slot
    BY <1>1, <1>7, <2>0, <2>1 DEF OneJob, UploadOrNone, At
  <2>3. v = u
    <3>1. up[s] # <<>> /\ Head(up[s]) = up[s][1] /\ up[s][1].t = "chunk" /\ up[s][1].of = u
      <4>1. up[s] # <<>> /\ Head(up[s]) = [t |-> "chunk", of |-> u] /\ up[s] \in Seq(Message)
        BY <1>2, <2>1 DEF ReceiverTakes
      <4>2. Head(up[s]) = up[s][1]
        BY <4>1
      <4> QED
        BY <4>1, <4>2
    <3>2. Expects(s, u)
      BY <1>1, <3>1 DEF InTurn
    <3> QED
      BY <2>0, <2>2, <3>2 DEF Expects
  <2>4. /\ \A r \in Session \ {s} : active'[r] = active[r]
        /\ active'[s].of = v /\ active'[s].slot = n /\ active'[s].written = k + 1
    BY <1>7, <2>0, <2>1, <2>2
  <2>5. /\ \A w \in Upload : data'[w] = data[w] \/ w = v
        /\ data'[v] = Append(data[v], u) /\ data[v] \in Seq(Upload)
    BY <1>7, <2>0, <2>1, <2>2
  <2>6. /\ final[n].of = v /\ part[n] \in {v, NoUpload} /\ v \notin stale
        /\ NoRetry(n) /\ Data(v, k) /\ \A x \in savedAt : x[1] # v
    BY <1>1, <2>0, <2>2 DEF Holds
  <2>7. Data(v, k + 1)'
    <3> DEFINE d == data[v]
               e == data'[v]
    <3>0. /\ Len(e) = Len(d) + 1 /\ Len(d) \in Nat /\ DOMAIN d = 1 .. Len(d) /\ DOMAIN e = 1 .. Len(d) + 1
          /\ \A i \in DOMAIN d : e[i] = d[i]
          /\ e[Len(d) + 1] = u
      BY <2>5, Appended
    <3>1. Len(d) = k /\ \A i \in DOMAIN d : d[i] = v
      BY <2>6 DEF Data
    <3> HIDE DEF d, e
    <3>2. \A i \in DOMAIN e : e[i] = v
      BY <2>3, <3>0, <3>1
    <3>3. Len(e) = k + 1
      BY <3>0, <3>1
    <3> QED
      BY <3>2, <3>3 DEF Data, e
  <2>8. Holds(s)'
    <3>1. NoRetry(n)'
      BY <1>7, <2>6 DEF NoRetry
    <3>2. final'[n].of = v /\ part'[n] \in {v, NoUpload} /\ v \notin stale' /\ \A x \in savedAt' : x[1] # v
      BY <1>2, <1>7, <2>6
    <3> QED
      BY <2>4, <2>7, <3>1, <3>2 DEF Holds
  <2>9. n \in Slot => Doomed(s, n)'
    BY <1>7, <2>6 DEF Doomed, NoRetry
  <2>10. /\ \A r \in Session \ {s} : active[r].of # NoUpload => active[r].slot # n
         /\ \A x \in savedAt : x[2] # n
    BY <2>0, HoldNames
  <2>11. \A r \in Session \ {s} : job'[r] = job[r] /\ life'[r] = life[r] /\ retrying'[r] = retrying[r]
    BY <1>2, <1>7
  <2>12. \A m \in Slot \ {n} : /\ part'[m] = part[m] /\ final'[m] = final[m]
                               /\ <<"final", m>> \in retrying'[s] => <<"final", m>> \in retrying[s]
    BY <1>7
  <2>13. stale' \subseteq stale /\ savedAt' = savedAt /\ v = active[s].of
    BY <1>2, <1>7, <2>0
  <2> QED
    <3>1. \A w \in Upload : data'[w] = data[w] \/ w = active[s].of
      BY <2>0, <2>5
    <3>2. active'[s].slot \in {n, -1} /\ NoRetry(n) /\ \A r \in Session \ {s} : active'[r] = active[r]
      BY <2>4, <2>6
    <3>3. Confined(s, n)
      BY <2>10, <2>11, <2>12, <2>13, <3>1, <3>2 DEF Confined
    <3> QED
      BY <1>4, <2>8, <2>9, <3>3, HoldStep
<1> QED
  BY <1>5, <1>6, <1>7 DEF OnChunk

LEMMA HoldTaking ==
    ASSUME HoldInv, FlowInv', NEW s \in Session, NEW u \in Upload,
           OnStart(s, u) \/ OnEnd(s, u) \/ OnAbort(s, u)
    PROVE  HoldInv'
<1>1. UplTyped
  BY DEF HoldInv, FlowInv
<1>2. PICK t \in {"start", "end", "abort"} : ReceiverTakes(s, [t |-> t, of |-> u])
  BY DEF OnStart, OnEnd, OnAbort
<1>3. job[s].t = "none" /\ life' = life /\ data' = data /\ stale' = stale /\ savedAt' = savedAt
  BY <1>1, <1>2, Takes DEF OnStart, OnEnd, OnAbort
<1>4. /\ job \in [Session -> [t : {"none", "creating", "renaming", "renamed", "failed"},
                              of : UploadOrNone, slot : SlotOrNone]]
      /\ active \in [Session -> [of : UploadOrNone, slot : SlotOrNone, written : Nat]]
  BY <1>1 DEF UplTyped
<1>5. CASE DropsReceive(s) /\ (job' = job \/ Awaits(s, "creating", u))
  <2>1. job'[s].t \notin {"renaming", "renamed"} /\ \A r \in Session \ {s} : job'[r] = job[r]
    BY <1>3, <1>4, <1>5 DEF Awaits
  <2> QED
    BY <1>3, <1>5, <2>1, HoldDrop
<1>6. CASE UNCHANGED <<active, part, final, retrying, job>>
  <2>1. Done(s)'
    BY <1>3, <1>6 DEF Done
  <2> QED
    BY <1>3, <1>6, <2>1, HoldCalm DEF folder
<1>7. CASE /\ active[s].of = u /\ active[s].written = Size[u] /\ Awaits(s, "renaming", u)
           /\ UNCHANGED <<active, part, final, retrying>>
  <2>1. /\ job'[s].t = "renaming" /\ job'[s].of = u
        /\ \A r \in Session \ {s} : job'[r] = job[r]
    BY <1>4, <1>7 DEF Awaits
  <2>2. Done(s)'
    BY <1>7, <2>1 DEF Done
  <2> QED
    BY <1>3, <1>7, <2>1, <2>2, HoldCalm DEF folder
<1> QED
  BY <1>5, <1>6, <1>7 DEF OnStart, OnEnd, OnAbort, AbortsReceive

LEMMA HoldCreates ==
    ASSUME HoldInv, FlowInv', NEW s \in Session, Creates(s)
    PROVE  HoldInv'
<1>0. PICK u : u = job[s].of
  OBVIOUS
<1>1. UplTyped /\ OneJob(s) /\ Own(s)
  BY DEF HoldInv, FlowInv
<1>2. /\ life[s] = "on" /\ job[s].t = "creating" /\ job' = [job EXCEPT ![s] = NoJob]
      /\ UNCHANGED <<life, retrying, data, stale, savedAt>>
  BY DEF Creates
<1>3. /\ active \in [Session -> [of : UploadOrNone, slot : SlotOrNone, written : Nat]]
      /\ job \in [Session -> [t : {"none", "creating", "renaming", "renamed", "failed"},
                              of : UploadOrNone, slot : SlotOrNone]]
      /\ part \in [Slot -> UploadOrNone] /\ final \in [Slot -> [of : UploadOrNone, whole : BOOLEAN]]
  BY <1>1 DEF UplTyped
<1>4. u \in Upload /\ u # NoUpload /\ active[s].of = NoUpload /\ user[u] = s
  BY <1>0, <1>1, <1>2 DEF OneJob, Own
<1>5. job'[s].t = "none" /\ \A r \in Session \ {s} : job'[r] = job[r]
  BY <1>2, <1>3 DEF NoJob
<1>6. Done(s)'
  BY <1>5 DEF Done
<1>7. CASE UNCHANGED <<part, final, active>>
  BY <1>2, <1>5, <1>6, <1>7, HoldCalm DEF folder
<1>8. ASSUME NEW n \in FreeSlots,
             part' = [part EXCEPT ![n] = u],
             final' = [final EXCEPT ![n] = [of |-> u, whole |-> FALSE]],
             active' = [active EXCEPT ![s] = [of |-> u, slot |-> n, written |-> 0]]
      PROVE  HoldInv'
  <2>1. /\ active'[s].of = u /\ active'[s].slot = n /\ active'[s].written = 0
        /\ \A r \in Session \ {s} : active'[r] = active[r]
    BY <1>3, <1>8
  <2>2. n \in Slot /\ final[n] = NoFile /\ final[n].of = NoUpload
    BY DEF FreeSlots, NoFile
  <2>3. final'[n].of = u /\ part'[n] = u /\ \A m \in Slot \ {n} : part'[m] = part[m] /\ final'[m] = final[m]
    BY <1>3, <1>8, <2>2
  <2>4. Unknown(u)
    <3>1. ToCome(s, u)
      BY <1>0, <1>2 DEF ToCome
    <3> QED
      BY <1>4, <3>1 DEF HoldInv, FlowInv, NewIsUnknown
  <2>5. NoRetry(n)
    BY <2>2 DEF HoldInv, Doomed, NoRetry
  <2>6. \A r \in Session \ {s} : active[r].of # NoUpload => active[r].slot # n
    <3>1. \A r \in Session : Holds(r)
      BY DEF HoldInv
    <3> QED
      BY <2>2, <3>1 DEF Holds
  <2>7. \A x \in savedAt : x[2] # n
    <3> TAKE x \in savedAt
    <3>1. x[1] \in Upload /\ Safe(x)
      BY <1>1 DEF HoldInv, UplTyped
    <3>2. PICK k, v : k = x[2] /\ v = x[1]
      OBVIOUS
    <3>3. final[k] = [of |-> v, whole |-> TRUE] /\ v # NoUpload
      BY <3>1, <3>2 DEF Safe
    <3>4. final[k].of # NoUpload
      BY <3>3
    <3> QED
      BY <2>2, <3>2, <3>4
  <2>8. Confined(s, n)
    BY <1>2, <1>5, <2>1, <2>3, <2>5, <2>6, <2>7 DEF Confined
  <2>9. Holds(s)'
    <3>1. data'[u] = <<>> /\ u \notin stale' /\ \A x \in savedAt' : x[1] # u
      BY <1>2, <2>4 DEF Unknown
    <3>2. Data(u, 0)'
      BY <3>1 DEF Data
    <3>3. NoRetry(n)'
      BY <1>2, <2>5 DEF NoRetry
    <3> QED
      BY <2>1, <2>3, <3>1, <3>2, <3>3 DEF Holds
  <2>10. Doomed(s, n)'
    BY <1>2, <2>5 DEF Doomed, NoRetry
  <2> QED
    BY <1>6, <2>8, <2>9, <2>10, HoldStep
<1> QED
  BY <1>0, <1>7, <1>8 DEF Creates

LEMMA HoldEndsFile ==
    ASSUME HoldInv, FlowInv', NEW s \in Session, EndsFile(s)
    PROVE  HoldInv'
<1>1. UplTyped /\ OneJob(s) /\ Holds(s) /\ Done(s)
  BY DEF HoldInv, FlowInv
<1>2. /\ life[s] = "on" /\ job[s].t \in {"renamed", "failed"} /\ job' = [job EXCEPT ![s] = NoJob]
      /\ UNCHANGED <<life, data, stale>>
  BY DEF EndsFile
<1>3. /\ active \in [Session -> [of : UploadOrNone, slot : SlotOrNone, written : Nat]]
      /\ job \in [Session -> [t : {"none", "creating", "renaming", "renamed", "failed"},
                              of : UploadOrNone, slot : SlotOrNone]]
  BY <1>1 DEF UplTyped
<1>4. job'[s].t = "none" /\ \A r \in Session \ {s} : job'[r] = job[r]
  BY <1>2, <1>3 DEF NoJob
<1>5. CASE DropsReceive(s) /\ savedAt' = savedAt
  BY <1>2, <1>4, <1>5, HoldDrop
<1>6. CASE /\ job[s].t = "renamed" /\ active' = [active EXCEPT ![s] = NoReceive]
           /\ savedAt' = savedAt \cup {<<job[s].of, job[s].slot>>}
           /\ UNCHANGED <<part, final, retrying>>
  <2>0. PICK n, u : n = At(s) /\ u = active[s].of
    OBVIOUS
  <2>1. /\ \A r \in Session \ {s} : active'[r] = active[r]
        /\ active'[s].of = NoUpload /\ active'[s].slot = -1
    BY <1>3, <1>6 DEF NoReceive
  <2>2. job[s].of = u /\ job[s].slot = n /\ u # NoUpload /\ u \in Upload /\ n \in Slot
    BY <1>1, <1>2, <1>6, <2>0 DEF OneJob, Receiving, At
  <2>3. /\ active[s].written = Size[u] /\ final[n] = [of |-> u, whole |-> TRUE] /\ part[n] = NoUpload
    BY <1>1, <1>2, <1>6, <2>2 DEF Done
  <2>4. Data(u, Size[u]) /\ NoRetry(n)
    BY <1>1, <2>0, <2>2, <2>3 DEF Holds, At
  <2>5. \A x \in savedAt' : x \in savedAt \/ (x[1] = u /\ x[2] = n /\ Safe(x)')
    <3> SUFFICES ASSUME NEW x \in savedAt', x \notin savedAt PROVE x[1] = u /\ x[2] = n /\ Safe(x)'
      OBVIOUS
    <3>1. x[1] = u /\ x[2] = n
      BY <1>6, <2>2
    <3>2. Data(u, Size[u])'
      BY <1>2, <2>4 DEF Data
    <3> QED
      BY <1>6, <2>3, <3>1, <3>2 DEF Safe
  <2>6. /\ \A r \in Session \ {s} : active[r].of # NoUpload => active[r].slot # n
        /\ \A x \in savedAt : x[2] # n
    BY <2>0, HoldNames
  <2>7. Confined(s, n)
    BY <1>2, <1>4, <1>6, <2>0, <2>1, <2>2, <2>4, <2>5, <2>6 DEF Confined
  <2>8. Holds(s)' /\ Done(s)' /\ Doomed(s, n)'
    BY <1>4, <1>6, <2>1, <2>4 DEF Holds, Done, Doomed, NoRetry
  <2> QED
    BY <2>7, <2>8, HoldStep
<1> QED
  BY <1>5, <1>6 DEF EndsFile, AbortsReceive

LEMMA HoldSessions ==
    ASSUME HoldInv, FlowInv', NEW s \in Session, SessionStarts(s) \/ SessionEnds(s) \/ Crash(s)
    PROVE  HoldInv'
<1>1. UplTyped /\ OneJob(s) /\ Done(s) /\ \A n \in Slot : Doomed(s, n)
  BY DEF HoldInv, FlowInv
<1>2. /\ active \in [Session -> [of : UploadOrNone, slot : SlotOrNone, written : Nat]]
      /\ job \in [Session -> [t : {"none", "creating", "renaming", "renamed", "failed"},
                              of : UploadOrNone, slot : SlotOrNone]]
      /\ life \in [Session -> {"off", "on", "over", "crashed"}] /\ retrying \in [Session -> SUBSET Path]
  BY <1>1 DEF UplTyped
<1>3. CASE SessionStarts(s)
  <2>1. /\ life[s] = "off" /\ life' = [life EXCEPT ![s] = "on"]
        /\ UNCHANGED <<active, job, retrying, folder, savedAt>>
    BY <1>3 DEF SessionStarts
  <2>2. \A r \in Session \ {s} : life'[r] = life[r] /\ job'[r] = job[r]
    BY <1>2, <2>1
  <2>3. Done(s)'
    BY <1>1, <2>1 DEF Done, OneJob
  <2> QED
    BY <2>1, <2>2, <2>3, HoldCalm
<1>4. CASE SessionEnds(s)
  <2>1. /\ life' = [life EXCEPT ![s] = "over"] /\ DropsReceive(s)
        /\ job' = [job EXCEPT ![s] = IF @.t = "renaming" THEN @ ELSE NoJob]
        /\ data' = data /\ stale' = stale /\ savedAt' = savedAt
    BY <1>4 DEF SessionEnds
  <2>2. life'[s] # "on" /\ \A r \in Session \ {s} : life'[r] = life[r] /\ job'[r] = job[r]
    BY <1>2, <2>1
  <2> QED
    BY <2>1, <2>2, HoldDrop
<1>5. CASE Crash(s)
  <2>1. /\ life' = [life EXCEPT ![s] = "crashed"]
        /\ active' = [active EXCEPT ![s] = NoReceive] /\ job' = [job EXCEPT ![s] = NoJob]
        /\ retrying' = [retrying EXCEPT ![s] = {}] /\ UNCHANGED <<part, final, data, stale, savedAt>>
    BY <1>5 DEF Crash, folder
  <2>2. /\ \A r \in Session \ {s} : /\ life'[r] = life[r] /\ job'[r] = job[r]
                                    /\ active'[r] = active[r] /\ retrying'[r] = retrying[r]
        /\ life'[s] = "crashed" /\ retrying'[s] = {}
        /\ active'[s].of = NoUpload /\ active'[s].slot = -1
    BY <1>2, <2>1 DEF NoReceive
  <2>3. PICK n : n = At(s)
    OBVIOUS
  <2>4. /\ \A r \in Session \ {s} : active[r].of # NoUpload => active[r].slot # n
        /\ NoRetry(n) /\ \A x \in savedAt : x[2] # n
    BY <2>3, HoldNames
  <2>5. Confined(s, n)
    BY <2>1, <2>2, <2>4 DEF Confined
  <2>6. Holds(s)' /\ Done(s)' /\ Doomed(s, n)'
    BY <2>2 DEF Holds, Done, Doomed
  <2> QED
    BY <2>5, <2>6, HoldStep
<1> QED
  BY <1>3, <1>4, <1>5

(* A step that leaves every receive alone: a name is removed that nobody    *)
(* holds, or a part file goes to its name.                                  *)
LEMMA HoldFolder ==
    ASSUME HoldInv, FlowInv', UNCHANGED <<life, active, data, savedAt>>,
           \A r \in Session : Done(r)',
           \A r \in Session : retrying'[r] \subseteq retrying[r],
           \A n \in Slot :
             \/ part'[n] = part[n] /\ final'[n] = final[n]
             \/ part'[n] = NoUpload /\ final'[n] = final[n]
             \/ part[n] \in Upload /\ part'[n] = NoUpload /\ final'[n].of = part[n]
             \/ /\ part'[n] \in {part[n], NoUpload}
                /\ \A r \in Session : active[r].of # NoUpload => active[r].slot # n
                /\ \A r \in Session : <<"final", n>> \notin retrying'[r]
                /\ \A x \in savedAt : x[2] # n,
           stale' \subseteq stale \/ \A r \in Session : retrying'[r] = {},
           stale \subseteq stale',
           \A r \in Session : active[r].of # NoUpload => active[r].of \notin stale'
    PROVE  HoldInv'
<1>1. UplTyped /\ \A r \in Session : OneJob(r) /\ Holds(r)
  BY DEF HoldInv, FlowInv
<1>2. NoUpload \notin stale /\ NoUpload \notin stale' /\ NoFile.of = NoUpload
  BY DEF HoldInv, FlowInv, UplTyped, NoFile
<1>3. ASSUME NEW r \in Session
      PROVE  Holds(r)'
  <2> SUFFICES ASSUME active[r].of # NoUpload PROVE Holds(r)'
    BY DEF Holds
  <2>0. PICK u, m, k : u = active[r].of /\ m = active[r].slot /\ k = active[r].written
    OBVIOUS
  <2>1. m \in Slot /\ u \in Upload
    BY <1>1, <2>0 DEF OneJob, UplTyped, UploadOrNone
  <2>2. /\ final[m].of = u /\ part[m] \in {u, NoUpload} /\ u \notin stale
        /\ NoRetry(m) /\ Data(u, k) /\ \A x \in savedAt : x[1] # u
    BY <1>1, <2>0 DEF Holds
  <2>3. final'[m].of = u /\ part'[m] \in {u, NoUpload} /\ u \notin stale'
    BY <2>0, <2>1, <2>2
  <2>4. NoRetry(m)' /\ Data(u, k)'
    BY <2>2 DEF NoRetry, Data
  <2> QED
    BY <2>0, <2>2, <2>3, <2>4 DEF Holds
<1>4. ASSUME NEW r \in Session, NEW m \in Slot
      PROVE  Doomed(r, m)'
  <2> SUFFICES ASSUME <<"final", m>> \in retrying'[r] PROVE Doomed(r, m)'
    BY DEF Doomed
  <2>1. <<"final", m>> \in retrying[r] /\ Doomed(r, m) /\ stale' \subseteq stale
    BY DEF HoldInv
  <2>2. /\ final[m] # NoFile /\ part[m] \notin stale
        /\ \A q \in Session : active[q].slot # m /\ (<<"final", m>> \in retrying[q] => q = r)
        /\ \A x \in savedAt : x[2] # m
    BY <2>1 DEF Doomed
  <2>3. final'[m] # NoFile
    BY <1>2, <2>2
  <2>4. part'[m] \notin stale'
    BY <1>2, <2>1, <2>2
  <2>5. \A q \in Session : <<"final", m>> \in retrying'[q] => q = r
    BY <2>2
  <2> QED
    BY <2>2, <2>3, <2>4, <2>5 DEF Doomed
<1>5. ASSUME NEW x \in savedAt'
      PROVE  Safe(x)'
  <2>1. x[2] \in Slot /\ x[1] \in Upload /\ Safe(x)
    BY <1>1 DEF HoldInv, UplTyped
  <2>2. part[x[2]] = NoUpload /\ NoUpload \notin Upload
    BY <2>1 DEF Safe
  <2>3. part'[x[2]] = part[x[2]] /\ final'[x[2]] = final[x[2]]
    BY <2>1, <2>2
  <2> QED
    BY <2>1, <2>3 DEF Safe, Data
<1> QED
  BY <1>3, <1>4, <1>5 DEF HoldInv

LEMMA HoldRenames ==
    ASSUME HoldInv, FlowInv', NEW s \in Session, Renames(s)
    PROVE  HoldInv'
<1>0. PICK n : n = job[s].slot
  OBVIOUS
<1>1. UplTyped /\ OneJob(s) /\ \A r \in Session : OneJob(r) /\ Holds(r) /\ Done(r)
  BY DEF HoldInv, FlowInv
<1>2. /\ job[s].t = "renaming" /\ UNCHANGED <<life, active, retrying, data, stale, savedAt>>
      /\ \/ /\ part[n] # NoUpload
            /\ final' = [final EXCEPT ![n] = [of |-> part[n], whole |-> TRUE]]
            /\ part' = [part EXCEPT ![n] = NoUpload]
            /\ job' = [job EXCEPT ![s].t = "renamed"]
         \/ UNCHANGED <<part, final>> /\ job' = [job EXCEPT ![s].t = "failed"]
  BY <1>0 DEF Renames
<1>3. /\ job \in [Session -> [t : {"none", "creating", "renaming", "renamed", "failed"},
                              of : UploadOrNone, slot : SlotOrNone]]
      /\ part \in [Slot -> UploadOrNone] /\ final \in [Slot -> [of : UploadOrNone, whole : BOOLEAN]]
  BY <1>1 DEF UplTyped
<1>4. n \in Slot
  BY <1>0, <1>1, <1>2 DEF OneJob
<1>5. /\ \A r \in Session \ {s} : job'[r] = job[r]
      /\ job'[s].slot = n /\ job'[s].of = job[s].of
  BY <1>0, <1>2, <1>3
<1>6. \A r \in Session : active[r].of # NoUpload => active[r].of \notin stale'
  BY <1>1, <1>2 DEF Holds
<1>7. CASE UNCHANGED <<part, final>> /\ job' = [job EXCEPT ![s].t = "failed"]
  <2>1. job'[s].t = "failed"
    BY <1>3, <1>7
  <2>2. Done(s)'
    BY <2>1 DEF Done
  <2> QED
    BY <1>2, <1>5, <1>7, <2>2, HoldCalm DEF folder
<1>8. CASE /\ part[n] # NoUpload
           /\ final' = [final EXCEPT ![n] = [of |-> part[n], whole |-> TRUE]]
           /\ part' = [part EXCEPT ![n] = NoUpload]
           /\ job' = [job EXCEPT ![s].t = "renamed"]
  <2>1. /\ part[n] \in Upload /\ part'[n] = NoUpload /\ final'[n] = [of |-> part[n], whole |-> TRUE]
        /\ \A m \in Slot \ {n} : part'[m] = part[m] /\ final'[m] = final[m]
    BY <1>3, <1>4, <1>8 DEF UploadOrNone
  <2>2. final'[n].of = part[n]
    BY <2>1
  <2>3. ASSUME NEW r \in Session \ {s}
        PROVE  Done(r)'
    <3> SUFFICES ASSUME life[r] = "on", job[r].t \in {"renaming", "renamed"} PROVE Done(r)'
      BY <1>2, <1>5 DEF Done
    <3>1. /\ active[r].written = Size[job[r].of]
          /\ job[r].t = "renamed" => /\ final[job[r].slot] = [of |-> job[r].of, whole |-> TRUE]
                                     /\ part[job[r].slot] = NoUpload
      BY <1>1 DEF Done
    <3>2. job[r].slot \in Slot
      BY <1>1 DEF OneJob
    <3>3. job[r].t = "renamed" => job[r].slot # n
      BY <1>8, <3>1
    <3>4. job[r].t = "renamed" => /\ final'[job[r].slot] = [of |-> job[r].of, whole |-> TRUE]
                                  /\ part'[job[r].slot] = NoUpload
      BY <2>1, <3>1, <3>2, <3>3
    <3> QED
      BY <1>2, <1>5, <3>1, <3>4 DEF Done
  <2>4. Done(s)'
    <3> SUFFICES ASSUME life[s] = "on" PROVE Done(s)'
      BY <1>2 DEF Done
    <3>1. job[s].of = active[s].of /\ n = active[s].slot /\ active[s].of \in Upload
      BY <1>0, <1>1, <1>2 DEF OneJob, Receiving
    <3>2. part[n] = job[s].of
      BY <1>1, <1>8, <3>1 DEF Holds
    <3>3. active[s].written = Size[job[s].of]
      BY <1>1, <1>2 DEF Done
    <3> QED
      BY <1>2, <1>5, <2>1, <3>2, <3>3 DEF Done
  <2>5. \A m \in Slot :
          \/ part'[m] = part[m] /\ final'[m] = final[m]
          \/ part[m] \in Upload /\ part'[m] = NoUpload /\ final'[m].of = part[m]
    BY <2>1, <2>2
  <2>6. /\ UNCHANGED <<life, active, data, savedAt>> /\ \A r \in Session : Done(r)'
        /\ \A r \in Session : retrying'[r] \subseteq retrying[r]
        /\ stale' \subseteq stale /\ stale \subseteq stale'
    BY <1>2, <2>3, <2>4
  <2> QED
    BY <1>6, <2>5, <2>6, HoldFolder
<1> QED
  BY <1>2, <1>7, <1>8

(* What nobody holds may be removed.                                        *)
LEMMA HoldRemoval ==
    ASSUME HoldInv, FlowInv', NEW s \in Session, Sweeps(s) \/ \E p \in Path : Retries(s, p)
    PROVE  HoldInv'
<1>1. UplTyped /\ \A r \in Session : OneJob(r) /\ Holds(r) /\ Done(r) /\ \A n \in Slot : Doomed(r, n)
  BY DEF HoldInv, FlowInv
<1>2. /\ part \in [Slot -> UploadOrNone] /\ final \in [Slot -> [of : UploadOrNone, whole : BOOLEAN]]
      /\ retrying \in [Session -> SUBSET Path] /\ stale \subseteq Upload
      /\ savedAt \subseteq Upload \X Slot
  BY <1>1 DEF UplTyped
<1>3. UNCHANGED <<life, active, job, data, stale, savedAt>>
  BY DEF Sweeps, Retries
<1>4. \A r \in Session : active[r].of # NoUpload => active[r].of \notin stale'
  BY <1>1, <1>3 DEF Holds
<1>5. ASSUME \A n \in Slot :
               \/ part'[n] = part[n] /\ final'[n] = final[n]
               \/ part'[n] = NoUpload /\ final'[n] = final[n]
               \/ /\ part'[n] \in {part[n], NoUpload}
                  /\ \A r \in Session : active[r].of # NoUpload => active[r].slot # n
                  /\ \A r \in Session : <<"final", n>> \notin retrying'[r]
                  /\ \A x \in savedAt : x[2] # n,
             \A r \in Session : retrying'[r] \subseteq retrying[r]
      PROVE  HoldInv'
  <2>1. ASSUME NEW r \in Session
        PROVE  Done(r)'
    <3> SUFFICES ASSUME life[r] = "on", job[r].t \in {"renaming", "renamed"} PROVE Done(r)'
      BY <1>3 DEF Done
    <3>0. PICK m, u : m = job[r].slot /\ u = job[r].of
      OBVIOUS
    <3>1. m \in Slot /\ active[r].slot = m /\ active[r].of # NoUpload
      BY <1>1, <3>0 DEF OneJob, Receiving
    <3>2. final'[m] = final[m] /\ part'[m] \in {part[m], NoUpload}
      BY <1>5, <3>1
    <3>3. /\ active[r].written = Size[u]
          /\ job[r].t = "renamed" => final[m] = [of |-> u, whole |-> TRUE] /\ part[m] = NoUpload
      BY <1>1, <3>0 DEF Done
    <3>4. job[r].t = "renamed" => final'[m] = [of |-> u, whole |-> TRUE] /\ part'[m] = NoUpload
      BY <3>2, <3>3
    <3> QED
      BY <1>3, <3>0, <3>3, <3>4 DEF Done
  <2>2. /\ UNCHANGED <<life, active, data, savedAt>>
        /\ stale' \subseteq stale /\ stale \subseteq stale'
    BY <1>3
  <2> QED
    BY <1>4, <1>5, <2>1, <2>2, HoldFolder
<1>6. CASE Sweeps(s)
  <2>1. PICK old : /\ old = {n \in Slot : part[n] \in stale}
                   /\ part' = [n \in Slot |-> IF n \in old THEN NoUpload ELSE part[n]]
                   /\ final' = [n \in Slot |-> IF n \in old /\ ~final[n].whole THEN NoFile ELSE final[n]]
                   /\ retrying' = retrying
    BY <1>6 DEF Sweeps
  <2>2. ASSUME NEW n \in Slot, n \in old
        PROVE  /\ \A r \in Session : active[r].of # NoUpload => active[r].slot # n
               /\ \A r \in Session : <<"final", n>> \notin retrying'[r]
               /\ \A x \in savedAt : x[2] # n
    <3>1. part[n] \in stale /\ part[n] # NoUpload
      BY <1>2, <2>1, <2>2
    <3>2. \A r \in Session : active[r].of # NoUpload => active[r].slot # n
      BY <1>1, <3>1 DEF Holds
    <3>3. \A r \in Session : <<"final", n>> \notin retrying'[r]
      BY <1>1, <2>1, <3>1 DEF Doomed
    <3>4. \A x \in savedAt : x[2] # n
      BY <3>1 DEF HoldInv, Safe
    <3> QED
      BY <3>2, <3>3, <3>4
  <2>3. \A n \in Slot \ old : part'[n] = part[n] /\ final'[n] = final[n]
    BY <2>1
  <2>4. \A n \in Slot : part'[n] \in {part[n], NoUpload}
    BY <2>1
  <2> QED
    BY <1>5, <2>1, <2>2, <2>3, <2>4
<1>7. ASSUME NEW p \in Path, Retries(s, p)
      PROVE  HoldInv'
  <2>1. /\ p \in retrying[s]
        /\ part' = IF p[1] = "part" THEN [part EXCEPT ![p[2]] = NoUpload] ELSE part
        /\ final' = IF p[1] = "final" THEN [final EXCEPT ![p[2]] = NoFile] ELSE final
        /\ retrying' = [retrying EXCEPT ![s] = @ \ {p}]
    BY <1>7 DEF Retries
  <2>2. /\ \A r \in Session : retrying'[r] \subseteq retrying[r]
        /\ p \notin retrying'[s]
    BY <1>2, <2>1
  <2>3. PICK kind \in {"part", "final"}, n \in Slot : p = <<kind, n>>
    <3>1. p \in {"part", "final"} \X Slot
      BY <1>7 DEF Path
    <3>2. p = <<p[1], p[2]>> /\ p[1] \in {"part", "final"} /\ p[2] \in Slot
      BY <3>1
    <3> QED
      BY <3>2, Zenon
  <2>4. CASE kind = "part"
    <3>1. final' = final /\ \A m \in Slot : part'[m] = part[m] \/ part'[m] = NoUpload
      BY <1>2, <2>1, <2>3, <2>4
    <3> QED
      BY <1>5, <2>2, <3>1
  <2>5. CASE kind = "final"
    <3>1. part' = part /\ \A m \in Slot \ {n} : final'[m] = final[m]
      BY <1>2, <2>1, <2>3, <2>5
    <3>2. <<"final", n>> \in retrying[s] /\ <<"final", n>> \notin retrying'[s]
      BY <2>1, <2>2, <2>3, <2>5
    <3>3. /\ \A r \in Session : active[r].slot # n /\ (<<"final", n>> \in retrying[r] => r = s)
          /\ \A x \in savedAt : x[2] # n
      BY <1>1, <3>2 DEF Doomed
    <3>4. \A r \in Session : <<"final", n>> \notin retrying'[r]
      BY <2>2, <3>2, <3>3
    <3> QED
      BY <1>5, <2>2, <3>1, <3>3, <3>4
  <2> QED
    BY <2>4, <2>5
<1> QED
  BY <1>6, <1>7

LEMMA HoldNext ==
    ASSUME HoldInv, ~Stalls, UplNext PROVE HoldInv'
<1>1. FlowInv'
  BY FlowNext DEF HoldInv
<1>2. ASSUME NEW u \in Upload, TenMinutesPass(u)
      PROVE  HoldInv'
  <2>1. /\ \A s \in Session : retrying[s] = {} /\ active[s].of # u
        /\ stale' = stale \cup {u}
        /\ UNCHANGED <<life, active, job, retrying, part, final, data, savedAt>>
    BY <1>2 DEF TenMinutesPass, receiver
  <2>2. \A s \in Session : Holds(s) /\ Done(s)
    BY DEF HoldInv
  <2>3. \A s \in Session : Done(s)'
    BY <2>1, <2>2 DEF Done
  <2>4. \A s \in Session : active[s].of # NoUpload => active[s].of \notin stale'
    BY <2>1, <2>2 DEF Holds
  <2>5. /\ stale \subseteq stale'
        /\ \A s \in Session : retrying'[s] = {} /\ retrying'[s] \subseteq retrying[s]
        /\ \A n \in Slot : part'[n] = part[n] /\ final'[n] = final[n]
    BY <2>1
  <2> QED
    BY <1>1, <2>1, <2>3, <2>4, <2>5, HoldFolder
<1>3. ASSUME NEW s \in Session, ReceiverStep(s)
      PROVE  HoldInv'
  BY <1>1, <1>3, HoldTaking, HoldChunk, HoldCreates, HoldRenames, HoldEndsFile, HoldSessions, HoldRemoval
     DEF ReceiverStep
<1> QED
  BY <1>1, <1>2, <1>3, HoldSender DEF UplNext

(* A file that was answered with `saved` stays whole under its name, when   *)
(* no receive stands still for as long as a part file takes to be stale.    *)
THEOREM SavedFilesStay ==
    ASSUME ~Stalls PROVE UplSpec => []SavedStays
<1>1. UplInit => HoldInv
  <2> SUFFICES ASSUME UplInit PROVE HoldInv
    OBVIOUS
  <2>1. FlowInv
    BY LeftStart DEF LeftInv
  <2>2. \A s \in Session : Holds(s) /\ Done(s) /\ \A n \in Slot : Doomed(s, n)
    BY DEF UplInit, Holds, Done, Doomed, NoReceive, NoJob
  <2>3. \A x \in savedAt : Safe(x)
    BY DEF UplInit
  <2> QED
    BY <2>1, <2>2, <2>3 DEF HoldInv
<1>2. HoldInv /\ [UplNext]_uplVars => HoldInv'
  <2>1. HoldInv /\ UNCHANGED uplVars => HoldInv'
    <3> SUFFICES ASSUME HoldInv, UNCHANGED uplVars PROVE HoldInv'
      OBVIOUS
    <3>1. FlowInv'
      BY DEF HoldInv, FlowInv, UplTyped, OneJob, InTurn, Expects, Own, Once, NewIsUnknown, ToCome, Unknown,
             Receiving, uplVars, sender, channel, receiver, folder
    <3>2. UNCHANGED <<life, active, job, retrying, part, final, data, stale, savedAt>>
      BY DEF uplVars, receiver, folder
    <3>3. \A s \in Session : Holds(s)' /\ Done(s)'
      BY <3>2 DEF HoldInv, Holds, Done, Data, NoRetry
    <3>4. \A s \in Session : \A n \in Slot : Doomed(s, n)'
      BY <3>2 DEF HoldInv, Doomed
    <3>5. \A x \in savedAt' : Safe(x)'
      BY <3>2 DEF HoldInv, Safe, Data
    <3> QED
      BY <3>1, <3>3, <3>4, <3>5 DEF HoldInv
  <2> QED
    BY <2>1, HoldNext
<1>3. HoldInv => SavedStays
  BY DEF HoldInv, Safe, Data, SavedStays
<1> QED
  BY <1>1, <1>2, <1>3, PTL DEF UplSpec
=============================================================================
