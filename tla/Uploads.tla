------------------------------ MODULE Uploads -------------------------------
(***************************************************************************)
(* Files that a browser sends to a host: FileSender of fileTransfer.ts,    *)
(* Receiver of files/mod.rs, and the Downloads folder that the hosts of    *)
(* one user share.                                                         *)
(*                                                                         *)
(* A session has one sender and one receiver with an ordered reliable      *)
(* channel between them.  All files have the same name, the worst case:    *)
(* slot n of the folder is the name with suffix n.  A file on the disk is  *)
(* known by the upload that made it, its content is the sequence of the    *)
(* uploads its chunks belong to.  Creating and renaming run on the         *)
(* blocking pool and are steps of their own, as is every wait of the       *)
(* sender.  Uploaded folders are left out.                                 *)
(***************************************************************************)
EXTENDS Integers, Sequences, FiniteSets

CONSTANTS Session, Upload, Slot, NoUpload,
          Size,       \* chunks of an upload
          MaxFiles,   \* MAX_RECEIVE_FILES
          Stalls      \* whether a receive that goes on may stand still for STALE_PART_AGE

ASSUME UploadsAssumption ==
    /\ Slot \subseteq Nat /\ MaxFiles \in Nat /\ Stalls \in BOOLEAN
    /\ Size \in [Upload -> Nat]
    /\ NoUpload \notin Upload \cup Session

VARIABLES
    \* the sender
    user,       \* the session an upload was queued in, or NoUpload
    queue,      \* FileSender.queue
    current,    \* FileSender.current
    outcome,    \* current.outcome of every upload so far
    offset,     \* chunks of the current upload sent
    at,         \* where transfer() is
    \* the channel
    up, down,
    \* the receiver
    life,       \* of a session: off, on, over, crashed
    active,     \* Receiver.active
    job,        \* what the receiver waits for
    accepted,   \* budget.files
    sweeping,   \* the sweep of a session start has not run yet
    retrying,   \* paths that the threads of remove_with_retry still try
    \* the folder
    part,       \* file at `<slot>.rcdesk-part`, or NoUpload
    final,      \* file at `<slot>`: placeholder or whole file of an upload
    data,       \* content of the file an upload made
    stale,      \* uploads whose part file is older than STALE_PART_AGE
    savedAt     \* what the receiver answered `saved` for, with the slot

sender   == <<user, queue, current, outcome, offset, at>>
channel  == <<up, down>>
receiver == <<life, active, job, accepted, sweeping, retrying>>
folder   == <<part, final, data, stale>>
uplVars  == <<sender, channel, receiver, folder, savedAt>>

NoFile == [of |-> NoUpload, whole |-> FALSE]
NoReceive == [of |-> NoUpload, slot |-> -1, written |-> 0]
NoJob == [t |-> "none", of |-> NoUpload, slot |-> -1]
Path == {"part", "final"} \X Slot

UplInit ==
    /\ user = [u \in Upload |-> NoUpload]
    /\ queue = [s \in Session |-> <<>>]
    /\ current = [s \in Session |-> NoUpload]
    /\ outcome = [u \in Upload |-> "none"]
    /\ offset = [s \in Session |-> 0]
    /\ at = [s \in Session |-> "idle"]
    /\ up = [s \in Session |-> <<>>] /\ down = [s \in Session |-> <<>>]
    /\ life = [s \in Session |-> "off"]
    /\ active = [s \in Session |-> NoReceive]
    /\ job = [s \in Session |-> NoJob]
    /\ accepted = [s \in Session |-> 0]
    /\ sweeping = [s \in Session |-> FALSE]
    /\ retrying = [s \in Session |-> {}]
    /\ part = [n \in Slot |-> NoUpload]
    /\ final = [n \in Slot |-> NoFile]
    /\ data = [u \in Upload |-> <<>>]
    /\ stale = {}
    /\ savedAt = {}
-----------------------------------------------------------------------------
(* The sender *)

Sends(s, t) == up' = [up EXCEPT ![s] = Append(@, [t |-> t, of |-> current[s]])]

Enqueue(s, u) ==
    /\ life[s] = "on" /\ user[u] = NoUpload
    /\ user' = [user EXCEPT ![u] = s]
    /\ queue' = [queue EXCEPT ![s] = Append(@, u)]
    /\ UNCHANGED <<current, outcome, offset, at, channel, receiver, folder, savedAt>>

(* run: the next transfer starts.                                          *)
TransferStarts(s) ==
    /\ life[s] = "on" /\ at[s] = "idle" /\ queue[s] # <<>>
    /\ queue' = [queue EXCEPT ![s] = Tail(@)]
    /\ current' = [current EXCEPT ![s] = Head(queue[s])]
    /\ offset' = [offset EXCEPT ![s] = 0]
    /\ at' = [at EXCEPT ![s] = "loop"]
    /\ up' = [up EXCEPT ![s] = Append(@, [t |-> "start", of |-> Head(queue[s])])]
    /\ UNCHANGED <<user, outcome, down, receiver, folder, savedAt>>

Settled(s) == outcome[current[s]] # "none"

(* The head of the loop: with an outcome the transfer is over, with chunks *)
(* left the next one is read, with none `end` is sent.                     *)
TransferGoesOn(s) ==
    /\ life[s] = "on" /\ at[s] = "loop"
    /\ \/ /\ Settled(s) /\ at' = [at EXCEPT ![s] = "idle"] /\ UNCHANGED up
       \/ /\ ~Settled(s) /\ offset[s] < Size[current[s]]
          /\ at' = [at EXCEPT ![s] = "reading"] /\ UNCHANGED up
       \/ /\ ~Settled(s) /\ offset[s] = Size[current[s]]
          /\ at' = [at EXCEPT ![s] = "ended"] /\ Sends(s, "end")
    /\ UNCHANGED <<user, queue, current, outcome, offset, down, receiver, folder, savedAt>>

(* The chunk is read.  The browser may fail to read it (the file changed): *)
(* the transfer is over, and the host is not told.                         *)
ChunkRead(s) ==
    /\ life[s] = "on" /\ at[s] = "reading"
    /\ \/ /\ Settled(s) /\ at' = [at EXCEPT ![s] = "idle"]
          /\ UNCHANGED <<up, offset, outcome>>
       \/ /\ ~Settled(s) /\ at' = [at EXCEPT ![s] = "loop"]
          /\ Sends(s, "chunk")
          /\ offset' = [offset EXCEPT ![s] = @ + 1]
          /\ UNCHANGED outcome
       \/ /\ ~Settled(s) /\ at' = [at EXCEPT ![s] = "idle"]
          /\ outcome' = [outcome EXCEPT ![current[s]] = "aborted"]
          /\ UNCHANGED <<up, offset>>
    /\ UNCHANGED <<user, queue, current, down, receiver, folder, savedAt>>

EndAnswered(s) ==
    /\ life[s] = "on" /\ at[s] = "ended" /\ Settled(s)
    /\ at' = [at EXCEPT ![s] = "idle"]
    /\ UNCHANGED <<user, queue, current, outcome, offset, channel, receiver, folder, savedAt>>

CancelAll(s) ==
    /\ life[s] = "on" /\ at[s] # "idle"
    /\ queue' = [queue EXCEPT ![s] = <<>>]
    /\ IF Settled(s) THEN UNCHANGED <<outcome, up>>
       ELSE /\ outcome' = [outcome EXCEPT ![current[s]] = "cancelled"]
            /\ Sends(s, "abort")
    /\ UNCHANGED <<user, current, offset, at, down, receiver, folder, savedAt>>

SenderHears(s) ==
    /\ life[s] = "on" /\ down[s] # <<>>
    /\ down' = [down EXCEPT ![s] = Tail(@)]
    /\ LET m == Head(down[s])
           mine == m.of = current[s] /\ ~Settled(s)
       IN /\ outcome' = IF mine THEN [outcome EXCEPT ![m.of] = m.t] ELSE outcome
          /\ \/ UNCHANGED queue
             \/ /\ mine /\ m.t = "aborted"     \* files are disabled
                /\ queue' = [queue EXCEPT ![s] = <<>>]
    /\ UNCHANGED <<user, current, offset, at, up, receiver, folder, savedAt>>
-----------------------------------------------------------------------------
(* The receiver's hold on the folder *)

At(s) == active[s].slot

(* Removing by path, some paths not at once.                               *)
Removes(s, paths) ==
    \E later \in SUBSET paths :
      LET now == paths \ later
      IN /\ part' = [n \in Slot |-> IF <<"part", n>> \in now THEN NoUpload ELSE part[n]]
         /\ final' = [n \in Slot |-> IF <<"final", n>> \in now THEN NoFile ELSE final[n]]
         /\ retrying' = [retrying EXCEPT ![s] = @ \cup later]

(* Drop of an ActiveReceive that is not finished.                          *)
DropsReceive_KeepsPlaceholder(s) ==
    /\ active' = [active EXCEPT ![s] = NoReceive]
    /\ IF active[s] = NoReceive THEN UNCHANGED <<part, final, retrying>>
       ELSE Removes(s, {<<"part", At(s)>>})

DropsReceive(s) ==
    /\ active' = [active EXCEPT ![s] = NoReceive]
    /\ IF active[s] = NoReceive THEN UNCHANGED <<part, final, retrying>>
       ELSE Removes(s, {<<"part", At(s)>>, <<"final", At(s)>>})

(* create_unique: the first name that neither a file nor a part file has.  *)
FreeSlots_PartsOnly == {n \in Slot : part[n] = NoUpload}

FreeSlots == {n \in Slot : final[n] = NoFile /\ part[n] = NoUpload}

ReceiverTakes(s, m) ==
    /\ life[s] = "on" /\ job[s] = NoJob /\ up[s] # <<>>
    /\ Head(up[s]) = m
    /\ up' = [up EXCEPT ![s] = Tail(@)]

Replies(s, msgs) == down' = [down EXCEPT ![s] = @ \o msgs]

Aborted(u) == [t |-> "aborted", of |-> u]

Awaits(s, t, u) == job' = [job EXCEPT ![s] = [t |-> t, of |-> u, slot |-> At(s)]]

(* on_start: an active receive is dropped, a limit or the disk may refuse, *)
(* or else the files are made on the blocking pool.                        *)
OnStart(s, u) ==
    LET old == IF active[s] = NoReceive THEN <<>> ELSE <<Aborted(active[s].of)>>
    IN /\ ReceiverTakes(s, [t |-> "start", of |-> u])
       /\ DropsReceive(s)
       /\ \/ Replies(s, Append(old, Aborted(u))) /\ UNCHANGED job
          \/ accepted[s] < MaxFiles /\ Replies(s, old) /\ Awaits(s, "creating", u)
    /\ UNCHANGED <<sender, life, accepted, sweeping, data, stale, savedAt>>

(* The blocking task makes both files, or fails.  When the session ends    *)
(* meanwhile its result is dropped, and the files with it.                 *)
Creates(s) ==
    LET u == job[s].of
    IN /\ life[s] = "on" /\ job[s].t = "creating"
       /\ job' = [job EXCEPT ![s] = NoJob]
       /\ \/ /\ \E n \in FreeSlots :
                  /\ \A k \in FreeSlots : n <= k
                  /\ part' = [part EXCEPT ![n] = u]
                  /\ final' = [final EXCEPT ![n] = [of |-> u, whole |-> FALSE]]
                  /\ active' = [active EXCEPT ![s] = [of |-> u, slot |-> n, written |-> 0]]
             /\ accepted' = [accepted EXCEPT ![s] = @ + 1]
             /\ UNCHANGED down
          \/ /\ Replies(s, <<Aborted(u)>>)
             /\ UNCHANGED <<part, final, active, accepted>>
    /\ UNCHANGED <<sender, up, life, sweeping, retrying, data, stale, savedAt>>

AbortsReceive(s) ==
    /\ DropsReceive(s)
    /\ Replies(s, <<Aborted(active[s].of)>>)

(* A chunk is written to the file behind the handle, wherever it is named. *)
OnChunk(s, u) ==
    LET a == active[s]
    IN /\ ReceiverTakes(s, [t |-> "chunk", of |-> u])
       /\ \/ /\ a = NoReceive
             /\ UNCHANGED <<active, part, final, retrying, down, data, stale>>
          \/ /\ a # NoReceive /\ a.written < Size[a.of]
             /\ active' = [active EXCEPT ![s].written = @ + 1]
             /\ data' = [data EXCEPT ![a.of] = Append(@, u)]
             /\ stale' = stale \ {a.of}
             /\ UNCHANGED <<part, final, retrying, down>>
          \/ /\ a # NoReceive          \* too much, or the write fails
             /\ AbortsReceive(s)
             /\ UNCHANGED <<data, stale>>
    /\ UNCHANGED <<sender, life, job, accepted, sweeping, savedAt>>

OnEnd(s, u) ==
    LET a == active[s]
    IN /\ ReceiverTakes(s, [t |-> "end", of |-> u])
       /\ \/ /\ a.of # u
             /\ UNCHANGED <<active, part, final, retrying, down, job>>
          \/ /\ a.of = u /\ a.written = Size[u]
             /\ Awaits(s, "renaming", u)
             /\ UNCHANGED <<active, part, final, retrying, down>>
          \/ /\ a.of = u               \* wrong size, or the flush fails
             /\ AbortsReceive(s)
             /\ UNCHANGED job
    /\ UNCHANGED <<sender, life, accepted, sweeping, data, stale, savedAt>>

(* The blocking task renames, also when nobody waits for it any more.      *)
Renames(s) ==
    LET n == job[s].slot
    IN /\ job[s].t = "renaming"
       /\ \/ /\ part[n] # NoUpload
             /\ final' = [final EXCEPT ![n] = [of |-> part[n], whole |-> TRUE]]
             /\ part' = [part EXCEPT ![n] = NoUpload]
             /\ job' = [job EXCEPT ![s].t = "renamed"]
          \/ /\ job' = [job EXCEPT ![s].t = "failed"]
             /\ UNCHANGED <<part, final>>
    /\ UNCHANGED <<sender, channel, life, active, accepted, sweeping, retrying, data, stale, savedAt>>

EndsFile(s) ==
    /\ life[s] = "on"
    /\ \/ /\ job[s].t = "renamed"
          /\ active' = [active EXCEPT ![s] = NoReceive]
          /\ Replies(s, <<[t |-> "saved", of |-> job[s].of]>>)
          /\ savedAt' = savedAt \cup {<<job[s].of, job[s].slot>>}
          /\ UNCHANGED <<part, final, retrying>>
       \/ /\ job[s].t = "failed"
          /\ AbortsReceive(s)
          /\ UNCHANGED savedAt
    /\ job' = [job EXCEPT ![s] = NoJob]
    /\ UNCHANGED <<sender, up, life, accepted, sweeping, data, stale>>

OnAbort(s, u) ==
    /\ ReceiverTakes(s, [t |-> "abort", of |-> u])
    /\ IF active[s].of = u THEN DropsReceive(s)
       ELSE UNCHANGED <<active, part, final, retrying>>
    /\ UNCHANGED <<sender, down, life, job, accepted, sweeping, data, stale, savedAt>>
-----------------------------------------------------------------------------
(* Sessions and time *)

SessionStarts(s) ==
    /\ life[s] = "off"
    /\ life' = [life EXCEPT ![s] = "on"]
    /\ sweeping' = [sweeping EXCEPT ![s] = TRUE]
    /\ UNCHANGED <<sender, channel, active, job, accepted, retrying, folder, savedAt>>

(* sweep_stale_parts: a stale part file goes, and the placeholder beside it. *)
Sweeps(s) ==
    LET old == {n \in Slot : part[n] \in stale}
    IN /\ sweeping[s]
       /\ sweeping' = [sweeping EXCEPT ![s] = FALSE]
       /\ part' = [n \in Slot |-> IF n \in old THEN NoUpload ELSE part[n]]
       /\ final' = [n \in Slot |-> IF n \in old /\ ~final[n].whole THEN NoFile ELSE final[n]]
       /\ UNCHANGED <<sender, channel, life, active, job, accepted, retrying, data, stale, savedAt>>

(* The sender and the channel are gone.                                    *)
Closes(s) ==
    /\ queue' = [queue EXCEPT ![s] = <<>>]
    /\ current' = [current EXCEPT ![s] = NoUpload]
    /\ offset' = [offset EXCEPT ![s] = 0]
    /\ at' = [at EXCEPT ![s] = "idle"]
    /\ up' = [up EXCEPT ![s] = <<>>]
    /\ down' = [down EXCEPT ![s] = <<>>]
    /\ outcome' = [u \in Upload |-> IF user[u] = s THEN "none" ELSE outcome[u]]

(* The channel closes or the task is aborted: the receive is dropped, with *)
(* whatever it waits for; the sweep and a rename go on.                    *)
SessionEnds(s) ==
    /\ life[s] = "on"
    /\ life' = [life EXCEPT ![s] = "over"]
    /\ Closes(s)
    /\ DropsReceive(s)
    /\ job' = [job EXCEPT ![s] = IF @.t = "renaming" THEN @ ELSE NoJob]
    /\ UNCHANGED <<user, accepted, sweeping, data, stale, savedAt>>

(* The host process dies, its threads with it.                             *)
Crash(s) ==
    /\ life[s] \in {"on", "over"}
    /\ life' = [life EXCEPT ![s] = "crashed"]
    /\ Closes(s)
    /\ active' = [active EXCEPT ![s] = NoReceive]
    /\ job' = [job EXCEPT ![s] = NoJob]
    /\ retrying' = [retrying EXCEPT ![s] = {}]
    /\ sweeping' = [sweeping EXCEPT ![s] = FALSE]
    /\ UNCHANGED <<user, accepted, folder, savedAt>>

Retries(s, p) ==
    /\ p \in retrying[s]
    /\ part' = IF p[1] = "part" THEN [part EXCEPT ![p[2]] = NoUpload] ELSE part
    /\ final' = IF p[1] = "final" THEN [final EXCEPT ![p[2]] = NoFile] ELSE final
    /\ retrying' = [retrying EXCEPT ![s] = @ \ {p}]
    /\ UNCHANGED <<sender, channel, life, active, job, accepted, sweeping, data, stale, savedAt>>

(* Ten minutes without a write.  The threads of remove_with_retry have     *)
(* given up by then.                                                       *)
TenMinutesPass(u) ==
    /\ u \notin stale /\ \E n \in Slot : part[n] = u
    /\ \A s \in Session : retrying[s] = {}
    /\ Stalls \/ \A s \in Session : active[s].of # u
    /\ stale' = stale \cup {u}
    /\ UNCHANGED <<sender, channel, receiver, part, final, data, savedAt>>
-----------------------------------------------------------------------------
SenderStep(s) ==
    \/ \E u \in Upload : Enqueue(s, u)
    \/ TransferStarts(s) \/ TransferGoesOn(s) \/ ChunkRead(s) \/ EndAnswered(s)
    \/ CancelAll(s) \/ SenderHears(s)

ReceiverStep(s) ==
    \/ \E u \in Upload : OnStart(s, u) \/ OnChunk(s, u) \/ OnEnd(s, u) \/ OnAbort(s, u)
    \/ Creates(s) \/ Renames(s) \/ EndsFile(s)
    \/ SessionStarts(s) \/ Sweeps(s) \/ SessionEnds(s) \/ Crash(s)
    \/ \E p \in Path : Retries(s, p)

UplNext ==
    \/ \E s \in Session : SenderStep(s) \/ ReceiverStep(s)
    \/ \E u \in Upload : TenMinutesPass(u)

UplSpec == UplInit /\ [][UplNext]_uplVars
-----------------------------------------------------------------------------
(* Properties *)

(* A file that was answered with `saved` is in the folder under its name,  *)
(* with every chunk of its own upload and none of another, whatever the    *)
(* sessions of this and the other hosts cancel, abort, retry to remove or  *)
(* sweep afterwards (files/mod.rs:33).                                     *)
SavedStays ==
    \A x \in savedAt :
      /\ final[x[2]] = [of |-> x[1], whole |-> TRUE]
      /\ Len(data[x[1]]) = Size[x[1]]
      /\ \A i \in DOMAIN data[x[1]] : data[x[1]][i] = x[1]

(* Whatever ends a transfer removes its part file and its placeholder: one *)
(* that lies in the folder belongs to a receive that goes on, or will be   *)
(* removed, or its host crashed (files/mod.rs:36).  A whole file may stay  *)
(* unanswered: the session ends while the rename is on the blocking pool.  *)
NothingIsLeft ==
    \A u \in Upload, n \in Slot :
      LET s == user[u]
          explained(kind) == \/ active[s].of = u \/ <<kind, n>> \in retrying[s]
                             \/ life[s] = "crashed"
      IN /\ part[n] = u => explained("part")
         /\ final[n] = [of |-> u, whole |-> FALSE] => explained("final")
=============================================================================
