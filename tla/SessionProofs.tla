---------------------------- MODULE SessionProofs ----------------------------
(***************************************************************************)
(* What a session shows and what it does with the keys, for any number of  *)
(* displays, pipelines, pastes and failures, and queues of any length.     *)
(***************************************************************************)
EXTENDS Video, Input, Integers, TLAPS

USE VideoAssumption DEF VideoAssumption

DisplayOrNone == Display \cup {0}

PipeRecord ==
    [of : Int, display : DisplayOrNone, geometry : Nat, excludes : Nat, asked : BOOLEAN,
     encoder : {"none", "runs", "hangs"}, watched : BOOLEAN, first : BOOLEAN,
     forward : {"none", "reads", "key", "delta"}, lost : BOOLEAN]

BuildRecord == [why : {"none", "recover", "geometry", "switch", "curtain"}, display : DisplayOrNone, geometry : Nat]

VidTyped ==
    /\ inPicture \in BOOLEAN /\ connected \in BOOLEAN
    /\ pipe \in [Pipe -> PipeRecord]
    /\ current \in Pipe /\ generation \in Int
    /\ building \in BuildRecord
    /\ geometry \in [Display -> Nat]
    /\ curtain \in Nat /\ excluded \in Nat /\ trouble \in Nat

(* A pipeline was started in this slot.                                     *)
Used(p) == pipe[p].forward # "none" \/ ~pipe[p].first

(* Slots are used in order, and the pipeline that is shown was not told to  *)
(* stop.                                                                    *)
SlotsInOrder ==
    /\ \A p \in Pipe : IF p <= current THEN Used(p) ELSE pipe[p] = NoPipe
    /\ ~pipe[current].asked /\ pipe[current].display \in Display
    /\ building # NoBuild => current < MaxPipes /\ building.display \in Display /\ building.why # "none"

(* The pipeline that is shown leaves out the curtain's windows, or the loop *)
(* is building one that will.                                               *)
CurtainLeftOut ==
    /\ excluded = curtain
    /\ curtain # 0 /\ building.why # "curtain" => pipe[current].excludes = curtain

PictureInv ==
    /\ VidTyped /\ (building # NoBuild => inPicture)
    /\ inPicture => SlotsInOrder /\ CurtainLeftOut

-----------------------------------------------------------------------------
LEMMA PipeStarted ==
    ASSUME NEW d \in Display, NEW g \in Nat, NEW n \in Int, NEW w \in Nat
    PROVE  /\ Started(d, g, n, w) \in PipeRecord
           /\ Started(d, g, n, w).forward = "reads" /\ Started(d, g, n, w).excludes = w
           /\ ~Started(d, g, n, w).asked /\ Started(d, g, n, w).display = d
BY DEF Started, NoPipe, PipeRecord, DisplayOrNone

LEMMA NoPipeTyped == NoPipe \in PipeRecord /\ NoPipe.forward = "none" /\ NoPipe.first /\ NoPipe.encoder = "none"
BY DEF NoPipe, PipeRecord, DisplayOrNone

LEMMA NoBuildTyped == NoBuild \in BuildRecord /\ NoBuild.why = "none"
BY DEF NoBuild, BuildRecord, DisplayOrNone

(* x follows what is in the slot of p, which stays in use, and shows and    *)
(* leaves out the same, unless it was told to stop.                         *)
Follows(p, x) ==
    /\ x \in PipeRecord
    /\ x.forward # "none" \/ ~x.first \/ (x.forward = pipe[p].forward /\ x.first = pipe[p].first)
    /\ \/ pipe[p].asked
       \/ x.display = pipe[p].display /\ x.excludes = pipe[p].excludes /\ ~x.asked

LEMMA OneSlot ==
    ASSUME PictureInv, NEW p \in Pipe, NEW x, pipe' = [pipe EXCEPT ![p] = x], pipe[p] # NoPipe, Follows(p, x),
           UNCHANGED <<loopVars, geometry, connected>>, trouble' \in Nat
    PROVE  PictureInv'
<1>1. VidTyped'
  BY DEF PictureInv, VidTyped, loopVars, Follows
<1>2. ASSUME inPicture
      PROVE  SlotsInOrder' /\ CurtainLeftOut'
  <2>1. SlotsInOrder /\ CurtainLeftOut /\ p <= current
    BY <1>2 DEF PictureInv, SlotsInOrder, VidTyped, Pipe
  <2>2. Used(p)
    BY <2>1 DEF SlotsInOrder
  <2>3. \A q \in Pipe : IF q <= current THEN pipe'[q].forward # "none" \/ ~pipe'[q].first ELSE pipe'[q] = NoPipe
    BY <2>1, <2>2 DEF PictureInv, SlotsInOrder, VidTyped, Used, Pipe, Follows
  <2>4. /\ pipe'[current].display = pipe[current].display /\ pipe'[current].excludes = pipe[current].excludes
        /\ ~pipe'[current].asked
    BY <2>1 DEF PictureInv, SlotsInOrder, VidTyped, Follows
  <2>5. SlotsInOrder'
    BY <2>1, <2>3, <2>4 DEF SlotsInOrder, Used, loopVars
  <2> QED
    BY <2>1, <2>4, <2>5 DEF CurtainLeftOut, loopVars
<1> QED
  BY <1>1, <1>2 DEF PictureInv, loopVars

(* Frames change one slot that is in use.                                   *)
LEMMA FramesKeep ==
    ASSUME PictureInv, NEW p \in Pipe, Frames(p)
    PROVE  PictureInv'
<1>1. pipe[p] \in PipeRecord
  BY DEF PictureInv, VidTyped
<1>2. ~EncodesNothing(p) => pipe[p] # NoPipe
  BY NoPipeTyped DEF Frames, Encodes, Transmits, ForwardStops, ForwardFails, ThreadsJoin, PipelineFails, Watchdog, NoPipe
<1>3. UNCHANGED <<loopVars, geometry, connected>>
  BY DEF Frames, Encodes, EncodesNothing, Transmits, ForwardStops, ForwardFails, ThreadsJoin, PipelineFails,
         Watchdog, screenVars
<1>4. trouble' \in Nat
  BY DEF Frames, Encodes, EncodesNothing, Transmits, ForwardStops, ForwardFails, ThreadsJoin, PipelineFails,
         Watchdog, Troubles, PictureInv, VidTyped
<1>5. connected \in BOOLEAN /\ pipe \in [Pipe -> PipeRecord]
  BY DEF PictureInv, VidTyped
<1>6. ASSUME NEW x, pipe' = [pipe EXCEPT ![p] = x], pipe[p] # NoPipe, Follows(p, x)
      PROVE  PictureInv'
  BY <1>3, <1>4, <1>6, OneSlot
<1>7. CASE EncodesNothing(p)
  BY <1>3, <1>4, <1>7 DEF EncodesNothing, PictureInv, VidTyped, SlotsInOrder, CurtainLeftOut, Used, loopVars
<1>8. CASE Encodes(p)
  <2> DEFINE f == IF Superseded(p) THEN "reads" ELSE IF keyframe \/ pipe[p].first THEN "key" ELSE "delta"
             l == pipe[p].lost \/ Superseded(p)
             x == [pipe[p] EXCEPT !.forward = f, !.lost = l, !.first = FALSE]
  <2>1. pipe' = [pipe EXCEPT ![p] = x]
    BY <1>1, <1>5, <1>8 DEF Encodes
  <2>2. f \in {"reads", "key", "delta"} /\ l \in BOOLEAN
    BY <1>1 DEF PipeRecord
  <2> HIDE DEF f, l
  <2>3. Follows(p, x)
    BY <1>1, <2>2 DEF PipeRecord, Follows
  <2>4. pipe[p] # NoPipe
    BY <1>8, NoPipeTyped DEF Encodes
  <2> HIDE DEF x
  <2> QED
    BY <1>6, <2>1, <2>3, <2>4
<1>9. CASE Transmits(p)
  <2> DEFINE l == ~connected \/ (pipe[p].lost /\ pipe[p].forward # "key")
             x == [pipe[p] EXCEPT !.forward = "reads", !.lost = l]
  <2>1. pipe' = [pipe EXCEPT ![p] = x]
    BY <1>1, <1>5, <1>9 DEF Transmits
  <2>2. l \in BOOLEAN
    BY <1>1, <1>5 DEF PipeRecord
  <2> HIDE DEF l
  <2>3. Follows(p, x)
    BY <1>1, <2>2 DEF PipeRecord, Follows
  <2>4. pipe[p] # NoPipe
    BY <1>9, NoPipeTyped DEF Transmits
  <2> HIDE DEF x
  <2> QED
    BY <1>6, <2>1, <2>3, <2>4
<1>10. CASE ForwardStops(p)
  <2> DEFINE x == [Ended(NoPipe) EXCEPT !.encoder = pipe[p].encoder]
  <2>1. pipe' = [pipe EXCEPT ![p] = x] /\ pipe[p].asked
    BY <1>10 DEF ForwardStops
  <2>2. Follows(p, x)
    BY <1>1, <2>1, NoPipeTyped DEF PipeRecord, Follows, Ended
  <2>3. pipe[p] # NoPipe
    BY <1>10, NoPipeTyped DEF ForwardStops
  <2> HIDE DEF x
  <2> QED
    BY <1>6, <2>1, <2>2, <2>3
<1>11. CASE ForwardFails(p)
  <2> DEFINE x == Ended(pipe[p])
  <2>1. pipe' = [pipe EXCEPT ![p] = x]
    BY <1>1, <1>5, <1>11 DEF ForwardFails
  <2>2. Follows(p, x)
    BY <1>1 DEF PipeRecord, Follows, Ended
  <2>3. pipe[p] # NoPipe
    BY <1>11, NoPipeTyped DEF ForwardFails
  <2> HIDE DEF x
  <2> QED
    BY <1>6, <2>1, <2>2, <2>3
<1>12. CASE ThreadsJoin(p) \/ PipelineFails(p)
  <2>1. PICK how \in {"none", "hangs"} : pipe' = [pipe EXCEPT ![p].encoder = how]
    BY <1>12 DEF ThreadsJoin, PipelineFails
  <2> DEFINE x == [pipe[p] EXCEPT !.encoder = how]
  <2>2. pipe' = [pipe EXCEPT ![p] = x]
    BY <1>1, <1>5, <2>1
  <2>3. Follows(p, x)
    BY <1>1 DEF PipeRecord, Follows
  <2>4. pipe[p] # NoPipe
    BY <1>12, NoPipeTyped DEF ThreadsJoin, PipelineFails
  <2> HIDE DEF x
  <2> QED
    BY <1>6, <2>2, <2>3, <2>4
<1>13. CASE Watchdog(p)
  <2> DEFINE x == [pipe[p] EXCEPT !.watched = FALSE]
  <2>1. pipe' = [pipe EXCEPT ![p] = x]
    BY <1>1, <1>5, <1>13 DEF Watchdog
  <2>2. Follows(p, x)
    BY <1>1 DEF PipeRecord, Follows
  <2>3. pipe[p] # NoPipe
    BY <1>13, NoPipeTyped DEF Watchdog
  <2> HIDE DEF x
  <2> QED
    BY <1>6, <2>1, <2>2, <2>3
<1> QED
  BY <1>7, <1>8, <1>9, <1>10, <1>11, <1>12, <1>13 DEF Frames
-----------------------------------------------------------------------------
(* The session's loop *)

LEMMA EndKeeps ==
    ASSUME PictureInv, EndSession, generation' \in Int, current' = current,
           UNCHANGED <<geometry, connected>>, trouble' \in Nat
    PROVE  PictureInv'
<1>1. curtain' \in Nat /\ excluded' \in Nat /\ pipe' \in [Pipe -> PipeRecord] /\ building' \in BuildRecord /\ ~inPicture'
  BY NoPipeTyped, NoBuildTyped DEF EndSession, PictureInv, VidTyped
<1> QED
  BY <1>1 DEF EndSession, PictureInv, VidTyped

LEMMA SlotIsFree ==
    ASSUME PictureInv, inPicture, \E p \in Pipe : pipe[p] = NoPipe
    PROVE  current < MaxPipes
<1>1. PICK p \in Pipe : pipe[p] = NoPipe
  OBVIOUS
<1>2. ~Used(p)
  BY <1>1, NoPipeTyped DEF Used
<1> QED
  BY <1>2 DEF PictureInv, SlotsInOrder, VidTyped, Pipe

(* replace_pipeline begins, with the curtain up or not.                     *)
LEMMA ReplacesKeeps ==
    ASSUME PictureInv, Idle, NEW why \in {"recover", "geometry", "switch", "curtain"}, NEW d \in Display, NEW g \in Nat,
           Replaces(why, d, g), current' = current,
           UNCHANGED <<geometry, connected>>, trouble' \in Nat,
           UNCHANGED <<curtain, excluded>> \/ (why = "curtain" /\ curtain' = excluded' /\ curtain' \in Nat)
    PROVE  PictureInv'
<1>1. inPicture /\ SlotsInOrder /\ CurtainLeftOut /\ building.why = "none"
  BY NoBuildTyped DEF Idle, PictureInv
<1>2. current < MaxPipes
  BY <1>1, SlotIsFree DEF Replaces
<1>3. building' = [why |-> why, display |-> d, geometry |-> g] /\ building' \in BuildRecord
  BY DEF Replaces, BuildRecord, DisplayOrNone
<1>4. VidTyped'
  BY <1>3 DEF Replaces, PictureInv, VidTyped, CurtainLeftOut
<1>5. SlotsInOrder'
  BY <1>1, <1>2, <1>3 DEF Replaces, SlotsInOrder, Used
<1>6. CurtainLeftOut'
  BY <1>1, <1>3 DEF Replaces, CurtainLeftOut
<1> QED
  BY <1>1, <1>4, <1>5, <1>6 DEF PictureInv, Replaces

LEMMA BuiltKeeps ==
    ASSUME PictureInv, Built
    PROVE  PictureInv'
<1>1. inPicture /\ building' = NoBuild
  BY DEF Built, PictureInv
<1> DEFINE new == current + 1
           x == Started(building.display, building.geometry, generation, excluded)
           y == [pipe[current] EXCEPT !.asked = TRUE, !.watched = FALSE]
<1>2. SlotsInOrder /\ CurtainLeftOut /\ new \in Pipe /\ building.display \in Display
  BY <1>1 DEF PictureInv, SlotsInOrder, VidTyped, Pipe, Built
<1>3. building.geometry \in Nat /\ generation \in Int /\ excluded \in Nat
  BY DEF PictureInv, VidTyped, BuildRecord
<1>4. /\ x \in PipeRecord /\ x.forward = "reads" /\ x.excludes = excluded
      /\ ~x.asked /\ x.display = building.display
  BY <1>2, <1>3, PipeStarted
<1>5. y \in PipeRecord /\ y.forward = pipe[current].forward /\ y.first = pipe[current].first
  BY DEF PictureInv, VidTyped, PipeRecord
<1>6. pipe' = [pipe EXCEPT ![current] = y, ![new] = x]
  BY DEF Built, Swapped, PictureInv, VidTyped
<1>7. current # new /\ current \in Pipe
  BY <1>2 DEF PictureInv, VidTyped, Pipe
<1> HIDE DEF x, y
<1>8. pipe' \in [Pipe -> PipeRecord] /\ pipe'[new] = x /\ pipe'[current] = y
      /\ \A q \in Pipe \ {current, new} : pipe'[q] = pipe[q]
  BY <1>2, <1>4, <1>5, <1>6, <1>7 DEF PictureInv, VidTyped
<1>9. building' = NoBuild /\ current' = new
  BY DEF Built
<1>10. VidTyped'
  BY <1>2, <1>8, <1>9, NoBuildTyped DEF PictureInv, VidTyped, Built
<1>11. \A q \in Pipe : IF q <= new THEN pipe'[q].forward # "none" \/ ~pipe'[q].first ELSE pipe'[q] = NoPipe
  <2> SUFFICES ASSUME NEW q \in Pipe
               PROVE  IF q <= new THEN pipe'[q].forward # "none" \/ ~pipe'[q].first ELSE pipe'[q] = NoPipe
    OBVIOUS
  <2>1. CASE q = new
    BY <1>4, <1>8, <2>1 DEF Pipe
  <2>2. CASE q = current
    BY <1>2, <1>5, <1>8, <2>2 DEF Pipe, SlotsInOrder, Used
  <2>3. CASE q \notin {current, new}
    <3>1. q <= new <=> q <= current
      BY <1>7, <2>3 DEF Pipe
    <3> QED
      BY <1>2, <1>8, <2>3, <3>1 DEF SlotsInOrder, Used
  <2> QED
    BY <2>1, <2>2, <2>3
<1>12. SlotsInOrder'
  BY <1>2, <1>4, <1>8, <1>9, <1>11 DEF SlotsInOrder, Used
<1>13. CurtainLeftOut'
  BY <1>2, <1>4, <1>8, <1>9 DEF CurtainLeftOut, Built
<1> QED
  BY <1>9, <1>10, <1>12, <1>13 DEF PictureInv

LEMMA BuildFailsKeeps ==
    ASSUME PictureInv, BuildFails
    PROVE  PictureInv'
<1>1. /\ generation' \in Int /\ current' = current /\ trouble' \in Nat
      /\ UNCHANGED <<geometry, connected>>
  BY DEF BuildFails, RestoresOld, Troubles, screenVars, PictureInv, VidTyped
<1>2. CASE EndSession
  BY <1>1, <1>2, EndKeeps
<1>3. CASE /\ building.why # "recover" /\ building' = NoBuild
           /\ IF building.why = "curtain" THEN CurtainBack ELSE UNCHANGED <<curtain, excluded>>
           /\ UNCHANGED <<inPicture, pipe>>
  <2>1. curtain' \in Nat /\ excluded' \in Nat
    BY <1>3 DEF CurtainBack, PictureInv, VidTyped
  <2>2. VidTyped'
    BY <1>1, <1>3, <2>1, NoBuildTyped DEF PictureInv, VidTyped
  <2>3. ASSUME inPicture
        PROVE  SlotsInOrder' /\ CurtainLeftOut'
    BY <1>1, <1>3, <2>3, NoBuildTyped DEF PictureInv, SlotsInOrder, CurtainLeftOut, CurtainBack, Used
  <2> QED
    BY <1>3, <2>2, <2>3 DEF PictureInv
<1> QED
  BY <1>2, <1>3 DEF BuildFails

LEMMA HandlingKeeps ==
    ASSUME PictureInv, HandlesFailure \/ HandlesChange
    PROVE  PictureInv'
<1>1. /\ Idle /\ current' = current /\ trouble' \in Nat
      /\ UNCHANGED <<geometry, connected>>
  BY DEF HandlesFailure, HandlesChange, screenVars, PictureInv, VidTyped
<1>2. inPicture /\ Shown \in Display /\ \A d \in Display : geometry[d] \in Nat
  BY <1>1 DEF Idle, Shown, PictureInv, SlotsInOrder, VidTyped
<1>3. CASE HandlesFailure /\ EndSession
  <2>1. generation' \in Int
    BY <1>3 DEF HandlesFailure, EndSession, Replaces, PictureInv, VidTyped
  <2> QED
    BY <1>1, <1>3, <2>1, EndKeeps
<1>4. CASE HandlesFailure /\ ~EndSession
  <2>1. PICK d \in Fresh : Replaces("recover", d, geometry[d]) /\ UNCHANGED <<curtain, excluded>>
    BY <1>4 DEF HandlesFailure
  <2>2. d \in Display
    BY <1>2 DEF Fresh, Listed
  <2> QED
    BY <1>1, <1>2, <2>1, <2>2, ReplacesKeeps
<1>5. CASE HandlesChange
  <2>1. CASE geometry[Shown] \in {0, pipe[current].geometry}
    BY <1>5, <2>1 DEF HandlesChange, PictureInv, VidTyped, SlotsInOrder, CurtainLeftOut, Used
  <2>2. CASE geometry[Shown] \notin {0, pipe[current].geometry}
    <3>1. Replaces("geometry", Shown, geometry[Shown]) /\ UNCHANGED <<curtain, excluded>>
      BY <1>5, <2>2 DEF HandlesChange
    <3> QED
      BY <1>1, <1>2, <3>1, ReplacesKeeps
  <2> QED
    BY <2>1, <2>2
<1> QED
  BY <1>3, <1>4, <1>5

LEMMA RequestsKeep ==
    ASSUME PictureInv, (\E d \in Display : SwitchDisplay(d)) \/ \E on \in BOOLEAN : SetCurtain(on)
    PROVE  PictureInv'
<1>1. /\ Idle /\ current' = current /\ trouble' \in Nat /\ trouble \in Nat /\ trouble' = trouble + 1
      /\ UNCHANGED <<geometry, connected>>
  BY DEF SwitchDisplay, SetCurtain, Troubles, screenVars, PictureInv, VidTyped
<1>2. inPicture /\ Shown \in Display /\ (\A d \in Display : geometry[d] \in Nat) /\ pipe[current].geometry \in Nat
  BY <1>1 DEF Idle, Shown, PictureInv, SlotsInOrder, VidTyped, PipeRecord
<1>3. ASSUME NEW d \in Display, SwitchDisplay(d)
      PROVE  PictureInv'
  <2>1. Replaces("switch", d, geometry[d]) /\ UNCHANGED <<curtain, excluded>>
    BY <1>3 DEF SwitchDisplay
  <2> QED
    BY <1>1, <1>2, <2>1, ReplacesKeeps
<1>4. CASE SetCurtain(TRUE)
  <2>1. Replaces("curtain", Shown, pipe[current].geometry) /\ curtain' = excluded' /\ curtain' \in Nat
    BY <1>1, <1>4 DEF SetCurtain
  <2> QED
    BY <1>1, <1>2, <2>1, ReplacesKeeps
<1>5. CASE SetCurtain(FALSE)
  <2>1. CurtainBack /\ UNCHANGED <<inPicture, generation, building, pipe>>
    BY <1>5 DEF SetCurtain
  <2>2. VidTyped' /\ inPicture' = inPicture /\ building' = building
    BY <1>1, <2>1 DEF CurtainBack, PictureInv, VidTyped
  <2>3. SlotsInOrder' /\ CurtainLeftOut'
    BY <1>1, <1>2, <2>1 DEF CurtainBack, PictureInv, SlotsInOrder, CurtainLeftOut, Used
  <2> QED
    BY <1>2, <2>2, <2>3 DEF PictureInv
<1> QED
  BY <1>3, <1>4, <1>5

(* The other steps, none of which is about the pipelines.                   *)
LEMMA OutsideKeeps ==
    ASSUME PictureInv,
           \/ PeerConnects \/ NetworkLoses \/ AsksKeyframe \/ WindowPasses \/ DisplayPoll
           \/ \E d \in Display : DisplayChanges(d)
           \/ UNCHANGED vidVars
    PROVE  PictureInv'
<1>1. UNCHANGED <<inPicture, pipe, current, generation, building, curtain, excluded>>
  BY DEF PeerConnects, NetworkLoses, AsksKeyframe, WindowPasses, DisplayPoll, DisplayChanges, vidVars, frameVars,
         loopVars
<1>2. trouble' \in Nat
  <2>1. trouble' = trouble \/ trouble' = trouble + 1
    BY DEF PeerConnects, NetworkLoses, AsksKeyframe, WindowPasses, DisplayPoll, DisplayChanges, vidVars, Troubles
  <2>2. trouble \in Nat
    BY DEF PictureInv, VidTyped
  <2> QED
    BY <2>1, <2>2
<1>3. connected' \in BOOLEAN
  <2>1. connected' = connected \/ connected' = TRUE
    BY DEF PeerConnects, NetworkLoses, AsksKeyframe, WindowPasses, DisplayPoll, DisplayChanges, vidVars
  <2> QED
    BY <2>1 DEF PictureInv, VidTyped
<1>4. geometry' \in [Display -> Nat]
  <2>1. CASE \E d \in Display : DisplayChanges(d)
    <3>1. \A n \in Nat : n + 1 \in Nat
      OBVIOUS
    <3>2. \E d \in Display, g \in Nat : geometry' = [geometry EXCEPT ![d] = g]
      BY <1>2, <2>1, <3>1 DEF DisplayChanges
    <3> QED
      BY <3>2 DEF PictureInv, VidTyped
  <2>2. CASE ~ \E d \in Display : DisplayChanges(d)
    BY <2>2 DEF PeerConnects, NetworkLoses, AsksKeyframe, WindowPasses, DisplayPoll, vidVars, screenVars,
       PictureInv, VidTyped
  <2> QED
    BY <2>1, <2>2
<1> QED
  BY <1>1, <1>2, <1>3, <1>4 DEF PictureInv, VidTyped, SlotsInOrder, CurtainLeftOut, Used

LEMMA PictureInitially == VidInit => PictureInv
<1> SUFFICES ASSUME VidInit
             PROVE  PictureInv
  OBVIOUS
<1> DEFINE d == CHOOSE d \in Display : TRUE
<1>1. d \in Display
  OBVIOUS
<1> DEFINE x == Started(d, 1, 0, curtain)
<1>2. pipe = [p \in Pipe |-> IF p = 1 THEN x ELSE NoPipe]
  BY DEF VidInit
<1> HIDE DEF d
<1>3. curtain \in Nat /\ 0 \in Int /\ 1 \in Nat
  BY DEF VidInit
<1>4. x \in PipeRecord /\ x.forward = "reads" /\ x.excludes = curtain /\ ~x.asked /\ x.display \in Display
  BY <1>1, <1>3, PipeStarted
<1>5. 1 \in Pipe
  BY DEF Pipe
<1> HIDE DEF x
<1>6. VidTyped
  BY <1>2, <1>3, <1>4, <1>5, NoPipeTyped, NoBuildTyped DEF VidInit, VidTyped
<1>7. \A p \in Pipe : IF p <= 1 THEN Used(p) ELSE pipe[p] = NoPipe
  BY <1>2, <1>4 DEF Pipe, Used
<1>8. SlotsInOrder
  BY <1>2, <1>4, <1>5, <1>7 DEF VidInit, SlotsInOrder
<1>9. CurtainLeftOut
  BY <1>2, <1>4, <1>5 DEF VidInit, CurtainLeftOut
<1> QED
  BY <1>6, <1>8, <1>9 DEF PictureInv, VidInit

LEMMA PictureStep == PictureInv /\ [VidNext]_vidVars => PictureInv'
BY FramesKeep, BuiltKeeps, BuildFailsKeeps, HandlingKeeps, RequestsKeep, OutsideKeeps DEF VidNext

(* For any number of displays, pipelines, failures and requests, and        *)
(* wherever the session's loop was when it heard of them: once it is done   *)
(* with a request, the pipeline that runs leaves the curtain's windows out. *)
THEOREM CurtainStaysInvisible == VidSpec => []CurtainIsSeenThrough
<1>1. PictureInv => CurtainIsSeenThrough
  BY NoBuildTyped DEF PictureInv, CurtainLeftOut, CurtainIsSeenThrough, Idle
<1> QED
  BY <1>1, PictureInitially, PictureStep, PTL DEF VidSpec
-----------------------------------------------------------------------------
(* The order of the keys *)

(* The gate holds this message back behind others, unlike a mouse button's. *)
Kept(m) == m.type = "key" /\ m.key # "button"

Message == [type : {"key", "release_all", "text"}, key : Key, pressed : BOOLEAN, no : Nat]

InputTyped ==
    /\ typed \in Nat /\ injected \in Nat /\ inputOver \in BOOLEAN /\ local \in Nat /\ copies \in Nat
    /\ gate \in [isOpen : BOOLEAN, queue : Seq(Message)]
    /\ toHost \in Seq(Message) /\ router \in Seq(Message)

InOrder(q) ==
    \A i, j \in DOMAIN q : i < j /\ Kept(q[i]) /\ Kept(q[j]) => q[i].no <= q[j].no

Precedes(q, r) ==
    \A i \in DOMAIN q, j \in DOMAIN r : Kept(q[i]) /\ Kept(r[j]) => q[i].no <= r[j].no

Between(q, least, most) == \A i \in DOMAIN q : Kept(q[i]) => least <= q[i].no /\ q[i].no <= most

(* What is on its way is in the order of its numbers: in the gate, in the   *)
(* channel, in the router's queue, and from one to the next.                *)
KeysInv ==
    /\ InputTyped
    /\ ~gate.isOpen => gate.queue = <<>>
    /\ InOrder(router) /\ InOrder(toHost) /\ InOrder(gate.queue)
    /\ Precedes(router, toHost) /\ Precedes(router, gate.queue) /\ Precedes(toHost, gate.queue)
    /\ Between(router, injected, typed) /\ Between(toHost, injected, typed) /\ Between(gate.queue, injected, typed)
    /\ injected <= typed

LEMMA Joined ==
    ASSUME NEW q \in Seq(Message), NEW r \in Seq(Message)
    PROVE  /\ q \o r \in Seq(Message) /\ DOMAIN (q \o r) = 1 .. Len(q) + Len(r)
           /\ DOMAIN q = 1 .. Len(q) /\ DOMAIN r = 1 .. Len(r) /\ Len(q) \in Nat /\ Len(r) \in Nat
           /\ \A i \in DOMAIN q : (q \o r)[i] = q[i]
           /\ \A i \in 1 .. Len(q) + Len(r) : i \notin DOMAIN q => i - Len(q) \in DOMAIN r /\ (q \o r)[i] = r[i - Len(q)]
OBVIOUS

(* Every message of the joined sequence is one of either's.                 *)
LEMMA JoinedPrecedes ==
    ASSUME NEW q \in Seq(Message), NEW r \in Seq(Message), NEW p \in Seq(Message)
    PROVE  /\ Precedes(p, q) /\ Precedes(p, r) => Precedes(p, q \o r)
           /\ Precedes(q, p) /\ Precedes(r, p) => Precedes(q \o r, p)
           /\ \A n, k : Between(q, n, k) /\ Between(r, n, k) => Between(q \o r, n, k)
<1>1. \A i \in DOMAIN (q \o r) :
        \/ \E j \in DOMAIN q : (q \o r)[i] = q[j]
        \/ \E j \in DOMAIN r : (q \o r)[i] = r[j]
  BY Joined
<1> QED
  BY <1>1 DEF Precedes, Between

LEMMA JoinedInOrder ==
    ASSUME NEW q \in Seq(Message), NEW r \in Seq(Message), InOrder(q), InOrder(r), Precedes(q, r)
    PROVE  InOrder(q \o r)
<1> SUFFICES ASSUME NEW i \in DOMAIN (q \o r), NEW j \in DOMAIN (q \o r), i < j,
                    Kept((q \o r)[i]), Kept((q \o r)[j])
             PROVE  (q \o r)[i].no <= (q \o r)[j].no
  BY DEF InOrder
<1>1. CASE j \in DOMAIN q
  <2>1. i \in DOMAIN q
    BY <1>1, Joined
  <2> QED
    BY <1>1, <2>1, Joined DEF InOrder
<1>2. CASE j \notin DOMAIN q /\ i \in DOMAIN q
  BY <1>2, Joined DEF Precedes
<1>3. CASE j \notin DOMAIN q /\ i \notin DOMAIN q
  <2>1. i - Len(q) \in DOMAIN r /\ j - Len(q) \in DOMAIN r /\ i - Len(q) < j - Len(q)
        /\ (q \o r)[i] = r[i - Len(q)] /\ (q \o r)[j] = r[j - Len(q)]
    BY <1>3, Joined
  <2> QED
    BY <2>1 DEF InOrder
<1> QED
  BY <1>1, <1>2, <1>3

LEMMA SingleMessage ==
    ASSUME NEW m \in Message
    PROVE  /\ <<m>> \in Seq(Message) /\ DOMAIN <<m>> = {1} /\ <<m>>[1] = m /\ InOrder(<<m>>)
<1>1. <<m>> \in Seq(Message) /\ DOMAIN <<m>> = {1} /\ <<m>>[1] = m
  OBVIOUS
<1> QED
  BY <1>1 DEF InOrder

LEMMA NoMessages ==
    /\ << >> \in Seq(Message) /\ InOrder(<< >>)
    /\ \A n, k : Between(<< >>, n, k)
    /\ \A q \in Seq(Message) : Precedes(q, << >>) /\ Precedes(<< >>, q) /\ << >> \o q = q /\ q \o << >> = q
<1>1. << >> \in Seq(Message) /\ DOMAIN << >> = {}
  OBVIOUS
<1>2. \A q \in Seq(Message) : << >> \o q = q /\ q \o << >> = q
  OBVIOUS
<1> QED
  BY <1>1, <1>2 DEF InOrder, Between, Precedes

LEMMA WithoutFirst ==
    ASSUME NEW q \in Seq(Message), q # << >>
    PROVE  /\ Tail(q) \in Seq(Message) /\ Head(q) \in Message /\ Head(q) = q[1] /\ 1 \in DOMAIN q
           /\ \A i \in DOMAIN Tail(q) : i + 1 \in DOMAIN q /\ 1 < i + 1 /\ Tail(q)[i] = q[i + 1]
           /\ DOMAIN Tail(q) = 1 .. Len(q) - 1
OBVIOUS

LEMMA TailInOrder ==
    ASSUME NEW q \in Seq(Message), q # << >>
    PROVE  /\ InOrder(q) => InOrder(Tail(q))
           /\ \A n, k : Between(q, n, k) => Between(Tail(q), n, k)
           /\ \A p \in Seq(Message) : /\ Precedes(p, q) => Precedes(p, Tail(q))
                                      /\ Precedes(q, p) => Precedes(Tail(q), p)
<1>1. \A i \in DOMAIN Tail(q) : i + 1 \in DOMAIN q /\ Tail(q)[i] = q[i + 1] /\ i \in Nat
  BY WithoutFirst
<1>2. InOrder(q) => InOrder(Tail(q))
  BY <1>1 DEF InOrder
<1>3. \A n, k : Between(q, n, k) => Between(Tail(q), n, k)
  BY <1>1 DEF Between
<1> QED
  BY <1>1, <1>2, <1>3 DEF Precedes

LEMMA KeysTyped ==
    ASSUME KeysInv
    PROVE  /\ router \in Seq(Message) /\ toHost \in Seq(Message) /\ gate.queue \in Seq(Message)
           /\ gate.isOpen \in BOOLEAN /\ gate = [isOpen |-> gate.isOpen, queue |-> gate.queue]
           /\ typed \in Nat /\ injected \in Nat /\ local \in Nat
BY DEF KeysInv, InputTyped

LEMMA NumberedMessages ==
    ASSUME NEW q \in Seq(Message)
    PROVE  \A i \in DOMAIN q : q[i] \in Message /\ q[i].no \in Nat
<1>1. \A i \in DOMAIN q : q[i] \in Message
  OBVIOUS
<1> QED
  BY <1>1 DEF Message

(* Numbers only grow.                                                       *)
LEMMA BetweenGrows ==
    ASSUME NEW q \in Seq(Message), NEW n \in Nat, NEW k \in Nat, NEW l \in Nat, Between(q, n, k), k <= l
    PROVE  Between(q, n, l)
<1>1. \A i \in DOMAIN q : q[i].no \in Nat
  BY NumberedMessages
<1> QED
  BY <1>1 DEF Between

(* A message behind what is on its way: the newest, or one that is not kept. *)
LEMMA NewestIsLast ==
    ASSUME NEW q \in Seq(Message), NEW m \in Message, NEW n \in Nat, NEW k \in Nat, NEW l \in Nat,
           Between(q, n, k), n <= l, k <= l, Kept(m) => m.no = l
    PROVE  Precedes(q, <<m>>) /\ Between(<<m>>, n, l)
<1>1. \A i \in DOMAIN q : q[i].no \in Nat
  BY NumberedMessages
<1>2. DOMAIN <<m>> = {1} /\ <<m>>[1] = m /\ m.no \in Nat
  BY SingleMessage DEF Message
<1> QED
  BY <1>1, <1>2 DEF Precedes, Between

(* What the listeners send: the newest key event, or none of the kept.      *)
LEMMA SendingKeeps ==
    ASSUME KeysInv, NEW m \in Message, typed' \in Nat, typed <= typed', Kept(m) => m.no = typed',
           \/ SendsKey(m)
           \/ gate' = [isOpen |-> TRUE, queue |-> Append(gate.queue, m)] /\ toHost' = toHost,
           UNCHANGED <<local, copies, router, injected, inputOver>>
    PROVE  KeysInv'
<1>1. /\ router \in Seq(Message) /\ toHost \in Seq(Message) /\ gate.queue \in Seq(Message)
      /\ typed \in Nat /\ injected \in Nat /\ gate.isOpen \in BOOLEAN
  BY KeysTyped
<1>2. /\ Between(router, injected, typed') /\ Between(toHost, injected, typed')
      /\ Between(gate.queue, injected, typed') /\ injected <= typed'
  BY <1>1, BetweenGrows DEF KeysInv
<1>3. /\ Precedes(router, <<m>>) /\ Precedes(toHost, <<m>>) /\ Precedes(gate.queue, <<m>>)
      /\ Between(<<m>>, injected, typed')
  BY <1>1, <1>2, NewestIsLast DEF KeysInv
<1>4. <<m>> \in Seq(Message) /\ InOrder(<<m>>)
  BY SingleMessage
<1>5. CASE /\ toHost' = toHost /\ gate'.isOpen \in BOOLEAN
           /\ gate' = [isOpen |-> gate'.isOpen, queue |-> gate'.queue]
           /\ gate'.queue = gate.queue \o <<m>> /\ gate'.isOpen
  <2> DEFINE q == gate.queue \o <<m>>
  <2>1. /\ q \in Seq(Message) /\ InOrder(q) /\ Precedes(router, q) /\ Precedes(toHost, q)
        /\ Between(q, injected, typed')
    BY <1>1, <1>2, <1>3, <1>4, Joined, JoinedInOrder, JoinedPrecedes DEF KeysInv
  <2>2. gate'.queue = q
    BY <1>5
  <2> HIDE DEF q
  <2>3. gate' \in [isOpen : BOOLEAN, queue : Seq(Message)]
    BY <1>5, <2>1, <2>2
  <2>4. InputTyped'
    BY <1>5, <2>3 DEF KeysInv, InputTyped
  <2> QED
    BY <1>2, <1>5, <2>1, <2>2, <2>4 DEF KeysInv
<1>6. CASE toHost' = toHost /\ gate' = gate
  BY <1>2, <1>6 DEF KeysInv, InputTyped
<1>7. CASE toHost' = toHost \o <<m>> /\ gate' = gate /\ ~(gate.isOpen /\ m.key # "button")
  <2> DEFINE q == toHost \o <<m>>
  <2>1. Precedes(<<m>>, gate.queue)
    <3>1. CASE gate.isOpen
      BY <1>7, <3>1, SingleMessage DEF Precedes, Kept
    <3>2. CASE ~gate.isOpen
      BY <1>4, <3>2, NoMessages DEF KeysInv
    <3> QED
      BY <3>1, <3>2
  <2>2. /\ q \in Seq(Message) /\ InOrder(q) /\ Precedes(router, q) /\ Precedes(q, gate.queue)
        /\ Between(q, injected, typed')
    BY <1>1, <1>2, <1>3, <1>4, <2>1, Joined, JoinedInOrder, JoinedPrecedes DEF KeysInv
  <2>3. toHost' = q
    BY <1>7
  <2> HIDE DEF q
  <2> QED
    BY <1>2, <1>7, <2>2, <2>3 DEF KeysInv, InputTyped
<1>8. Append(gate.queue, m) = gate.queue \o <<m>>
  BY <1>1
<1>9. gate = [isOpen |-> gate.isOpen, queue |-> gate.queue]
  BY KeysTyped
<1>10. CASE gate' = [isOpen |-> TRUE, queue |-> Append(gate.queue, m)] /\ toHost' = toHost
  BY <1>5, <1>8, <1>10
<1>11. CASE SendsKey(m)
  <2>1. CASE gate.isOpen /\ m.key # "button"
    <3>1. gate' = [isOpen |-> TRUE, queue |-> Append(gate.queue, m)] /\ toHost' = toHost
      BY <1>9, <1>11, <2>1 DEF SendsKey
    <3> QED
      BY <1>10, <3>1
  <2>2. CASE ~(gate.isOpen /\ m.key # "button")
    BY <1>6, <1>7, <1>11, <2>2 DEF SendsKey, Sent
  <2> QED
    BY <2>1, <2>2
<1> QED
  BY <1>10, <1>11

LEMMA MessagesTyped ==
    ASSUME NEW k \in Key, NEW pressed \in BOOLEAN, NEW no \in Nat
    PROVE  /\ KeyMsg(k, pressed, no) \in Message /\ KeyMsg(k, pressed, no).no = no
           /\ ReleaseAll \in Message /\ ~Kept(ReleaseAll)
           /\ ClipboardText(no) \in Message /\ ~Kept(ClipboardText(no))
BY DEF KeyMsg, ReleaseAll, ClipboardText, Message, Key, Kept

LEMMA TypingKeeps ==
    ASSUME KeysInv, Blur \/ \E k \in Key : KeyDown(k) \/ KeyUp(k)
    PROVE  KeysInv'
<1>1. typed' = typed + 1 /\ typed' \in Nat /\ typed <= typed'
  <2>1. typed' = typed + 1
    BY DEF Blur, KeyDown, KeyUp
  <2>2. typed \in Nat
    BY KeysTyped
  <2> QED
    BY <2>1, <2>2
<1>2. UNCHANGED <<local, copies, router, injected, inputOver>>
  BY DEF Blur, KeyDown, KeyUp, Ghosts, osVars
<1>3. ASSUME NEW m \in Message, Kept(m) => m.no = typed',
             \/ SendsKey(m)
             \/ gate' = [isOpen |-> TRUE, queue |-> Append(gate.queue, m)] /\ toHost' = toHost
      PROVE  KeysInv'
  BY <1>1, <1>2, <1>3, SendingKeeps
<1>4. CASE Blur
  <2>1. SendsKey(ReleaseAll)
    BY <1>4 DEF Blur
  <2>2. ReleaseAll \in Message /\ ~Kept(ReleaseAll)
    BY DEF ReleaseAll, Message, Key, Kept
  <2> QED
    BY <1>3, <2>1, <2>2
<1>5. ASSUME NEW k \in Key, NEW pressed \in BOOLEAN,
             \/ SendsKey(KeyMsg(k, pressed, typed'))
             \/ /\ gate' = [isOpen |-> TRUE, queue |-> Append(gate.queue, KeyMsg(k, pressed, typed'))]
                /\ toHost' = toHost
      PROVE  KeysInv'
  <2> DEFINE m == KeyMsg(k, pressed, typed')
  <2>1. m \in Message /\ m.no = typed'
    BY <1>1 DEF KeyMsg, Message
  <2>2. \/ SendsKey(m)
        \/ gate' = [isOpen |-> TRUE, queue |-> Append(gate.queue, m)] /\ toHost' = toHost
    BY <1>5
  <2> HIDE DEF m
  <2> QED
    BY <1>3, <2>1, <2>2
<1>6. ASSUME NEW k \in Key, KeyUp(k)
      PROVE  KeysInv'
  BY <1>5, <1>6 DEF KeyUp
<1>7. ASSUME NEW k \in Key, KeyDown(k)
      PROVE  KeysInv'
  BY <1>5, <1>7 DEF KeyDown
<1> QED
  BY <1>4, <1>6, <1>7

LEMMA PastingKeeps ==
    ASSUME KeysInv, NEW s \in syncs, ReadEnds(s) \/ PasteTimesOut(s)
    PROVE  KeysInv'
<1>1. \E text \in {<< >>, <<ClipboardText(local)>>} : \E reads : SyncGoesOn(s, reads, text)
  BY DEF ReadEnds, PasteTimesOut
<1> PICK text \in {<< >>, <<ClipboardText(local)>>} : \E reads : SyncGoesOn(s, reads, text)
  BY <1>1
<1>2. /\ router \in Seq(Message) /\ toHost \in Seq(Message) /\ gate.queue \in Seq(Message)
      /\ typed \in Nat /\ injected \in Nat /\ local \in Nat
  BY KeysTyped
<1>3. /\ text \in Seq(Message) /\ InOrder(text) /\ Between(text, injected, typed)
      /\ \A q \in Seq(Message) : Precedes(q, text) /\ Precedes(text, q)
  <2>1. CASE text = << >>
    BY <2>1, NoMessages
  <2>2. CASE text = <<ClipboardText(local)>>
    <3>1. ClipboardText(local) \in Message /\ ~Kept(ClipboardText(local))
      BY <1>2 DEF ClipboardText, Message, Key, Kept
    <3> QED
      BY <2>2, <3>1, SingleMessage DEF Between, Precedes
  <2> QED
    BY <2>1, <2>2
<1>4. /\ UNCHANGED <<typed, local, inputOver, router, injected, copies>>
      /\ \/ UNCHANGED toHost /\ (gate' = gate \/ gate' = Closed)
         \/ toHost' = toHost \o text /\ gate' = gate
         \/ toHost' = toHost \o (text \o gate.queue) /\ gate' = Closed
  BY DEF SyncGoesOn, Sent, osVars, Ghosts
<1>5. Closed \in [isOpen : BOOLEAN, queue : Seq(Message)] /\ Closed.queue = << >>
  BY NoMessages DEF Closed
<1>6. ASSUME NEW q \in Seq(Message), toHost' = q, gate' = gate \/ gate' = Closed,
             InOrder(q), Precedes(router, q), Between(q, injected, typed),
             gate' = gate => Precedes(q, gate.queue)
      PROVE  KeysInv'
  <2>1. /\ gate' \in [isOpen : BOOLEAN, queue : Seq(Message)] /\ (~gate'.isOpen => gate'.queue = << >>)
        /\ InOrder(gate'.queue) /\ Precedes(router, gate'.queue) /\ Precedes(q, gate'.queue)
        /\ Between(gate'.queue, injected, typed)
    BY <1>2, <1>5, <1>6, NoMessages DEF KeysInv, InputTyped
  <2>2. InputTyped'
    BY <1>4, <1>6, <2>1 DEF KeysInv, InputTyped
  <2> QED
    BY <1>4, <1>6, <2>1, <2>2 DEF KeysInv
<1>7. CASE UNCHANGED toHost /\ (gate' = gate \/ gate' = Closed)
  BY <1>2, <1>6, <1>7 DEF KeysInv
<1>8. CASE toHost' = toHost \o text /\ gate' = gate
  <2> DEFINE q == toHost \o text
  <2>1. /\ q \in Seq(Message) /\ InOrder(q) /\ Precedes(router, q) /\ Precedes(q, gate.queue)
        /\ Between(q, injected, typed)
    BY <1>2, <1>3, Joined, JoinedInOrder, JoinedPrecedes DEF KeysInv
  <2>2. toHost' = q
    BY <1>8
  <2> HIDE DEF q
  <2> QED
    BY <1>6, <1>8, <2>1, <2>2
<1>9. CASE toHost' = toHost \o (text \o gate.queue) /\ gate' = Closed
  <2> DEFINE r == text \o gate.queue
             q == toHost \o r
  <2>1. /\ r \in Seq(Message) /\ InOrder(r) /\ Precedes(router, r) /\ Precedes(toHost, r)
        /\ Between(r, injected, typed)
    BY <1>2, <1>3, Joined, JoinedInOrder, JoinedPrecedes DEF KeysInv
  <2> HIDE DEF r
  <2>2. /\ q \in Seq(Message) /\ InOrder(q) /\ Precedes(router, q)
        /\ Between(q, injected, typed)
    BY <1>2, <2>1, Joined, JoinedInOrder, JoinedPrecedes DEF KeysInv
  <2>3. toHost' = q
    BY <1>9 DEF r
  <2>4. gate' = gate => gate.queue = << >>
    BY <1>5, <1>9
  <2> HIDE DEF q
  <2>5. gate' = gate => Precedes(q, gate.queue)
    BY <2>2, <2>4, NoMessages
  <2> QED
    BY <1>6, <1>9, <2>2, <2>3, <2>5
<1> QED
  BY <1>4, <1>7, <1>8, <1>9

LEMMA HearingKeeps ==
    ASSUME KeysInv, HostHears
    PROVE  KeysInv'
<1> DEFINE m == Head(toHost)
           rest == Tail(toHost)
           q == router \o <<m>>
<1>1. /\ router \in Seq(Message) /\ toHost \in Seq(Message) /\ gate.queue \in Seq(Message)
      /\ typed \in Nat /\ injected \in Nat /\ toHost # << >>
  BY KeysTyped DEF HostHears
<1>2. /\ toHost' = rest /\ (router' = router \/ router' = Append(router, m))
      /\ UNCHANGED <<typed, local, gate, inputOver, injected, copies>>
  BY DEF HostHears, webVars, osVars
<1>3. Append(router, m) = q /\ m \in Message
  BY <1>1, WithoutFirst
<1>4. /\ rest \in Seq(Message) /\ InOrder(rest) /\ Precedes(router, rest) /\ Precedes(rest, gate.queue)
      /\ Between(rest, injected, typed)
  BY <1>1, WithoutFirst, TailInOrder DEF KeysInv
<1>5. /\ <<m>> \in Seq(Message) /\ InOrder(<<m>>) /\ Precedes(router, <<m>>) /\ Precedes(<<m>>, gate.queue)
      /\ Between(<<m>>, injected, typed)
  <2>1. m = toHost[1] /\ 1 \in DOMAIN toHost
    BY <1>1, WithoutFirst
  <2>2. <<m>> \in Seq(Message) /\ DOMAIN <<m>> = {1} /\ <<m>>[1] = m /\ InOrder(<<m>>)
    BY <1>3, SingleMessage
  <2> HIDE DEF m
  <2> QED
    BY <2>1, <2>2 DEF KeysInv, Precedes, Between
<1>6. Precedes(<<m>>, rest)
  <2>1. m = toHost[1] /\ 1 \in DOMAIN toHost
        /\ \A i \in DOMAIN rest : i + 1 \in DOMAIN toHost /\ 1 < i + 1 /\ rest[i] = toHost[i + 1]
    BY <1>1, WithoutFirst
  <2>2. DOMAIN <<m>> = {1} /\ <<m>>[1] = m
    BY <1>3, SingleMessage
  <2> HIDE DEF m, rest
  <2> QED
    BY <2>1, <2>2 DEF KeysInv, InOrder, Precedes
<1> HIDE DEF m, rest
<1>7. /\ q \in Seq(Message) /\ InOrder(q) /\ Precedes(q, rest) /\ Precedes(q, gate.queue)
      /\ Between(q, injected, typed)
  BY <1>1, <1>4, <1>5, <1>6, Joined, JoinedInOrder, JoinedPrecedes DEF KeysInv
<1> HIDE DEF q
<1>8. router' \in Seq(Message) /\ InOrder(router') /\ Precedes(router', rest) /\ Precedes(router', gate.queue)
      /\ Between(router', injected, typed)
  BY <1>1, <1>2, <1>3, <1>4, <1>7 DEF KeysInv
<1>9. InputTyped'
  BY <1>2, <1>4, <1>8 DEF KeysInv, InputTyped
<1> QED
  BY <1>2, <1>4, <1>8, <1>9 DEF KeysInv

(* The oldest message is injected, and all that is on its way is newer.     *)
LEMMA InjectingKeeps ==
    ASSUME KeysInv, RouterApplies
    PROVE  KeysInv' /\ injected' >= injected
<1> DEFINE m == Head(router)
           rest == Tail(router)
<1>1. /\ router \in Seq(Message) /\ toHost \in Seq(Message) /\ gate.queue \in Seq(Message)
      /\ typed \in Nat /\ injected \in Nat /\ router # << >>
  BY KeysTyped DEF RouterApplies
<1>2. /\ router' = rest /\ injected' = (IF Kept(m) THEN m.no ELSE injected)
      /\ UNCHANGED <<typed, local, gate, toHost, inputOver, copies>>
  BY DEF RouterApplies, Kept, webVars, Ghosts
<1>3. /\ rest \in Seq(Message) /\ InOrder(rest) /\ Precedes(rest, toHost) /\ Precedes(rest, gate.queue)
      /\ Between(rest, injected, typed)
  BY <1>1, WithoutFirst, TailInOrder DEF KeysInv
<1>4. /\ m \in Message /\ m = router[1] /\ 1 \in DOMAIN router
      /\ \A i \in DOMAIN rest : i + 1 \in DOMAIN router /\ 1 < i + 1 /\ rest[i] = router[i + 1]
  BY <1>1, WithoutFirst
<1>5. m.no \in Nat
  BY <1>4 DEF Message
<1> HIDE DEF m, rest
<1>6. Kept(m) => injected <= m.no /\ m.no <= typed
  BY <1>4 DEF KeysInv, Between
<1>7. injected' \in Nat /\ injected <= injected' /\ injected' <= typed
  BY <1>1, <1>2, <1>5, <1>6 DEF KeysInv
<1>8. Between(rest, injected', typed) /\ Between(toHost, injected', typed) /\ Between(gate.queue, injected', typed)
  <2>1. CASE ~Kept(m)
    BY <1>2, <1>3, <2>1 DEF KeysInv
  <2>2. CASE Kept(m)
    <3>1. \A i \in DOMAIN rest : Kept(rest[i]) => m.no <= rest[i].no /\ rest[i].no <= typed
      BY <1>3, <1>4, <2>2 DEF KeysInv, InOrder, Between
    <3>2. \A i \in DOMAIN toHost : Kept(toHost[i]) => m.no <= toHost[i].no /\ toHost[i].no <= typed
      BY <1>4, <2>2 DEF KeysInv, Precedes, Between
    <3>3. \A i \in DOMAIN gate.queue : Kept(gate.queue[i]) => m.no <= gate.queue[i].no /\ gate.queue[i].no <= typed
      BY <1>4, <2>2 DEF KeysInv, Precedes, Between
    <3> QED
      BY <1>2, <2>2, <3>1, <3>2, <3>3 DEF Between
  <2> QED
    BY <2>1, <2>2
<1>9. InputTyped'
  BY <1>2, <1>3, <1>7 DEF KeysInv, InputTyped
<1>10. KeysInv'
  BY <1>2, <1>3, <1>7, <1>8, <1>9 DEF KeysInv
<1> QED
  BY <1>1, <1>7, <1>10

(* The other steps move no message.                                         *)
LEMMA ResidualKeeps ==
    ASSUME KeysInv,
           \/ LocalCopies \/ InputEnds \/ ApplyWrites \/ ApplySettles \/ WatcherPolls \/ HostCopies \/ RouterEnds
           \/ UNCHANGED inputVars
    PROVE  KeysInv' /\ injected' = injected
<1>1. UNCHANGED <<gate, typed, router, injected>>
  BY DEF LocalCopies, InputEnds, ApplyWrites, ApplySettles, WatcherPolls, HostCopies, RouterEnds, inputVars,
         webVars, osVars
<1>2. local' \in Nat /\ copies' \in Nat /\ inputOver' \in BOOLEAN
  <2>1. copies' = copies \/ copies' = copies + 1
    BY DEF LocalCopies, InputEnds, ApplyWrites, ApplySettles, WatcherPolls, HostCopies, RouterEnds, inputVars, Ghosts
  <2>2. local' = local \/ local' = copies'
    BY DEF LocalCopies, InputEnds, ApplyWrites, ApplySettles, WatcherPolls, HostCopies, RouterEnds, inputVars, webVars
  <2>3. inputOver' = inputOver \/ inputOver' = TRUE
    BY DEF LocalCopies, InputEnds, ApplyWrites, ApplySettles, WatcherPolls, HostCopies, RouterEnds, inputVars
  <2>4. copies \in Nat /\ local \in Nat
    BY DEF KeysInv, InputTyped
  <2>5. copies' \in Nat /\ local' \in Nat
    BY <2>1, <2>2, <2>4
  <2>6. inputOver' \in BOOLEAN
    BY <2>3 DEF KeysInv, InputTyped
  <2> QED
    BY <2>5, <2>6
<1>3. toHost' = toHost \/ toHost' = << >>
  BY DEF LocalCopies, InputEnds, ApplyWrites, ApplySettles, WatcherPolls, HostCopies, RouterEnds, inputVars
<1>4. /\ toHost' \in Seq(Message) /\ InOrder(toHost') /\ Precedes(router, toHost')
      /\ Precedes(toHost', gate.queue) /\ Between(toHost', injected, typed)
  BY <1>3, KeysTyped, NoMessages DEF KeysInv
<1>5. InputTyped'
  BY <1>1, <1>2, <1>4 DEF KeysInv, InputTyped
<1> QED
  BY <1>1, <1>4, <1>5 DEF KeysInv

LEMMA KeysInitially == InputInit => KeysInv
<1> SUFFICES ASSUME InputInit
             PROVE  KeysInv
  OBVIOUS
<1>1. gate \in [isOpen : BOOLEAN, queue : Seq(Message)] /\ gate.queue = << >>
  BY NoMessages DEF InputInit, Closed
<1>2. InputTyped
  BY <1>1, NoMessages DEF InputInit, InputTyped
<1>3. router = << >> /\ toHost = << >> /\ injected = 0 /\ typed = 0
  BY DEF InputInit
<1>4. /\ InOrder(<< >>) /\ Precedes(<< >>, << >>) /\ Between(<< >>, 0, 0)
  BY NoMessages
<1> QED
  BY <1>1, <1>2, <1>3, <1>4 DEF KeysInv

LEMMA KeysStep == KeysInv /\ [InputNext]_inputVars => KeysInv' /\ injected' >= injected
<1> SUFFICES ASSUME KeysInv, [InputNext]_inputVars
             PROVE  KeysInv' /\ injected' >= injected
  OBVIOUS
<1>1. CASE injected' = injected
  <2>1. injected \in Nat
    BY KeysTyped
  <2>2. injected' >= injected
    BY <1>1, <2>1
  <2> QED
    BY <2>2, TypingKeeps, PastingKeeps, HearingKeeps, InjectingKeeps, ResidualKeeps DEF InputNext
<1>2. CASE injected' # injected
  <2>1. RouterApplies
    BY <1>2 DEF InputNext, KeyDown, KeyUp, Blur, LocalCopies, ReadEnds, PasteTimesOut, SyncGoesOn, HostHears, InputEnds,
       ApplyWrites, ApplySettles, WatcherPolls, HostCopies, RouterEnds, inputVars, osVars
  <2> QED
    BY <2>1, InjectingKeeps
<1> QED
  BY <1>1, <1>2

(* The gate, the channel and the router's queue hand on what they hold in   *)
(* the order of typing, for queues of any length, any number of pastes that *)
(* overlap, time out or are answered late, and whatever the rate limit and  *)
(* a full queue drop.                                                       *)
THEOREM KeysAreInOrder == InputSpec => KeysStayInOrder
<1>1. KeysInv /\ [InputNext]_inputVars => [injected' >= injected]_inputVars
  BY KeysStep
<1>2. KeysInv /\ [InputNext]_inputVars => KeysInv'
  BY KeysStep
<1> QED
  BY <1>1, <1>2, KeysInitially, PTL DEF InputSpec, KeysStayInOrder
=============================================================================
