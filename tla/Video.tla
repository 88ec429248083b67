------------------------------- MODULE Video -------------------------------
(***************************************************************************)
(* The picture of one session on the agent: the video pipelines and their  *)
(* replacement (signaling/mod.rs), their two threads (pipeline/mod.rs) and *)
(* the transport's video task (transport/mod.rs).                          *)
(*                                                                         *)
(* A pipeline captures one display and encodes it; a task of its own       *)
(* forwards its frames.  The session's loop replaces it on the client's    *)
(* request, after a failure, or when the display's geometry changed; it    *)
(* waits for the new one to be built, and everything else runs meanwhile.  *)
(* A frame is a keyframe or a delta, which shows something only after the  *)
(* frame its encoder put out before it.  A geometry is a number, so are    *)
(* the windows that the curtain puts up at a time.                         *)
(*                                                                         *)
(* Left out: rates and pacing, the quality preset, the startup keyframe    *)
(* timer (one more cause of a request), an undetected hang of the capture  *)
(* source, which looks like a screen on which nothing moves.               *)
(***************************************************************************)
EXTENDS Naturals, FiniteSets

CONSTANTS Display,
          MaxPipes,       \* pipelines that a session builds
          MaxRecoveries,  \* PIPELINE_RECOVERY_MAX
          MaxTrouble      \* bound: requests, failures and changes in all

ASSUME VideoAssumption ==
    /\ Display # {}   \* no session without a display
    /\ MaxPipes \in Nat \ {0} /\ MaxRecoveries \in Nat /\ MaxTrouble \in Nat

VARIABLES
    inPicture,   \* the session has not ended
    pipe,        \* the pipelines built so far
    current,     \* ActiveSession.video
    generation,  \* pipeline_generation
    keyframe,    \* keyframe_flag
    building,    \* what replace_pipeline waits for, or NoBuild
    recoveries,  \* attempts in the budget's window
    failures, changes,     \* VideoFailed and DisplayGeometryChanged in the channel
    connected, negotiated, \* the peer connection, the video task
    picture,     \* what the browser decodes: [from, good]
    geometry,    \* of the displays there are; 0: unplugged
    polled, pollId,         \* the display poll's base, display_poll_id
    curtain,     \* the windows that are up, 0: none
    excluded,    \* curtain_windows
    trouble

screenVars == <<geometry, polled, pollId, changes>>
frameVars  == <<pipe, keyframe, picture, negotiated>>
loopVars   == <<inPicture, current, generation, building, recoveries, curtain, excluded>>
vidVars    == <<screenVars, frameVars, loopVars, failures, connected, trouble>>

Pipe == 1..MaxPipes
NoPipe == [of |-> 0, display |-> 0, geometry |-> 0, excludes |-> 0, asked |-> FALSE,
           encoder |-> "none", watched |-> FALSE, first |-> TRUE,
           forward |-> "none", lost |-> FALSE]
NoBuild == [why |-> "none", display |-> 0, geometry |-> 0]

Idle == inPicture /\ building = NoBuild
Listed == {d \in Display : geometry[d] # 0}
Shown == pipe[current].display

(* VideoPipeline::start once everything is built.                          *)
Started(d, g, gen, windows) ==
    [NoPipe EXCEPT !.of = gen, !.display = d, !.geometry = g, !.excludes = windows,
                   !.encoder = "runs", !.watched = TRUE, !.forward = "reads"]

VidInit ==
    /\ inPicture = TRUE /\ current = 1 /\ generation = 0 /\ keyframe = FALSE
    /\ geometry = [d \in Display |-> 1]
    /\ curtain \in {0, 1} /\ excluded = curtain
    /\ LET d == CHOOSE d \in Display : TRUE IN
         /\ pipe = [p \in Pipe |-> IF p = 1 THEN Started(d, 1, 0, curtain) ELSE NoPipe]
         /\ polled = [id |-> d, geometry |-> 1] /\ pollId = d
    /\ building = NoBuild /\ recoveries = 0 /\ failures = 0 /\ changes = 0
    /\ connected = FALSE /\ negotiated = FALSE
    /\ picture = [from |-> 0, good |-> FALSE]
    /\ trouble = 0

Troubles == trouble < MaxTrouble /\ trouble' = trouble + 1
-----------------------------------------------------------------------------
(* Frames *)

(* The encode thread takes the newest screen, or the last one again when    *)
(* a keyframe is wanted or nothing has moved for a while, unless nobody    *)
(* can take the frame.  The forward task drops it if it is superseded.     *)
Superseded(p) == generation > pipe[p].of

Encodes(p) ==
    /\ pipe[p].encoder = "runs" /\ pipe[p].forward = "reads"
    /\ LET frame == IF keyframe \/ pipe[p].first THEN "key" ELSE "delta"
       IN pipe' = [pipe EXCEPT ![p].forward = IF Superseded(p) THEN "reads" ELSE frame,
                               ![p].lost = @ \/ Superseded(p),
                               ![p].first = FALSE]
    /\ keyframe' = FALSE
    /\ UNCHANGED <<screenVars, loopVars, failures, connected, negotiated, picture, trouble>>

(* An encoder may drop a frame, and the request with it; one whose frames   *)
(* nobody takes any more always does.                                      *)
EncodesNothing(p) ==
    /\ pipe[p].encoder = "runs" /\ keyframe
    /\ \/ pipe[p].forward = "reads" /\ Troubles
       \/ pipe[p].forward = "none" /\ UNCHANGED trouble
    /\ keyframe' = FALSE
    /\ UNCHANGED <<screenVars, loopVars, failures, connected, pipe, negotiated, picture>>

(* The frame reaches the video task, which sends it once it has negotiated  *)
(* and until then only asks for a keyframe.                                *)
Decodes(p) ==
    LET frame == pipe[p].forward
        follows == picture = [from |-> p, good |-> TRUE] /\ ~pipe[p].lost
    IN  [from |-> p, good |-> frame = "key" \/ follows]

Transmits(p) ==
    /\ pipe[p].forward \in {"key", "delta"}
    /\ negotiated' = connected
    /\ keyframe' = (keyframe \/ ~negotiated)
    /\ picture' = IF connected THEN Decodes(p) ELSE picture
    /\ pipe' = [pipe EXCEPT ![p].forward = "reads",
                            ![p].lost = ~connected \/ (@ /\ pipe[p].forward # "key")]
    /\ UNCHANGED <<screenVars, loopVars, failures, connected, trouble>>

(* The task ends when it is told to stop, or when the encoder has gone;    *)
(* it then has the threads joined.  Until that is done they go on, and     *)
(* take requests from the session's flag for frames that nobody gets.      *)
Ended(x) == [x EXCEPT !.forward = "none", !.lost = FALSE, !.first = FALSE]

ForwardStops(p) ==
    /\ pipe[p].forward = "reads" /\ pipe[p].asked
    /\ pipe' = [pipe EXCEPT ![p] = [Ended(NoPipe) EXCEPT !.encoder = pipe[p].encoder]]
    /\ UNCHANGED <<screenVars, loopVars, failures, connected, keyframe, negotiated, picture, trouble>>

ForwardFails(p) ==
    /\ pipe[p].forward = "reads" /\ pipe[p].encoder = "none"
    /\ pipe' = [pipe EXCEPT ![p] = Ended(@)]
    /\ failures' = failures + 1
    /\ UNCHANGED <<screenVars, loopVars, connected, keyframe, negotiated, picture, trouble>>

ThreadsJoin(p) ==
    /\ pipe[p].forward = "none" /\ pipe[p].encoder = "runs"
    /\ pipe' = [pipe EXCEPT ![p].encoder = "none"]
    /\ UNCHANGED <<screenVars, loopVars, failures, connected, keyframe, negotiated, picture, trouble>>

(* The capture or the encoder fails, or the encoder hangs: the watchdog     *)
(* says so once.                                                           *)
PipelineFails(p) ==
    /\ pipe[p].encoder = "runs" /\ Troubles
    /\ \E how \in {"none", "hangs"} : pipe' = [pipe EXCEPT ![p].encoder = how]
    /\ UNCHANGED <<screenVars, loopVars, failures, connected, keyframe, negotiated, picture>>

Watchdog(p) ==
    /\ pipe[p].encoder = "hangs" /\ pipe[p].watched
    /\ pipe' = [pipe EXCEPT ![p].watched = FALSE]
    /\ failures' = failures + 1
    /\ UNCHANGED <<screenVars, loopVars, connected, keyframe, negotiated, picture, trouble>>

PeerConnects ==
    /\ inPicture /\ ~connected /\ connected' = TRUE
    /\ UNCHANGED <<screenVars, frameVars, loopVars, failures, trouble>>

(* The network loses packets; a browser that cannot decode asks for a       *)
(* keyframe, again and again.                                              *)
NetworkLoses ==
    /\ picture.good /\ Troubles
    /\ picture' = [picture EXCEPT !.good = FALSE]
    /\ UNCHANGED <<screenVars, loopVars, failures, connected, pipe, keyframe, negotiated>>

AsksKeyframe ==
    /\ inPicture /\ negotiated /\ ~picture.good /\ ~keyframe
    /\ keyframe' = TRUE
    /\ UNCHANGED <<screenVars, loopVars, failures, connected, pipe, negotiated, picture, trouble>>
-----------------------------------------------------------------------------
(* The session's loop *)

(* The session ends with all it has, its curtain too unless the screen      *)
(* cannot be locked first.                                                 *)
EndSession ==
    /\ inPicture' = FALSE /\ building' = NoBuild
    /\ pipe' = [p \in Pipe |-> NoPipe]
    /\ curtain' \in {0, curtain} /\ excluded' = 0

(* replace_pipeline up to the wait for the new pipeline.                   *)
Replaces(why, d, g) ==
    /\ \E p \in Pipe : pipe[p] = NoPipe
    /\ generation' = generation + 1
    /\ building' = [why |-> why, display |-> d, geometry |-> g]
    /\ UNCHANGED <<inPicture, pipe>>

Swapped(new) ==
    [pipe EXCEPT ![current] = [@ EXCEPT !.asked = TRUE, !.watched = FALSE],
                 ![new] = Started(building.display, building.geometry, generation, excluded)]

Built ==
    /\ building # NoBuild
    /\ current' = current + 1
    /\ pipe' = Swapped(current + 1)
    /\ pollId' = building.display
    /\ building' = NoBuild
    /\ UNCHANGED <<geometry, polled, changes, inPicture, generation, recoveries, curtain,
                   excluded, keyframe, picture, negotiated, failures, connected, trouble>>

(* A mutant: the old pipeline stays superseded.                            *)
RestoresOld_Muted == generation' = generation /\ keyframe' = TRUE

(* The old pipeline may speak again and is asked for a keyframe, as it may  *)
(* have skipped frames meanwhile.                                          *)
RestoresOld == generation' = generation - 1 /\ keyframe' = TRUE

(* A mutant: the curtain is forgotten but stays on the screen.             *)
CurtainBack_StaysUp == UNCHANGED curtain /\ excluded' = 0

CurtainBack == curtain' = 0 /\ excluded' = 0

BuildFails ==
    /\ building # NoBuild /\ Troubles
    /\ RestoresOld
    /\ \/ building.why = "recover" /\ EndSession
       \/ /\ building.why # "recover" /\ building' = NoBuild
          /\ IF building.why = "curtain" THEN CurtainBack ELSE UNCHANGED <<curtain, excluded>>
          /\ UNCHANGED <<inPicture, pipe>>
    /\ UNCHANGED <<screenVars, current, recoveries, picture, negotiated, failures, connected>>

(* VideoFailed: a pipeline on the same display, or on the first there is.  *)
Fresh == IF Shown \in Listed THEN {Shown} ELSE Listed

HandlesFailure ==
    /\ Idle /\ failures > 0 /\ failures' = failures - 1
    /\ \/ /\ recoveries < MaxRecoveries /\ recoveries' = recoveries + 1
          /\ \/ \E d \in Fresh : Replaces("recover", d, geometry[d]) /\ UNCHANGED <<curtain, excluded>>
             \/ Listed = {} /\ EndSession /\ UNCHANGED generation
       \/ recoveries = MaxRecoveries /\ EndSession /\ UNCHANGED <<recoveries, generation>>
    /\ UNCHANGED <<screenVars, current, keyframe, picture, negotiated, connected, trouble>>

HandlesChange ==
    /\ Idle /\ changes > 0 /\ changes' = changes - 1
    /\ IF geometry[Shown] \in {0, pipe[current].geometry}
       THEN UNCHANGED <<inPicture, generation, building, pipe>>
       ELSE Replaces("geometry", Shown, geometry[Shown])
    /\ UNCHANGED <<geometry, polled, pollId, current, recoveries, curtain, excluded,
                   keyframe, picture, negotiated, failures, connected, trouble>>

(* SelectDisplay, when it is not answered at once with the old display.    *)
SwitchDisplay(d) ==
    /\ Idle /\ Troubles
    /\ d \in Listed \ {Shown}
    /\ Replaces("switch", d, geometry[d])
    /\ UNCHANGED <<screenVars, current, recoveries, curtain, excluded, keyframe, picture, negotiated,
                   failures, connected>>

SetCurtain(on) ==
    /\ Idle /\ Troubles
    /\ IF on
       THEN /\ excluded = 0
            /\ curtain' = trouble' + 1 /\ excluded' = curtain'
            /\ Replaces("curtain", Shown, pipe[current].geometry)
       ELSE /\ CurtainBack
            /\ UNCHANGED <<inPicture, generation, building, pipe>>
    /\ UNCHANGED <<screenVars, current, recoveries, keyframe, picture, negotiated, failures, connected>>

(* Attempts leave the window of the budget.                                *)
WindowPasses ==
    /\ recoveries = MaxRecoveries /\ recoveries' = 0
    /\ UNCHANGED <<screenVars, frameVars, inPicture, current, generation, building, curtain,
                   excluded, failures, connected, trouble>>
-----------------------------------------------------------------------------
(* Displays *)

(* A display is moved, resized, unplugged or plugged in.                   *)
DisplayChanges(d) ==
    /\ inPicture /\ Troubles
    /\ \E g \in {0, trouble' + 1} : g # geometry[d] /\ geometry' = [geometry EXCEPT ![d] = g]
    /\ UNCHANGED <<polled, pollId, changes, frameVars, loopVars, failures, connected>>

(* spawn_display_poll compares the list it fetched with what it knew; a     *)
(* list of a moment ago only makes the next one tell.                      *)
Rebased == IF pollId \in Listed THEN [id |-> pollId, geometry |-> geometry[pollId]] ELSE polled

DisplayPoll ==
    /\ inPicture /\ polled' = Rebased
    /\ changes' = changes + (IF polled.id = pollId /\ polled' # polled THEN 1 ELSE 0)
    /\ UNCHANGED <<geometry, pollId, frameVars, loopVars, failures, connected, trouble>>
-----------------------------------------------------------------------------
Frames(p) ==
    \/ Encodes(p) \/ EncodesNothing(p) \/ Transmits(p)
    \/ ForwardStops(p) \/ ForwardFails(p) \/ ThreadsJoin(p)
    \/ PipelineFails(p) \/ Watchdog(p)

VidNext ==
    \/ \E p \in Pipe : Frames(p)
    \/ PeerConnects \/ NetworkLoses \/ AsksKeyframe
    \/ Built \/ BuildFails \/ HandlesFailure \/ HandlesChange
    \/ \E d \in Display : SwitchDisplay(d) \/ DisplayChanges(d)
    \/ \E on \in BOOLEAN : SetCurtain(on)
    \/ WindowPasses \/ DisplayPoll

(* A pipeline's tasks and threads do not rest, and one that was told to     *)
(* stop hears it (select! polls in random order); a build ends; the loop   *)
(* comes to what is queued for it.                                         *)
Advances(p) == Encodes(p) \/ Transmits(p) \/ ThreadsJoin(p) \/ ForwardFails(p) \/ Watchdog(p)

VidFairness ==
    /\ \A p \in Pipe : WF_vidVars(Advances(p)) /\ SF_vidVars(ForwardStops(p))
    /\ WF_vidVars(Built \/ BuildFails)
    /\ SF_vidVars(HandlesFailure \/ HandlesChange)
    /\ WF_vidVars(PeerConnects) /\ WF_vidVars(AsksKeyframe) /\ WF_vidVars(DisplayPoll)

VidSpec == VidInit /\ [][VidNext]_vidVars /\ VidFairness
-----------------------------------------------------------------------------
(* Properties *)

(* However requests, failures and replacements interleave, the browser     *)
(* comes to see the current pipeline's picture again, or the session is    *)
(* over: no replacement leaves the old pipeline mute, no dropped frame the *)
(* decoder without a keyframe, no pipeline its end unnoticed               *)
(* (signaling/mod.rs:3381).                                                *)
PictureFlows ==
    []<>(~inPicture \/ picture = [from |-> current, good |-> TRUE])

(* Whenever the loop is done with a request, the pipeline that runs leaves *)
(* out the windows of the curtain that is up: the client would see the     *)
(* curtain instead of the desktop (signaling/mod.rs:3351).                 *)
CurtainIsSeenThrough ==
    Idle /\ curtain # 0 => pipe[current].excludes = curtain

(* The poll is to follow the display that is shown (signaling/mod.rs:3407). *)
(* A switch takes the geometry from a list it fetched before it built the  *)
(* pipeline, and the poll takes its base from one fetched after: what      *)
(* changed between the two is never noticed, and input goes to the wrong   *)
(* place.                                                                  *)
GeometryIsFollowed ==
    []<>(~inPicture \/ geometry[Shown] \in {0, pipe[current].geometry})
=============================================================================
