------------------------------- MODULE Adapt -------------------------------
(***************************************************************************)
(* The controller that chooses bitrate and frame rate of a pipeline        *)
(* (adapt/mod.rs), its task's clock, and the session's quality preset that *)
(* outlives the pipelines (signaling/mod.rs).                              *)
(*                                                                         *)
(* A tick is the unit of time.  Bitrates are counted in units of which the *)
(* range has few, within a tick in hundredths of them; losses in per cent. *)
(* What the pipeline sent in a tick, what became of its frames, and which  *)
(* reports of the network are fresh then (for seconds after they came) are *)
(* choices; a REMB too low to be believed is none, a loss of few packets   *)
(* is one of 0.                                                            *)
(*                                                                         *)
(* Left out: the reason of a decision, its announcement to the client, the *)
(* encoder's QP ceiling, diagnostics.                                      *)
(***************************************************************************)
EXTENDS Integers, FiniteSetsExt

CONSTANTS MinBitrate, MaxBitrate, MinFps, MaxFps, \* AdaptConfig
          FpsLadder, PixelCost,     \* FPS_LADDER, half the bits that a frame per second takes
          SharpFpsCeiling, SmoothFpsFloor, LossCapFloor,
          LossCapHold, LossProbeHold, CongestionTicks, FastTicks, \* ticks
          Rembs, Losses,            \* what the network may report
          Nothing

ASSUME AdaptAssumption ==
    /\ {MinBitrate, MinFps} \subseteq Nat \ {0} /\ MaxBitrate >= MinBitrate /\ MaxFps >= MinFps
    /\ FpsLadder \subseteq Nat \ {0} /\ Nothing \notin Nat
    /\ Rembs \subseteq Nat /\ Losses \subseteq 1..100

VARIABLES
    bitrate, fps, \* target
    preset,       \* the controller's
    announce,     \* preset_announce_pending
    prevRemb,     \* prev_tick_remb_kbps
    capped, probeHeld, \* ticks until loss_cap_until, probe_hold_until
    sentCap, congested, fast,
    quality,      \* ActiveSession.quality_preset
    onItsWay,     \* Feedback::Preset in the channel of the task
    calm          \* from now on nothing is wrong with network and encoder

limitVars == <<prevRemb, capped, probeHeld, sentCap, congested>>
rateVars == <<bitrate, fps, preset, announce, limitVars, fast, quality, onItsWay, calm>>

Preset == {"auto", "sharp", "smooth"}
Least(a, b) == IF a < b THEN a ELSE b
Most(a, b) == IF a > b THEN a ELSE b
Less(n) == Most(n - 1, 0)

(* QualityPolicy::for_preset.                                              *)
PolicyMaxFps(p) == IF p = "sharp" THEN Least(MaxFps, SharpFpsCeiling) ELSE MaxFps
PolicyMinFps(p) == IF p = "smooth" THEN Least(Most(MinFps, SmoothFpsFloor), MaxFps) ELSE MinFps
FrameCost(p) == PixelCost * (CASE p = "auto" -> 2 [] p = "sharp" -> 6 [] p = "smooth" -> 1)

Ladder == [p \in Preset |->
    {f \in FpsLadder : PolicyMinFps(p) <= f /\ f <= PolicyMaxFps(p)} \cup {PolicyMaxFps(p)}]

StepDown == [p \in Preset |-> [f \in 1..MaxFps |->
    LET lower == {s \in Ladder[p] : s < f} IN IF lower = {} THEN f ELSE Max(lower)]]

(* A mutant: up from a rung of the ladder only; MinFps need not be one.      *)
StepUp_OnLadder == [p \in Preset |-> [f \in 1..MaxFps |->
    LET higher == {s \in Ladder[p] : s > f} IN IF higher = {} \/ f \notin Ladder[p] THEN f ELSE Min(higher)]]

StepUp == [p \in Preset |-> [f \in 1..MaxFps |->
    LET higher == {s \in Ladder[p] : s > f} IN IF higher = {} THEN f ELSE Min(higher)]]

(* bitrate_fps_step, of hundredths.                                         *)
AffordedFps(p, b) ==
    LET afforded == {f \in Ladder[p] : b >= FrameCost(p) * f}
    IN IF afforded = {} THEN PolicyMinFps(p) ELSE Max(afforded)

(* Controller::new.                                                        *)
NewController ==
    /\ bitrate' = MaxBitrate /\ fps' = MaxFps /\ preset' = "auto" /\ announce' = FALSE
    /\ prevRemb' = Nothing
    /\ capped' = 0 /\ probeHeld' = 0 /\ sentCap' = Nothing /\ congested' = 0 /\ fast' = 0

RateInit ==
    /\ bitrate = MaxBitrate /\ fps = MaxFps /\ preset = "auto" /\ announce = FALSE
    /\ prevRemb = Nothing
    /\ capped = 0 /\ probeHeld = 0 /\ sentCap = Nothing /\ congested = 0 /\ fast = 0
    /\ quality = "auto" /\ onItsWay = Nothing /\ calm = FALSE
-----------------------------------------------------------------------------
(* What the controller hears *)

(* set_preset: at once, and announced at the next tick.                      *)
HearsPreset ==
    /\ onItsWay # Nothing /\ onItsWay' = Nothing
    /\ preset' = onItsWay /\ fps' = PolicyMaxFps(onItsWay) /\ announce' = TRUE
    /\ UNCHANGED <<bitrate, limitVars, fast, quality, calm>>

(* SetQuality, and replace_pipeline: the controller of the new pipeline is   *)
(* told what the session has.                                              *)
SetQuality(p) ==
    /\ ~calm
    /\ quality' = p /\ onItsWay' = p
    /\ UNCHANGED <<bitrate, fps, preset, announce, limitVars, fast, calm>>

Replaced_AtAuto ==
    /\ ~calm /\ NewController
    /\ onItsWay' = Nothing /\ UNCHANGED <<quality, calm>>

Replaced ==
    /\ ~calm /\ NewController
    /\ onItsWay' = IF quality = "auto" THEN Nothing ELSE quality
    /\ UNCHANGED <<quality, calm>>
-----------------------------------------------------------------------------
(* Controller::tick *)

Loads(sent) == 10 * sent >= 8 * bitrate
Congests(sent, remb) ==
    /\ Loads(sent) /\ remb # Nothing
    /\ prevRemb # Nothing => remb <= prevRemb
    /\ 10 * remb < 9 * sent

(* The limits that a loss puts up: `capped` by REMB, `probeHeld` by what    *)
(* was sent, also the end of probing.                                       *)
Limits(sent, remb, loss) ==
    LET lossy == loss >= 2
        lowest == IF Less(probeHeld) = 0 THEN Nothing ELSE sentCap
        now == Most(sent, LossCapFloor)
    IN /\ capped' = IF lossy /\ remb # Nothing THEN LossCapHold ELSE Less(capped)
       /\ probeHeld' = IF lossy THEN LossProbeHold ELSE Less(probeHeld)
       /\ sentCap' = IF ~(lossy /\ Loads(sent)) THEN lowest
                     ELSE IF lowest = Nothing THEN now ELSE Least(lowest, now)
       /\ congested' = IF Congests(sent, remb) THEN Least(congested + 1, CongestionTicks) ELSE 0
       /\ prevRemb' = remb

(* What the bitrate would become, in hundredths.                            *)
Wanted(sent, remb, loss) ==
    IF loss > 10 THEN bitrate * (100 - loss \div 2)
    ELSE IF congested' = CongestionTicks THEN 100 * Least(bitrate, remb)
    ELSE IF ~Congests(sent, remb) /\ probeHeld' = 0 /\ loss < 2 THEN 110 * bitrate
    ELSE 100 * bitrate

Allowed(sent, remb, loss) ==
    LET caps == (IF capped' > 0 /\ remb # Nothing THEN {Most(90 * remb, 100 * LossCapFloor)} ELSE {})
                \cup (IF probeHeld' > 0 /\ sentCap' # Nothing THEN {100 * sentCap'} ELSE {})
    IN Most(100 * MinBitrate, Min({Wanted(sent, remb, loss), 100 * MaxBitrate} \cup caps))

(* The encoder's own rate: down when it was "late" (two overruns), up after   *)
(* ticks in which it kept up ("well"); a still screen and one overrun tell   *)
(* nothing ("still").                                                      *)
EncoderFps(went) ==
    LET higher == StepUp[preset][fps]
        streak == fast + 1
    IN IF went = "late" THEN [fps |-> StepDown[preset][fps], fast |-> 0]
       ELSE IF went = "still" \/ higher = fps THEN [fps |-> fps, fast |-> fast]
       ELSE IF streak < FastTicks THEN [fps |-> fps, fast |-> streak]
       ELSE [fps |-> higher, fast |-> 0]

Decides(sent, remb, loss, went) ==
    \E b \in {Allowed(sent, remb, loss)}, encoder \in {EncoderFps(went)} :
        \E f \in {Most(PolicyMinFps(preset),
                     Least(PolicyMaxFps(preset), Least(encoder.fps, AffordedFps(preset, b))))} :
            /\ fast' = encoder.fast
            /\ IF f # fps \/ Most(b - 100 * bitrate, 100 * bitrate - b) >= 5 * bitrate
               THEN fps' = f /\ bitrate' = (b + 50) \div 100
               ELSE UNCHANGED <<fps, bitrate>>

(* Nothing but the preset is announced after a change of it.                *)
Announces ==
    /\ announce /\ announce' = FALSE
    /\ capped' = Less(capped) /\ probeHeld' = Less(probeHeld)
    /\ UNCHANGED <<bitrate, fps, prevRemb, sentCap, congested, fast, preset, quality, onItsWay, calm>>

Adapts(sent, remb, loss, went) ==
    /\ ~announce
    /\ calm => ~Congests(sent, remb)
    /\ Limits(sent, remb, loss) /\ Decides(sent, remb, loss, went)
    /\ UNCHANGED <<announce, preset, quality, onItsWay, calm>>

(* Frames that the encoder kept up with, and no loss.                       *)
CalmTick ==
    /\ calm
    /\ \/ Announces
       \/ \E load \in 0..1, remb \in Rembs \cup {Nothing} : Adapts(load * bitrate, remb, 0, "well")

CalmsDown ==
    /\ ~calm /\ calm' = TRUE
    /\ UNCHANGED <<bitrate, fps, preset, announce, limitVars, fast, quality, onItsWay>>
-----------------------------------------------------------------------------
RateNext ==
    \/ HearsPreset \/ Replaced \/ CalmsDown
    \/ \E p \in Preset : SetQuality(p)
    \/ Announces
    \/ \E load \in 0..1, remb \in Rembs \cup {Nothing},
         loss \in {0} \cup (IF calm THEN {} ELSE Losses),
         went \in {"still", "well"} \cup (IF calm THEN {} ELSE {"late"}) :
           Adapts(load * bitrate, remb, loss, went)

(* The ticker and the channel go on, and the screen does not stand still for *)
(* ever.                                                                   *)
RateFairness ==
    /\ WF_rateVars(HearsPreset)
    /\ WF_rateVars(CalmTick)

RateSpec == RateInit /\ [][RateNext]_rateVars /\ RateFairness
-----------------------------------------------------------------------------
(* Properties *)

Recovered ==
    /\ 105 * bitrate > 100 * MaxBitrate
    /\ fps = Most(PolicyMinFps(quality), AffordedFps(quality, 100 * MaxBitrate))

(* Once nothing is wrong with the network and the encoder any more, the     *)
(* target comes back to the session's ceiling (but for what hysteresis      *)
(* keeps) and to the frame rate that the chosen preset affords there:       *)
(* no cut, hold, floor or replaced pipeline leaves it stuck (adapt/mod.rs:37).*)
RateRecovers == <>[](calm => Recovered)
=============================================================================
