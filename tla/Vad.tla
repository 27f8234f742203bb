-------------------------------- MODULE Vad --------------------------------
(***************************************************************************)
(* What one captured frame does to a session's local analysis: the voice   *)
(* activity detector (crates/audio/src/vad.rs), the events its decision    *)
(* becomes (FrameEvents, crates/audio/src/provider.rs) and the gate that   *)
(* lets the frame travel (SendGate, crates/asr/src/gate.rs).               *)
(*                                                                         *)
(* A frame is its energy against the noise floor of the moment: "quiet" is *)
(* below the closing ratio, "faint" between the two ratios, "loud" above   *)
(* the opening one.  The floor itself is not kept: it moves only while     *)
(* nobody speaks, and every energy is possible in every state.             *)
(* The silence clock counts frames and is kept up to one past the pad,     *)
(* the largest value anything compares it with.                            *)
(***************************************************************************)
EXTENDS Naturals, Sequences

CONSTANTS
  Calibration,  \* CALIBRATION_FRAMES
  Hangover,     \* hangover_ms in frames
  Pad           \* PAD_MS in frames

ASSUME VadAssumption == Calibration \in Nat /\ Hangover \in Nat /\ Pad \in Nat /\ Hangover < Pad

Energy == {"quiet", "faint", "loud"}

Fresh == [seen |-> 0, speaking |-> FALSE, silence |-> 0, active |-> FALSE, told |-> FALSE]

Analysis ==
  [seen : 0..Calibration, speaking : BOOLEAN, silence : 0..Pad + 1,
   active : BOOLEAN, told : BOOLEAN]

LongerSilence(v) == IF v.silence > Pad THEN v.silence ELSE v.silence + 1

\* Vad::push: calibration frames are never speech; the two ratios make the
\* hysteresis; the hangover keeps the speaking state over a short gap.
Calibrating(v) == v.seen < Calibration

Voiced(v, energy) ==
  /\ ~Calibrating(v)
  /\ energy = "loud" \/ (energy = "faint" /\ v.speaking)

Detect(v, energy) ==
  LET silence == IF Voiced(v, energy) THEN 0 ELSE LongerSilence(v)
  IN  [v EXCEPT !.seen = IF Calibrating(v) THEN @ + 1 ELSE @,
                !.silence = silence,
                !.speaking = \/ Voiced(v, energy)
                             \/ @ /\ silence <= Hangover]

\* Faulty: the pad needs no speech before it.
FaultyGate(v, voiced) == voiced \/ v.silence <= Pad

\* SendGate::push: speech, and a bounded pad of quiet frames behind it.
Gate(v, voiced) == voiced \/ (v.active /\ v.silence <= Pad)

\* FrameEvents::push: the activity transition, then the silence clock.
Activity(v) == v.told # v.speaking

FrameEvents(v) ==
  (IF Activity(v) THEN <<[kind |-> "activity", speaking |-> v.speaking]>> ELSE <<>>)
    \o (IF v.speaking THEN <<>> ELSE <<[kind |-> "silence", elapsed |-> v.silence]>>)

\* Pump::analyze: the analysis after the frame, the events for the engine,
\* and whether the frame belongs on the wire.
Analyze(v, energy) ==
  LET heard == Detect(v, energy)
      wire  == Gate(heard, Voiced(v, energy))
  IN  [vad |-> [heard EXCEPT !.active = wire, !.told = heard.speaking],
       events |-> FrameEvents(heard), wire |-> wire]
=============================================================================
