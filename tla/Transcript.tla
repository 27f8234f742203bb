----------------------------- MODULE Transcript -----------------------------
(***************************************************************************)
(* The transcript of one recording (crates/engine/src/session.rs) as       *)
(* consume_asr folds it (crates/engine/src/tasks.rs): interim and final    *)
(* frames of the recogniser, placeholders pinned in between, paragraphs    *)
(* closed by silence, and the freeze that ends it.                         *)
(*                                                                         *)
(* The voice detector (crates/audio) and the recogniser are the            *)
(* environment.  The two are independent: a frame of text arrives when the *)
(* recogniser has it, whatever the detector reports meanwhile.  Time is    *)
(* counted in frames of the detector, each of which ticks once.            *)
(***************************************************************************)
EXTENDS Naturals, Sequences, SequencesExt

CONSTANTS
  ParagraphSilence,  \* EngineTimings.paragraph_silence_ms, in frames
  SessionEndSilence, \* EngineTimings.session_end_silence_ms, in frames
  Hangover,          \* VadConfig.hangover_ms, in whole frames
  MaxQuiet,          \* bound: frames of silence in a row
  MaxWords,          \* bound: words spoken
  MaxPins,           \* bound: placeholders pinned
  MaxText            \* bound: characters committed, where it rewrites

ASSUME TranscriptAssumption ==
  /\ ParagraphSilence \in Nat \ {0} /\ SessionEndSilence \in Nat \ {0}
  /\ Hangover \in Nat /\ MaxQuiet \in Nat
  /\ MaxWords \in Nat /\ MaxPins \in Nat /\ MaxText \in Nat

VARIABLES
  passage,        \* passage mode, snapshot at the session's opening
  paragraphs,     \* Session.paragraphs: the closed lines
  current,        \* Session.current_paragraph
  partial,        \* Session.partial
  pins,           \* Session.pins: their anchors, in press order
  snapshot,       \* InFlight.snapshot; <<>> when no constraint is open
  marked,         \* paragraph_marked_current_silence
  speechSince,    \* speech_since_mark
  lastSilence,    \* last_silence_ms
  baseline,       \* silence_baseline_ms
  anySpeech,      \* any_speech
  phase,          \* recording, or how it ended
  frozen,         \* FrozenUtterance.paragraphs
  speaking,       \* the detector's smoothed state
  quiet,          \* frames since its last voiced one
  rewrites,       \* the recogniser may rewrite what it has said
  heard,          \* words the recogniser has put in a frame
  settled,        \* words of sentences it has finalised
  pressed,        \* `quiet' at the last pin press of this silence
  late            \* a frame of text came in this silence, past the hangover,
                  \* and no press since with a tick between them
text == <<paragraphs, current, partial, pins, snapshot>>
clock == <<marked, speechSince, lastSilence, baseline, anySpeech>>
ending == <<phase, frozen>>
voice == <<speaking, quiet>>
vars ==
  <<passage, text, clock, ending, voice, rewrites, heard, settled, pressed, late>>

-----------------------------------------------------------------------------
(* Text: words, clause punctuation, and the marks of pins among them *)

Word(n)    == <<"word", n>>
Punct      == <<"punct", 0>>
PinMark(k) == <<"pin", k>>

Spoken == {Word(n) : n \in 1 .. MaxWords} \cup {Punct}

Sentence(first, last) == [i \in 1 .. last - first + 1 |-> Word(first + i - 1)]

\* trailing_punctuation_len: what a pin strips from the end of its left.
Stripped(line) ==
  LET kept == {i \in DOMAIN line : line[i] # Punct}
  IN IF kept = {} THEN <<>>
     ELSE SubSeq(line, 1, CHOOSE i \in kept : \A j \in kept : j <= i)

Line(i) == IF i <= Len(paragraphs) THEN paragraphs[i] ELSE current

\* splice_pins, pin after pin: one on line i strips the clause punctuation
\* that ends the text since the pin before it.
Cut(i, line, pin, mark, before) ==
  IF pin.paragraph # i THEN before
  ELSE [out |-> before.out \o Stripped(SubSeq(line, before.prev + 1, pin.offset)) \o <<mark>>,
        prev |-> pin.offset]

Placed(i, line, anchors) ==
  LET after[k \in 0 .. Len(anchors)] ==
        IF k = 0 THEN [out |-> <<>>, prev |-> 0]
        ELSE Cut(i, line, anchors[k], PinMark(k), after[k - 1])
  IN after

\* The pins of line i cut into it.
Spliced(i, line, anchors) ==
  LET placed == Placed(i, line, anchors)[Len(anchors)]
  IN placed.out \o SubSeq(line, placed.prev + 1, Len(line))

\* rendered_paragraphs of closed lines and a current one.
Rendered(closed, last, anchors) ==
  [i \in 1 .. Len(closed) + 1 |->
     Spliced(i, IF i <= Len(closed) THEN closed[i] ELSE last, anchors)]

\* An empty current line is dropped.
Trimmed(lines) == IF Last(lines) = <<>> THEN Front(lines) ELSE lines

\* live_text: the partial rides the current line, outside the splice.
LiveText ==
  LET lines == Rendered(paragraphs, current, pins)
  IN Trimmed([lines EXCEPT ![Len(lines)] = @ \o partial])

-----------------------------------------------------------------------------
(* The engine's side *)

\* note_speech.
NoteSpeech ==
  /\ marked' = FALSE /\ speechSince' = TRUE /\ anySpeech' = TRUE
  /\ lastSilence' = 0 /\ baseline' = 0

\* fold_partial: under a constraint a frame may only extend the snapshot.
FoldPartial(frame) ==
  IF IsPrefix(snapshot, frame)
  THEN /\ partial' = SubSeq(frame, Len(snapshot) + 1, Len(frame))
       /\ NoteSpeech
       /\ UNCHANGED <<paragraphs, current, pins, snapshot>>
  ELSE UNCHANGED <<text, clock>>

FaultyAppended(frame) == frame

\* What a final frame adds: past the snapshot it extends, or all of it.
Appended(frame) ==
  IF IsPrefix(snapshot, frame)
  THEN SubSeq(frame, Len(snapshot) + 1, Len(frame)) ELSE frame

FaultyFoldFinal(frame) ==
  IF snapshot # <<>> /\ frame = <<>>
  THEN UNCHANGED <<text, clock>>
  ELSE /\ current' = SubSeq(current, 1, Len(current) - Len(snapshot)) \o frame
       /\ partial' = <<>> /\ snapshot' = <<>>
       /\ NoteSpeech
       /\ UNCHANGED <<paragraphs, pins>>

\* fold_final: the first non-empty one decides an open constraint.
FoldFinal(frame) ==
  IF snapshot # <<>> /\ frame = <<>>
  THEN UNCHANGED <<text, clock>>
  ELSE /\ current' = current \o Appended(frame)
       /\ partial' = <<>> /\ snapshot' = <<>>
       /\ NoteSpeech
       /\ UNCHANGED <<paragraphs, pins>>

\* A silence tick in passage mode may close the current paragraph.
ParagraphTick(elapsed) ==
  /\ lastSilence' = elapsed
  /\ IF /\ elapsed >= baseline + ParagraphSilence
        /\ speechSince /\ ~marked /\ snapshot = <<>>
     THEN /\ marked' = TRUE /\ speechSince' = FALSE
          /\ IF current = <<>> THEN UNCHANGED <<paragraphs, current>>
             ELSE paragraphs' = Append(paragraphs, current) /\ current' = <<>>
     ELSE UNCHANGED <<marked, speechSince, paragraphs, current>>
  /\ UNCHANGED <<partial, pins, snapshot, baseline, anySpeech>>

\* An utterance, unless nothing at all was said or pinned.
Frozen(lines) ==
  IF lines = <<>> /\ ~anySpeech
  THEN phase' = "discarded" /\ UNCHANGED frozen
  ELSE phase' = "frozen" /\ frozen' = lines

FaultyFreeze ==
  /\ partial' = <<>>
  /\ Frozen(Trimmed(Rendered(paragraphs, current, pins)))
  /\ UNCHANGED <<paragraphs, current, pins, snapshot>>

\* freeze: speech still in flight joins the transcript, and the lines are
\* spliced as they were live.
Freeze ==
  /\ current' = current \o partial
  /\ partial' = <<>>
  /\ Frozen(Trimmed(Rendered(paragraphs, current', pins)))
  /\ UNCHANGED <<paragraphs, pins, snapshot>>

FaultyEarlyAnchor ==
  /\ current' = current \o partial /\ partial' = <<>>
  /\ snapshot' = snapshot \o partial
  /\ pins' = Append(pins, [paragraph |-> Len(paragraphs) + 1,
                           offset |-> Len(current)])
  /\ UNCHANGED paragraphs

\* The text half of pin: the draft commits as the pin's left and joins the
\* snapshot; with nothing said since the last mark the pin ends the last
\* closed line.
PinText ==
  LET line == current \o partial
      onClosed == line = <<>> /\ paragraphs # <<>>
  IN /\ current' = line
     /\ partial' = <<>>
     /\ snapshot' = snapshot \o partial
     /\ pins' = Append(pins,
                  IF onClosed
                  THEN [paragraph |-> Len(paragraphs),
                        offset |-> Len(Last(paragraphs))]
                  ELSE [paragraph |-> Len(paragraphs) + 1,
                        offset |-> Len(line)])
     /\ UNCHANGED paragraphs

FaultyRebase == UNCHANGED baseline

\* The clock half of pin.
Rebase == baseline' = lastSilence

-----------------------------------------------------------------------------
(* Steps *)

Init ==
  /\ passage \in BOOLEAN
  /\ paragraphs = <<>> /\ current = <<>> /\ partial = <<>>
  /\ pins = <<>> /\ snapshot = <<>>
  /\ marked = FALSE /\ speechSince = FALSE /\ anySpeech = FALSE
  /\ lastSilence = 0 /\ baseline = 0
  /\ phase = "recording" /\ frozen = <<>>
  /\ speaking = FALSE /\ quiet = 0
  /\ heard = 0 /\ settled = 0 /\ pressed = 0
  /\ rewrites \in BOOLEAN /\ late = FALSE

Recording == phase = "recording"

\* Frames of a recogniser that says anything next, the same words among it:
\* a word and a punctuation mark are enough to extend a text or to rewrite it.
Frames ==
  IF Len(FlattenSeq(paragraphs) \o current) > MaxText THEN {}
  ELSE UNION {[1 .. n -> {Word(1), Punct}] : n \in 0 .. 2}

\* The recogniser says the sentence so far, up to word n.
PartialText ==
  /\ Recording
  /\ IF rewrites
     THEN (\E frame \in Frames : FoldPartial(frame)) /\ UNCHANGED heard
     ELSE \E n \in heard .. MaxWords :
            /\ n > settled
            /\ FoldPartial(Sentence(settled + 1, n))
            /\ heard' = n
  /\ late' = (late \/ ~speaking)
  /\ UNCHANGED <<passage, ending, voice, rewrites, settled, pressed>>

\* The recogniser closes the sentence, with or without its punctuation.
FinalText ==
  /\ Recording
  /\ IF rewrites
     THEN /\ \E frame \in Frames : FoldFinal(frame)
          /\ UNCHANGED <<heard, settled>>
     ELSE \E n \in heard .. MaxWords, end \in {<<>>, <<Punct>>} :
            /\ n > settled
            /\ FoldFinal(Sentence(settled + 1, n) \o end)
            /\ heard' = n /\ settled' = n
  /\ late' = (late \/ ~speaking)
  /\ UNCHANGED <<passage, ending, voice, rewrites, pressed>>

\* A voiced frame; speech activity reaches the session when it begins.
Voiced ==
  /\ Recording
  /\ quiet' = 0 /\ speaking' = TRUE /\ pressed' = 0 /\ late' = FALSE
  /\ IF speaking THEN UNCHANGED clock ELSE NoteSpeech
  /\ UNCHANGED <<passage, text, ending, rewrites, heard, settled>>

\* An unvoiced frame; once the hangover is over, it ticks the silence.
Unvoiced(held) ==
  /\ Recording /\ quiet < MaxQuiet
  /\ quiet' = quiet + 1
  /\ speaking' = (speaking /\ quiet' <= Hangover)
  /\ IF speaking'
     THEN UNCHANGED <<text, clock, ending>>
     ELSE IF passage
     THEN ParagraphTick(quiet') /\ UNCHANGED ending
     ELSE /\ lastSilence' = quiet'
          /\ IF quiet' >= SessionEndSilence /\ ~held
             THEN Freeze ELSE UNCHANGED <<text, ending>>
          /\ UNCHANGED <<marked, speechSince, baseline, anySpeech>>
  /\ UNCHANGED <<passage, rewrites, heard, settled, pressed, late>>

PinPlaceholder ==
  /\ Recording /\ Len(pins) < MaxPins
  /\ PinText /\ Rebase
  /\ pressed' = quiet /\ late' = (late /\ lastSilence # quiet)
  /\ UNCHANGED <<passage, marked, speechSince, lastSilence, anySpeech, ending,
                 voice, rewrites, heard, settled>>

StopSession ==
  /\ Recording
  /\ Freeze
  /\ UNCHANGED <<passage, clock, voice, rewrites, heard, settled, pressed, late>>

Next ==
  \/ PartialText \/ FinalText
  \/ Voiced \/ \E held \in BOOLEAN : Unvoiced(held)
  \/ PinPlaceholder \/ StopSession

Spec == Init /\ [][Next]_vars

-----------------------------------------------------------------------------
(* Properties *)

\* What the screen shows up to and with pin k.
LeftOf(k) ==
  LET p == pins[k].paragraph
      line == Spliced(p, Line(p), pins)
      at == CHOOSE i \in DOMAIN line : line[i] = PinMark(k)
  IN Append([i \in 1 .. p - 1 |-> Spliced(i, Line(i), pins)],
            SubSeq(line, 1, at))

\* The words left of a pin are dead to the recogniser: no later frame, mark,
\* pin or stop changes the text before a pin once it is pressed.  A pin is
\* pressed at the end of what the screen shows: finalised words and draft stay
\* where they are, only the clause's closing mark goes, and the pin follows
\* them, on whichever line that was.  And the utterance that is rectified,
\* pasted and stored is, line by line, what the screen showed when the
\* recording ended: position is never computed twice.
ScreenIsKept ==
  [][/\ \A k \in DOMAIN pins : LeftOf(k)' = LeftOf(k)
     /\ Len(pins') > Len(pins) =>
          LET mark == PinMark(Len(pins'))
          IN LiveText' = IF LiveText = <<>> THEN <<<<mark>>>>
                         ELSE Append(Front(LiveText),
                                     Append(Stripped(Last(LiveText)), mark))
     /\ phase' = "frozen" /\ phase = "recording" => frozen' = LiveText]_vars

\* The words of a line, by number, and whether they stand in order.
WordsOf(line) == {line[j][2] : j \in {k \in DOMAIN line : line[k][1] = "word"}}
Rising(line) ==
  \A j, k \in DOMAIN line :
    j < k /\ line[j][1] = "word" /\ line[k][1] = "word" => line[j][2] < line[k][2]

WordsOn(lines) == UNION {WordsOf(lines[i]) : i \in DOMAIN lines}

\* The words of the lines are the first n, each behind the ones before it.
EachOnce(lines, n) ==
  /\ WordsOn(lines) = 1 .. n
  /\ \A i \in DOMAIN lines : Rising(lines[i])
  /\ \A i, k \in DOMAIN lines :
       i < k => \A v \in WordsOf(lines[i]), w \in WordsOf(lines[k]) : v < w

\* Whatever pins were pressed in mid-sentence and whatever silence fell
\* where, every word a steady recogniser heard stands in the transcript
\* once, in the order it was said.
EachWordOnce ==
  ~rewrites => /\ Recording => EachOnce(LiveText, heard)
               /\ phase = "frozen" => EachOnce(frozen, heard)

\* "A press mid-pause restarts the paragraph clock, so the reach for the key
\* cannot close the paragraph around the pin": after a press it takes a whole
\* window of silence to mark a paragraph, less what the hangover hides, unless
\* a frame of text arrives in the silence after the press or between the press
\* and the tick before it.  Such a frame loses the press (note_speech clears
\* the baseline it set); the silence as a whole is a window all the same.
PromptPressBuysAWindow ==
  [][marked' /\ ~marked =>
       /\ quiet' >= ParagraphSilence
       /\ ~late => quiet' - pressed >= ParagraphSilence - Hangover]_vars
=============================================================================
