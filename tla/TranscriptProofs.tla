-------------------------- MODULE TranscriptProofs --------------------------
(***************************************************************************)
(* Theorems of Transcript, for any thresholds, any hangover, any number of *)
(* words and pins and any recogniser: what a press of the pin in a pause   *)
(* buys, that a position is never computed twice, so that what the screen  *)
(* shows is kept, and that each word said stands in the text once.         *)
(*                                                                         *)
(* What the pins of a line place is defined by recursion over the pins.    *)
(* There is no induction over an operator to cite, so facts about all of   *)
(* them go by the least pin they would fail for (NoLeast).                 *)
(***************************************************************************)
EXTENDS Transcript, SequenceTheorems, FiniteSetTheorems, WellFoundedInduction, TLAPS

-----------------------------------------------------------------------------
(* The clock of the silence *)

\* While the detector still reports speech, the session's clock stands at zero
\* and the silence is within the hangover; past it the clock shows the silence,
\* unless text has come in it.  So the mark a press moves lies at most a
\* hangover before the press.
ClockInv ==
  /\ {quiet, pressed, lastSilence, baseline} \subseteq Nat
  /\ pressed <= quiet
  /\ speaking => quiet <= Hangover /\ lastSilence = 0
  /\ ~speaking /\ ~late => lastSilence = quiet
  /\ ~late => pressed <= baseline + Hangover

\* Every step keeps the clock: text that comes with its speech resets both the
\* clock and its mark, in the hangover; text that comes later is late.
LEMMA ClockKept ==
  ASSUME ClockInv, [Next]_vars
  PROVE  ClockInv'
<1>0. Hangover \in Nat
  BY TranscriptAssumption
<1>1. CASE UNCHANGED vars
  BY <1>1 DEF vars, text, clock, voice, ClockInv
<1>2. CASE PartialText \/ FinalText
  <2>1. /\ UNCHANGED <<quiet, pressed, speaking>>
        /\ late' = (late \/ ~speaking)
    BY <1>2 DEF PartialText, FinalText, voice
  <2>2. \/ UNCHANGED <<lastSilence, baseline>>
        \/ lastSilence' = 0 /\ baseline' = 0
    BY <1>2 DEF PartialText, FinalText, FoldPartial, FoldFinal, NoteSpeech, clock
  <2>3. (late' <=> late \/ ~speaking) /\ (speaking' <=> speaking)
    BY <2>1
  <2>4. QED
    BY <1>0, <2>1, <2>2, <2>3 DEF ClockInv
<1>3. CASE Voiced
  BY <1>0, <1>3 DEF Voiced, NoteSpeech, clock, ClockInv
<1>4. ASSUME NEW held \in BOOLEAN, Unvoiced(held)
      PROVE  ClockInv'
  <2>1. /\ quiet' = quiet + 1 /\ UNCHANGED <<pressed, late, baseline>>
        /\ (speaking' <=> speaking /\ quiet' <= Hangover)
        /\ IF speaking' THEN lastSilence' = lastSilence ELSE lastSilence' = quiet'
    BY <1>4 DEF Unvoiced, ParagraphTick, clock
  <2>2. QED
    BY <1>0, <2>1 DEF ClockInv
<1>5. CASE PinPlaceholder
  <2>1. /\ UNCHANGED <<quiet, speaking, lastSilence>>
        /\ pressed' = quiet /\ baseline' = lastSilence
        /\ ~late' => ~late \/ lastSilence = quiet
    BY <1>5 DEF PinPlaceholder, Rebase, voice
  <2>2. QED
    BY <1>0, <2>1 DEF ClockInv
<1>6. CASE StopSession
  BY <1>6 DEF StopSession, clock, voice, ClockInv
<1>7. QED
  BY <1>1, <1>2, <1>3, <1>4, <1>5, <1>6 DEF Next

\* A press in a pause buys a whole window of silence before the paragraph may
\* be closed, less what the hangover hides (Session::pin, on_silence_tick),
\* unless a frame of text comes after the tick the press rebased to; also then
\* the silence as a whole is that long.
THEOREM PressBuysAWindow == Spec => PromptPressBuysAWindow
<1>1. Init => ClockInv
  BY TranscriptAssumption DEF Init, ClockInv
<1>2. ClockInv /\ [Next]_vars => ClockInv'
  BY ClockKept
<1>3. ClockInv /\ [Next]_vars =>
        [marked' /\ ~marked =>
           /\ quiet' >= ParagraphSilence
           /\ ~late => quiet' - pressed >= ParagraphSilence - Hangover]_vars
  <2> SUFFICES ASSUME ClockInv, Next, marked', ~marked
               PROVE  /\ quiet' >= ParagraphSilence
                      /\ ~late => quiet' - pressed >= ParagraphSilence - Hangover
    OBVIOUS
  <2>1. PICK held \in BOOLEAN : Unvoiced(held)
    BY DEF Next, PartialText, FinalText, FoldPartial, FoldFinal, NoteSpeech, Voiced,
       PinPlaceholder, StopSession, clock
  <2>2. quiet' = quiet + 1 /\ quiet' >= baseline + ParagraphSilence
    BY <2>1 DEF Unvoiced, ParagraphTick, clock
  <2>3. /\ Hangover \in Nat /\ ParagraphSilence \in Nat
        /\ {quiet, pressed, baseline} \subseteq Nat
        /\ ~late => pressed <= baseline + Hangover
    BY TranscriptAssumption DEF ClockInv
  <2>4. QED
    BY <2>2, <2>3
<1>4. QED
  BY <1>1, <1>2, <1>3, PTL DEF Spec, PromptPressBuysAWindow

-----------------------------------------------------------------------------
(* Text, and the pins in it *)

Chars  == {Word(n) : n \in Nat} \cup {Punct}
Marks  == {PinMark(k) : k \in Nat}
Glyphs == Chars \cup Marks
Anchor == [paragraph : Nat, offset : Nat]
Parts  == [out : Seq(Glyphs), prev : Nat]

\* No mark is a character, and no two pins have one mark.
LEMMA MarksApart ==
  /\ Punct \in Chars /\ Chars \cap Marks = {}
  /\ \A k, l \in Nat : PinMark(k) = PinMark(l) => k = l
BY DEF Punct, Chars, Marks, Word, PinMark

\* A claim that is true of zero, and of k + 1 when it is of k, is true of all
\* numbers: there is no least it fails.
LEMMA NoLeast ==
  ASSUME NEW bad \in SUBSET Nat, 0 \notin bad,
         \A k \in bad : k - 1 \in Nat => k - 1 \in bad
  PROVE  bad = {}
<1> SUFFICES ASSUME bad # {}
             PROVE  FALSE
  OBVIOUS
<1>1. PICK k \in bad : \A j \in bad : ~(<<j, k>> \in OpToRel(<, Nat))
  BY NatLessThanWellFounded, WFMin
<1>2. k \in Nat /\ k # 0 /\ \A j \in bad : ~(j < k)
  BY <1>1 DEF OpToRel
<1>3. k - 1 \in Nat /\ k - 1 < k
  BY <1>2
<1>4. QED
  BY <1>1, <1>2, <1>3

\* Where a line ends, its closing punctuation left out.
Ends(line, e) ==
  /\ e \in 0 .. Len(line)
  /\ e # 0 => line[e] # Punct
  /\ \A j \in e + 1 .. Len(line) : line[j] = Punct

\* Every line ends somewhere.
LEMMA EndsSomewhere ==
  ASSUME NEW S, NEW line \in Seq(S)
  PROVE  \E e \in 0 .. Len(line) : Ends(line, e)
<1> DEFINE n == Len(line)
           bad == {k \in Nat : k <= n /\ \A j \in 1 .. n : j > n - k => line[j] = Punct}
<1> SUFFICES ASSUME \A e \in 0 .. n : ~Ends(line, e)
             PROVE  FALSE
  OBVIOUS
<1>1. n \in Nat
  OBVIOUS
<1> DEFINE miss == Nat \ bad
           lost == {k \in miss : k <= n}
<1>2. 0 \notin lost
  BY <1>1
<1>3. ASSUME NEW k \in lost, k - 1 \in Nat
      PROVE  k - 1 \in lost
  <2>1. PICK j \in 1 .. n : j > n - k /\ line[j] # Punct
    BY <1>1, <1>3
  <2>2. ~Ends(line, n - k + 1)
    BY <1>1, <1>3
  <2> SUFFICES ASSUME k - 1 \in bad
               PROVE  FALSE
    BY <1>3
  <2>3. \A i \in 1 .. n : i > n - k + 1 => line[i] = Punct
    BY <1>1, <1>3
  <2>4. j = n - k + 1
    BY <1>1, <1>3, <2>1, <2>3
  <2>5. QED
    BY <1>1, <2>1, <2>2, <2>3, <2>4 DEF Ends
<1>4. lost = {}
  <2>1. lost \in SUBSET Nat
    OBVIOUS
  <2>2. \A k \in lost : k - 1 \in Nat => k - 1 \in lost
    BY <1>3
  <2> HIDE DEF lost
  <2>3. QED
    BY <1>2, <2>1, <2>2, NoLeast
<1>5. n \in bad
  <2>1. n \in Nat /\ n <= n
    BY <1>1
  <2> HIDE DEF bad, n
  <2>2. QED
    BY <1>4, <2>1
<1>6. Ends(line, 0)
  BY <1>1, <1>5 DEF Ends
<1>7. QED
  BY <1>1, <1>6

\* What a pin leaves of the text before it.
LEMMA StrippedIs ==
  ASSUME NEW S, NEW line \in Seq(S), NEW e \in 0 .. Len(line), Ends(line, e)
  PROVE  Stripped(line) = SubSeq(line, 1, e)
<1> DEFINE kept == {i \in DOMAIN line : line[i] # Punct}
<1>1. DOMAIN line = 1 .. Len(line) /\ Len(line) \in Nat
  OBVIOUS
<1>2. CASE e = 0
  <2>1. kept = {}
    BY <1>1, <1>2 DEF Ends
  <2>2. SubSeq(line, 1, e) = <<>>
    BY <1>2
  <2>3. QED
    BY <2>1, <2>2 DEF Stripped
<1>3. CASE e # 0
  <2>1. e \in kept /\ \A j \in kept : j <= e
    BY <1>1, <1>3 DEF Ends
  <2>2. \A i \in kept : (\A j \in kept : j <= i) => i = e
    BY <1>1, <2>1
  <2>3. (CHOOSE i \in kept : \A j \in kept : j <= i) = e
    BY <2>1, <2>2
  <2>4. kept # {}
    BY <2>1
  <2>5. QED
    BY <2>3, <2>4 DEF Stripped
<1>4. QED
  BY <1>2, <1>3

\* What a pin leaves is text.
LEMMA StrippedType ==
  ASSUME NEW S, NEW line \in Seq(S)
  PROVE  Stripped(line) \in Seq(S)
<1>1. PICK e \in 0 .. Len(line) : Ends(line, e)
  BY EndsSomewhere
<1>2. SubSeq(line, 1, e) \in Seq(S)
  OBVIOUS
<1>3. QED
  BY <1>1, <1>2, StrippedIs

\* Text behind a mark is stripped no further than the mark.
LEMMA StrippedAfter ==
  ASSUME NEW S, NEW left \in Seq(S), NEW line \in Seq(S),
         left = <<>> \/ left[Len(left)] # Punct
  PROVE  Stripped(left \o line) = left \o Stripped(line)
<1>1. PICK e \in 0 .. Len(line) : Ends(line, e)
  BY EndsSomewhere
<1> DEFINE both == left \o line
           m    == Len(left)
<1>2. /\ both \in Seq(S) /\ Len(both) = m + Len(line)
      /\ \A j \in 1 .. m : both[j] = left[j]
      /\ \A j \in m + 1 .. m + Len(line) : both[j] = line[j - m]
      /\ m \in Nat /\ Len(line) \in Nat
  OBVIOUS
<1> HIDE DEF both
<1>3. m + e \in 0 .. Len(both) /\ Ends(both, m + e)
  <2>1. m + e # 0 => both[m + e] # Punct
    <3>1. CASE e = 0
      BY <1>2, <3>1
    <3>2. CASE e # 0
      <4>1. m + e \in m + 1 .. m + Len(line) /\ (m + e) - m = e
        BY <1>2, <3>2
      <4>2. both[m + e] = line[e]
        BY <1>2, <4>1
      <4>3. QED
        BY <1>1, <3>2, <4>2 DEF Ends
    <3>3. QED
      BY <3>1, <3>2
  <2>2. ASSUME NEW j \in m + e + 1 .. Len(both)
        PROVE  both[j] = Punct
    <3>1. j \in m + 1 .. m + Len(line) /\ j - m \in e + 1 .. Len(line)
      BY <1>2
    <3>2. QED
      BY <1>1, <1>2, <3>1 DEF Ends
  <2>3. QED
    BY <1>2, <2>1, <2>2 DEF Ends
<1>4. Stripped(both) = SubSeq(both, 1, m + e) /\ Stripped(line) = SubSeq(line, 1, e)
  BY <1>1, <1>2, <1>3, StrippedIs
<1>5. SubSeq(both, 1, m + e) = left \o SubSeq(line, 1, e)
  <2> DEFINE a == SubSeq(both, 1, m + e)
             b == left \o SubSeq(line, 1, e)
  <2>1. /\ a \in Seq(S) /\ Len(a) = m + e
        /\ \A j \in 1 .. m + e : a[j] = both[j]
    BY <1>2, <1>3
  <2>2. /\ SubSeq(line, 1, e) \in Seq(S) /\ Len(SubSeq(line, 1, e)) = e
        /\ \A j \in 1 .. e : SubSeq(line, 1, e)[j] = line[j]
    OBVIOUS
  <2>3. /\ b \in Seq(S) /\ Len(b) = m + e
        /\ \A j \in 1 .. m : b[j] = left[j]
        /\ \A j \in m + 1 .. m + e : b[j] = line[j - m]
    BY <1>2, <2>2
  <2>4. \A j \in 1 .. m + e : a[j] = b[j]
    BY <1>2, <2>1, <2>3
  <2> HIDE DEF a, b
  <2>5. a = b
    BY <2>1, <2>3, <2>4, SeqEqual
  <2>6. QED
    BY <2>5 DEF a, b
<1>6. QED
  BY <1>4, <1>5 DEF both

-----------------------------------------------------------------------------
(* Pin after pin *)

\* What has been placed after each pin.
Walk(f, i, line, anchors, n) ==
  f = [k \in 0 .. n |-> IF k = 0 THEN [out |-> <<>>, prev |-> 0]
                        ELSE Cut(i, line, anchors[k], PinMark(k), f[k - 1])]

\* There is such a function for any number of pins.
LEMMA WalkExists ==
  ASSUME NEW i, NEW line, NEW anchors, NEW n \in Nat
  PROVE  \E f : Walk(f, i, line, anchors, n)
<1> DEFINE Has(m) == \E f : Walk(f, i, line, anchors, m)
           bad == {m \in Nat : ~Has(m)}
<1>1. Has(0)
  <2> DEFINE f == [k \in 0 .. 0 |-> [out |-> <<>>, prev |-> 0]]
  <2>1. Walk(f, i, line, anchors, 0)
    BY DEF Walk
  <2>2. QED
    BY <2>1
<1>2. ASSUME NEW m \in Nat, m - 1 \in Nat, Has(m - 1)
      PROVE  Has(m)
  <2>1. PICK f : Walk(f, i, line, anchors, m - 1)
    BY <1>2
  <2> DEFINE Next1(k) == Cut(i, line, anchors[k], PinMark(k), f[k - 1])
             g == [k \in 0 .. m |-> IF k = 0 THEN [out |-> <<>>, prev |-> 0] ELSE Next1(k)]
  <2>2. \A k \in 0 .. m - 1 : f[k] = g[k]
    <3> DEFINE h == [k \in 0 .. m - 1 |->
                       IF k = 0 THEN [out |-> <<>>, prev |-> 0] ELSE Next1(k)]
    <3>1. f = h
      BY <2>1 DEF Walk
    <3>2. \A k \in 0 .. m - 1 : h[k] = g[k]
      BY <1>2
    <3> HIDE DEF h, g
    <3>3. QED
      BY <3>1, <3>2
  <2>3. \A k \in 0 .. m : k # 0 => k - 1 \in 0 .. m - 1
    BY <1>2
  <2>4. Walk(g, i, line, anchors, m)
    <3>1. \A k \in 0 .. m :
            g[k] = IF k = 0 THEN [out |-> <<>>, prev |-> 0]
                   ELSE Cut(i, line, anchors[k], PinMark(k), g[k - 1])
      BY <2>2, <2>3
    <3>2. g = [k \in 0 .. m |-> g[k]]
      OBVIOUS
    <3> HIDE DEF g
    <3>3. QED
      BY <3>1, <3>2 DEF Walk
  <2> HIDE DEF g
  <2>5. QED
    BY <2>4
<1> HIDE DEF Has
<1>3. bad \in SUBSET Nat /\ 0 \notin bad /\ \A m \in bad : m - 1 \in Nat => m - 1 \in bad
  BY <1>1, <1>2
<1> HIDE DEF bad
<1>4. bad = {}
  BY <1>3, NoLeast
<1>5. QED
  BY <1>4 DEF bad, Has

\* Pin after pin, what is placed is what the pin makes of what those before it have.
LEMMA PlacedIs ==
  ASSUME NEW i, NEW line, NEW anchors \in Seq(Anchor)
  PROVE  /\ Placed(i, line, anchors)[0] = [out |-> <<>>, prev |-> 0]
         /\ \A k \in 1 .. Len(anchors) :
              Placed(i, line, anchors)[k]
                = Cut(i, line, anchors[k], PinMark(k), Placed(i, line, anchors)[k - 1])
<1> DEFINE n == Len(anchors)
           a == Placed(i, line, anchors)
<1>1. n \in Nat
  OBVIOUS
<1>2. Walk(a, i, line, anchors, n)
  <2>1. \E f : Walk(f, i, line, anchors, n)
    BY <1>1, WalkExists
  <2>2. a = CHOOSE f : Walk(f, i, line, anchors, n)
    BY DEF Placed, Walk
  <2> HIDE DEF a, n
  <2>3. QED
    BY <2>1, <2>2
<1> HIDE DEF a
<1> DEFINE h == [k \in 0 .. n |-> IF k = 0 THEN [out |-> <<>>, prev |-> 0]
                                  ELSE Cut(i, line, anchors[k], PinMark(k), a[k - 1])]
<1>3. a = h
  BY <1>2 DEF Walk
<1>4. /\ h[0] = [out |-> <<>>, prev |-> 0]
      /\ \A k \in 1 .. n : h[k] = Cut(i, line, anchors[k], PinMark(k), a[k - 1])
  BY <1>1
<1> HIDE DEF h
<1>5. QED
  BY <1>3, <1>4 DEF a

\* Every pin of line i lies on the line.
Fits(i, line, anchors) ==
  \A k \in 1 .. Len(anchors) : anchors[k].paragraph = i => anchors[k].offset <= Len(line)

\* What the first k pins have placed: text, and marks of theirs only, one of
\* them last.
Sound(part, line, k) ==
  /\ part \in Parts /\ part.prev <= Len(line)
  /\ part.out = <<>> \/ part.out[Len(part.out)] \in Marks
  /\ \A j \in 1 .. Len(part.out) :
       part.out[j] \in Chars \/ \E m \in 1 .. k : part.out[j] = PinMark(m)

\* The text a pin on the line places before it.
Piece(line, before, pin) == Stripped(SubSeq(line, before.prev + 1, pin.offset))

\* That is characters: a line holds no marks.
LEMMA PieceType ==
  ASSUME NEW line \in Seq(Chars), NEW pin, NEW before,
         pin.offset \in Nat, pin.offset <= Len(line), before.prev \in Nat
  PROVE  Piece(line, before, pin) \in Seq(Chars)
<1> DEFINE from == before.prev + 1
           to == pin.offset
           piece == SubSeq(line, from, to)
<1>1. from \in Nat /\ from >= 1 /\ to \in Nat /\ to <= Len(line)
  OBVIOUS
<1> HIDE DEF from, to
<1>2. \A j \in from .. to : line[j] \in Chars
  BY <1>1
<1>3. piece \in Seq(Chars)
  BY <1>1, <1>2
<1> HIDE DEF piece
<1>4. Stripped(piece) \in Seq(Chars)
  BY <1>3, StrippedType
<1>5. QED
  BY <1>4 DEF piece, from, to, Piece

\* A pin adds characters and its mark, or nothing.
LEMMA CutIs ==
  ASSUME NEW i, NEW line \in Seq(Chars), NEW k \in Nat \ {0}, NEW pin \in Anchor,
         NEW before, Sound(before, line, k - 1),
         pin.paragraph = i => pin.offset <= Len(line)
  PROVE  Sound(Cut(i, line, pin, PinMark(k), before), line, k)
<1> DEFINE after == Cut(i, line, pin, PinMark(k), before)
<1>0. /\ before \in Parts /\ before.prev <= Len(line)
      /\ before.out \in Seq(Glyphs) /\ before.prev \in Nat
  BY DEF Sound, Parts
<1>1. CASE pin.paragraph # i
  <2>1. after = before
    BY <1>1 DEF Cut
  <2>2. \A m \in 1 .. k - 1 : m \in 1 .. k
    OBVIOUS
  <2>3. Sound(before, line, k)
    BY <2>2 DEF Sound
  <2>4. QED
    BY <1>1, <2>1, <2>3
<1>2. CASE pin.paragraph = i
  <2> DEFINE piece == SubSeq(line, before.prev + 1, pin.offset)
             x == Stripped(piece)
             out == before.out \o x \o <<PinMark(k)>>
  <2>1. pin.offset \in Nat /\ pin.offset <= Len(line)
    BY <1>2 DEF Anchor
  <2>3. x \in Seq(Chars)
    BY <1>0, <2>1, PieceType DEF Piece
  <2>4. after = [out |-> out, prev |-> pin.offset]
    BY <1>2 DEF Cut
  <2> HIDE DEF piece, x
  <2>5. x \in Seq(Glyphs) /\ PinMark(k) \in Glyphs /\ PinMark(k) \in Marks
    BY <2>3 DEF Glyphs, Marks
  <2>6. /\ out \in Seq(Glyphs) /\ Len(out) = Len(before.out) + Len(x) + 1
        /\ out[Len(out)] = PinMark(k)
        /\ \A j \in 1 .. Len(before.out) : out[j] = before.out[j]
        /\ \A j \in Len(before.out) + 1 .. Len(before.out) + Len(x) :
             out[j] = x[j - Len(before.out)]
    BY <1>0, <2>5
  <2>7. ASSUME NEW j \in 1 .. Len(out)
        PROVE  out[j] \in Chars \/ \E m \in 1 .. k : out[j] = PinMark(m)
    <3>1. CASE j \in 1 .. Len(before.out)
      <4>1. \A m \in 1 .. k - 1 : m \in 1 .. k
        OBVIOUS
      <4>2. QED
        BY <2>6, <3>1, <4>1 DEF Sound
    <3>2. CASE j \in Len(before.out) + 1 .. Len(before.out) + Len(x)
      <4>1. j - Len(before.out) \in 1 .. Len(x)
        BY <1>0, <2>3, <3>2
      <4>2. x[j - Len(before.out)] \in Chars
        BY <2>3, <4>1
      <4>3. QED
        BY <2>6, <3>2, <4>2
    <3>3. CASE j = Len(out)
      <4>1. k \in 1 .. k
        OBVIOUS
      <4>2. QED
        BY <2>6, <3>3, <4>1
    <3>4. QED
      BY <1>0, <2>3, <2>6, <3>1, <3>2, <3>3
  <2> HIDE DEF out
  <2>8. after.out = out /\ after.prev = pin.offset /\ after \in Parts
    BY <2>1, <2>4, <2>6 DEF Parts
  <2> HIDE DEF after
  <2>9. Sound(after, line, k)
    BY <2>1, <2>5, <2>6, <2>7, <2>8 DEF Sound
  <2>10. QED
    BY <2>9 DEF after
<1>3. QED
  BY <1>1, <1>2

\* So does any number of them.
LEMMA PlacedSound ==
  ASSUME NEW i, NEW line \in Seq(Chars), NEW anchors \in Seq(Anchor),
         NEW k \in 0 .. Len(anchors), Fits(i, line, anchors)
  PROVE  Sound(Placed(i, line, anchors)[k], line, k)
<1> DEFINE n == Len(anchors)
           a == Placed(i, line, anchors)
           bad == {m \in Nat : m <= n /\ ~Sound(a[m], line, m)}
<1>1. n \in Nat
  OBVIOUS
<1>2. Sound(a[0], line, 0)
  <2>1. a[0] = [out |-> <<>>, prev |-> 0] /\ <<>> \in Seq(Glyphs) /\ Len(<<>>) = 0
    BY PlacedIs
  <2>2. a[0].out = <<>> /\ a[0].prev = 0 /\ a[0] \in Parts
    BY <2>1 DEF Parts
  <2> HIDE DEF a
  <2>3. QED
    BY <2>2 DEF Sound
<1>3. ASSUME NEW m \in bad, m - 1 \in Nat
      PROVE  m - 1 \in bad
  <2> SUFFICES ASSUME Sound(a[m - 1], line, m - 1)
               PROVE  FALSE
    <3> HIDE DEF a, n
    <3>1. QED
      BY <1>1, <1>3
  <2>1. m \in 1 .. n /\ m \in Nat \ {0}
    BY <1>1, <1>3
  <2>2. a[m] = Cut(i, line, anchors[m], PinMark(m), a[m - 1])
    BY <2>1, PlacedIs
  <2>3. anchors[m] \in Anchor /\ (anchors[m].paragraph = i => anchors[m].offset <= Len(line))
    BY <2>1 DEF Fits
  <2> HIDE DEF a
  <2>4. Sound(Cut(i, line, anchors[m], PinMark(m), a[m - 1]), line, m)
    BY <2>1, <2>3, CutIs
  <2>41. Sound(a[m], line, m)
    BY <2>2, <2>4
  <2>5. QED
    BY <1>1, <1>3, <2>41
<1>4. bad \in SUBSET Nat /\ 0 \notin bad /\ \A m \in bad : m - 1 \in Nat => m - 1 \in bad
  BY <1>2, <1>3
<1> HIDE DEF bad
<1>5. bad = {}
  BY <1>4, NoLeast
<1>6. QED
  BY <1>1, <1>5 DEF bad
Extends(short, long) ==
  Len(short) <= Len(long) /\ \A j \in 1 .. Len(short) : long[j] = short[j]

\* What is placed depends on the text up to the pins and on no later pin.
LEMMA PlacedGrows ==
  ASSUME NEW i, NEW line \in Seq(Chars), NEW longer \in Seq(Chars),
         NEW anchors \in Seq(Anchor), NEW more \in Seq(Anchor), NEW k \in 0 .. Len(anchors),
         Extends(line, longer), Extends(anchors, more), Fits(i, line, anchors)
  PROVE  Placed(i, longer, more)[k] = Placed(i, line, anchors)[k]
<1>0. /\ Len(line) <= Len(longer) /\ \A j \in 1 .. Len(line) : longer[j] = line[j]
      /\ Len(anchors) <= Len(more) /\ \A l \in 1 .. Len(anchors) : more[l] = anchors[l]
  BY DEF Extends
<1> DEFINE n == Len(anchors)
           a == Placed(i, line, anchors)
           b == Placed(i, longer, more)
           bad == {m \in Nat : m <= n /\ a[m] # b[m]}
<1>1. n \in Nat /\ Len(more) \in Nat /\ Len(line) \in Nat /\ Len(longer) \in Nat
  OBVIOUS
<1>2. a[0] = b[0]
  BY PlacedIs
<1>3. ASSUME NEW m \in bad, m - 1 \in Nat
      PROVE  m - 1 \in bad
  <2> SUFFICES ASSUME a[m - 1] = b[m - 1]
               PROVE  FALSE
    <3> HIDE DEF a, b, n
    <3>1. QED
      BY <1>1, <1>3
  <2>1. m \in 1 .. n /\ m \in 1 .. Len(more) /\ m - 1 \in 0 .. n
    BY <1>0, <1>1, <1>3
  <2>2. a[m] = Cut(i, line, anchors[m], PinMark(m), a[m - 1])
    BY <2>1, PlacedIs
  <2>3. b[m] = Cut(i, longer, anchors[m], PinMark(m), a[m - 1])
    BY <1>0, <2>1, PlacedIs
  <2>4. anchors[m] \in Anchor /\ (anchors[m].paragraph = i => anchors[m].offset <= Len(line))
    BY <2>1 DEF Fits
  <2>5. Sound(a[m - 1], line, m - 1)
    BY <2>1, PlacedSound
  <2> DEFINE from == a[m - 1].prev + 1
             to == anchors[m].offset
  <2>6. from \in Nat /\ from >= 1 /\ to \in Nat
    <3> HIDE DEF a
    <3>1. PICK p \in Nat : p = a[m - 1].prev
      BY <2>5 DEF Sound, Parts
    <3>2. PICK o \in Nat : o = anchors[m].offset
      BY <2>4 DEF Anchor
    <3>3. from = p + 1 /\ to = o
      BY <3>1, <3>2
    <3> HIDE DEF from, to
    <3>4. QED
      BY <3>3
  <2> HIDE DEF from, to, a, b
  <2>7. to <= Len(line) => SubSeq(line, from, to) = SubSeq(longer, from, to)
    <3> SUFFICES ASSUME to <= Len(line)
                 PROVE  SubSeq(line, from, to) = SubSeq(longer, from, to)
      OBVIOUS
    <3> DEFINE x == SubSeq(line, from, to)
               y == SubSeq(longer, from, to)
    <3>1. CASE from > to
      <4>1. x = <<>> /\ y = <<>>
        BY <1>0, <1>1, <2>6, <3>1
      <4>2. QED
        BY <4>1
    <3>2. CASE from <= to
      <4>1. /\ x \in Seq(Chars) /\ Len(x) = to - from + 1
            /\ \A j \in 1 .. to - from + 1 : x[j] = line[from + j - 1]
        BY <1>0, <1>1, <2>6, <3>2
      <4>2. /\ y \in Seq(Chars) /\ Len(y) = to - from + 1
            /\ \A j \in 1 .. to - from + 1 : y[j] = longer[from + j - 1]
        BY <1>0, <1>1, <2>6, <3>2, SMTT(30)
      <4>3. \A j \in 1 .. to - from + 1 : from + j - 1 \in 1 .. Len(line)
        BY <1>0, <1>1, <2>6, <3>2
      <4>4. \A j \in 1 .. to - from + 1 : x[j] = y[j]
        BY <1>0, <4>1, <4>2, <4>3
      <4> HIDE DEF x, y
      <4>5. x = y
        BY <4>1, <4>2, <4>4, SeqEqual
      <4>6. QED
        BY <4>5 DEF x, y
    <3>3. QED
      BY <1>0, <1>1, <2>6, <3>1, <3>2
  <2>8. a[m] = b[m]
    BY <2>2, <2>3, <2>4, <2>7 DEF Cut, from, to
  <2>9. QED
    BY <1>3, <2>8
<1>4. bad \in SUBSET Nat /\ 0 \notin bad /\ \A m \in bad : m - 1 \in Nat => m - 1 \in bad
  BY <1>2, <1>3
<1> HIDE DEF bad
<1>5. bad = {}
  BY <1>4, NoLeast
<1>6. QED
  BY <1>1, <1>5 DEF bad

\* Where no pin lies on the line, nothing is placed.
LEMMA NoneOnLine ==
  ASSUME NEW i, NEW line \in Seq(Chars), NEW anchors \in Seq(Anchor),
         \A k \in 1 .. Len(anchors) : anchors[k].paragraph # i
  PROVE  /\ Placed(i, line, anchors)[Len(anchors)] = [out |-> <<>>, prev |-> 0]
         /\ Spliced(i, line, anchors) = line
<1> DEFINE n == Len(anchors)
           a == Placed(i, line, anchors)
           none == [out |-> <<>>, prev |-> 0]
           bad == {m \in Nat : m <= n /\ a[m] # none}
<1>1. n \in Nat
  OBVIOUS
<1>2. a[0] = none
  BY PlacedIs
<1>3. ASSUME NEW m \in bad, m - 1 \in Nat
      PROVE  m - 1 \in bad
  <2>1. m \in 1 .. n /\ m - 1 <= n
    BY <1>1, <1>3
  <2>2. a[m] = Cut(i, line, anchors[m], PinMark(m), a[m - 1])
    BY <2>1, PlacedIs
  <2> HIDE DEF a, none
  <2>3. a[m] = a[m - 1]
    BY <2>1, <2>2 DEF Cut
  <2>4. QED
    BY <1>3, <2>1, <2>3
<1>4. bad \in SUBSET Nat /\ 0 \notin bad /\ \A m \in bad : m - 1 \in Nat => m - 1 \in bad
  BY <1>2, <1>3
<1> HIDE DEF bad
<1>5. bad = {}
  BY <1>4, NoLeast
<1> HIDE DEF a
<1>6. a[n] = none
  BY <1>1, <1>5 DEF bad
<1>7. SubSeq(line, 1, Len(line)) = line /\ <<>> \o line = line
  OBVIOUS
<1>8. QED
  BY <1>6, <1>7 DEF Spliced, a

\* A place in a sequence of two parts and one more.
LEMMA LastPlace ==
  ASSUME NEW l \in Nat, NEW m \in Nat, NEW n, n = l + m + 1, NEW x \in 1 .. n
  PROVE  x \in 1 .. l \/ x \in l + 1 .. n - 1 \/ x = n
OBVIOUS

\* A text that ends with the mark of pin k, in front of one that has the mark
\* nowhere else.
Fronts(left, out, k) ==
  /\ Len(left) >= 1 /\ left[Len(left)] = PinMark(k) /\ Len(out) >= Len(left)
  /\ \A x \in 1 .. Len(left) : out[x] = left[x]
  /\ \A x \in 1 .. Len(out) : out[x] = PinMark(k) => x = Len(left)

\* What a pin has placed stays in front of what is placed later.
LEMMA FrontStays ==
  ASSUME NEW i, NEW line \in Seq(Chars), NEW anchors \in Seq(Anchor),
         NEW k \in 1 .. Len(anchors), NEW j \in k .. Len(anchors),
         Fits(i, line, anchors), anchors[k].paragraph = i
  PROVE  Fronts(Placed(i, line, anchors)[k].out, Placed(i, line, anchors)[j].out, k)
<1> DEFINE n == Len(anchors)
           a == Placed(i, line, anchors)
           out(m) == a[m].out
           Front1(m) == /\ Len(out(m)) >= Len(out(k))
                        /\ \A x \in 1 .. Len(out(k)) : out(m)[x] = out(k)[x]
                        /\ \A x \in 1 .. Len(out(m)) : out(m)[x] = PinMark(k) => x = Len(out(k))
           bad == {m \in Nat : k + m <= n /\ ~Front1(k + m)}
<1>1. n \in Nat /\ k \in Nat /\ k - 1 \in Nat /\ k - 1 \in 0 .. n /\ k <= n
  OBVIOUS
<1>2. \A m \in 0 .. n : Sound(a[m], line, m) /\ out(m) \in Seq(Glyphs) /\ Len(out(m)) \in Nat
  <2> TAKE m \in 0 .. n
  <2>1. Sound(a[m], line, m)
    BY PlacedSound
  <2>2. out(m) \in Seq(Glyphs)
    BY <2>1 DEF Sound, Parts
  <2>3. QED
    BY <2>1, <2>2
<1>3. ASSUME NEW m \in 1 .. n
      PROVE  /\ anchors[m].paragraph # i => out(m) = out(m - 1)
             /\ anchors[m].paragraph = i =>
                  \E t \in Seq(Chars) : out(m) = out(m - 1) \o t \o <<PinMark(m)>>
  <2>1. a[m] = Cut(i, line, anchors[m], PinMark(m), a[m - 1])
    BY <1>3, PlacedIs
  <2>2. m - 1 \in 0 .. n /\ m \in Nat \ {0}
    BY <1>1
  <2>3. Sound(a[m - 1], line, m - 1)
    BY <1>2, <2>2
  <2>4. anchors[m] \in Anchor /\ (anchors[m].paragraph = i => anchors[m].offset <= Len(line))
    BY DEF Fits
  <2> HIDE DEF a
  <2> HIDE DEF n, out, Front1, bad
  <2>5. PICK before, pin : before = a[m - 1] /\ pin = anchors[m]
    OBVIOUS
  <2>6. Sound(before, line, m - 1) /\ pin \in Anchor /\ (pin.paragraph = i => pin.offset <= Len(line))
    BY <2>3, <2>4, <2>5
  <2>7. CASE pin.paragraph # i
    BY <2>1, <2>5, <2>7 DEF Cut, out
  <2>8. CASE pin.paragraph = i
    <3>1. Piece(line, before, pin) \in Seq(Chars)
      <4>1. before.prev \in Nat /\ pin.offset \in Nat /\ pin.offset <= Len(line)
        BY <2>6, <2>8 DEF Sound, Parts, Anchor
      <4>2. QED
        BY <4>1, PieceType
    <3>2. a[m].out = before.out \o Piece(line, before, pin) \o <<PinMark(m)>>
      <4>1. a[m] = Cut(i, line, pin, PinMark(m), before)
        BY <2>1, <2>5
      <4>2. Cut(i, line, pin, PinMark(m), before).out
              = before.out \o Piece(line, before, pin) \o <<PinMark(m)>>
        BY <2>8 DEF Cut, Piece
      <4>3. QED
        BY <4>1, <4>2, Zenon
    <3> DEFINE t == Piece(line, before, pin)
    <3> HIDE DEF t
    <3>3. t \in Seq(Chars) /\ a[m].out = before.out \o t \o <<PinMark(m)>>
      BY <3>1, <3>2 DEF t
    <3>4. QED
      BY <2>5, <2>8, <3>3 DEF out
  <2>9. QED
    BY <2>7, <2>8 DEF out
<1> HIDE DEF a, out

\* A piece of text and a later mark behind it hold no mark of pin k.
<1>4. ASSUME NEW m \in 1 .. n, NEW t \in Seq(Chars), out(m) = out(m - 1) \o t \o <<PinMark(m)>>
      PROVE  /\ Len(out(m)) = Len(out(m - 1)) + Len(t) + 1
             /\ out(m)[Len(out(m))] = PinMark(m)
             /\ \A x \in 1 .. Len(out(m - 1)) : out(m)[x] = out(m - 1)[x]
             /\ \A x \in Len(out(m - 1)) + 1 .. Len(out(m)) - 1 : out(m)[x] \in Chars
  <2>1. m - 1 \in 0 .. n /\ m \in 0 .. n
    BY <1>1
  <2>2. out(m - 1) \in Seq(Glyphs) /\ t \in Seq(Glyphs) /\ PinMark(m) \in Glyphs
    BY <1>2, <2>1 DEF Glyphs, Marks
  <2> DEFINE l == Len(out(m - 1))
  <2>3. /\ Len(out(m)) = l + Len(t) + 1
        /\ out(m)[Len(out(m))] = PinMark(m)
        /\ \A x \in 1 .. l : out(m)[x] = out(m - 1)[x]
        /\ \A x \in l + 1 .. l + Len(t) : out(m)[x] = t[x - l]
    BY <1>4, <2>2
  <2>4. l \in Nat /\ Len(t) \in Nat /\ \A x \in 1 .. Len(t) : t[x] \in Chars
    BY <2>2
  <2> HIDE DEF l
  <2>5. \A x \in l + 1 .. Len(out(m)) - 1 : x \in l + 1 .. l + Len(t) /\ x - l \in 1 .. Len(t)
    BY <2>3, <2>4
  <2>6. QED
    BY <2>3, <2>4, <2>5 DEF l
<1>5. \A m \in 0 .. n, x \in Nat : m < k /\ x \in 1 .. Len(out(m)) => out(m)[x] # PinMark(k)
  <2> TAKE m \in 0 .. n, x \in Nat
  <2> SUFFICES ASSUME m < k, x \in 1 .. Len(out(m)), out(m)[x] = PinMark(k)
               PROVE  FALSE
    OBVIOUS
  <2>1. out(m)[x] \in Chars \/ \E q \in 1 .. m : out(m)[x] = PinMark(q)
    BY <1>2 DEF Sound, out
  <2>2. PinMark(k) \notin Chars
    BY <1>1, MarksApart DEF Marks
  <2>3. QED
    BY <1>1, <2>1, <2>2, MarksApart
<1>6. /\ Len(out(k)) >= 1 /\ out(k)[Len(out(k))] = PinMark(k)
      /\ Front1(k + 0)
  <2>1. PICK t \in Seq(Chars) : out(k) = out(k - 1) \o t \o <<PinMark(k)>>
    BY <1>3
  <2>2. /\ Len(out(k)) = Len(out(k - 1)) + Len(t) + 1
        /\ out(k)[Len(out(k))] = PinMark(k)
        /\ \A x \in Len(out(k - 1)) + 1 .. Len(out(k)) - 1 : out(k)[x] \in Chars
        /\ \A x \in 1 .. Len(out(k - 1)) : out(k)[x] = out(k - 1)[x]
    BY <1>4, <2>1
  <2>3. Len(out(k - 1)) \in Nat /\ Len(t) \in Nat /\ k - 1 < k /\ k + 0 = k
    BY <1>1, <1>2
  <2>4. ASSUME NEW x \in 1 .. Len(out(k)), out(k)[x] = PinMark(k)
        PROVE  x = Len(out(k))
    <3>1. x \notin 1 .. Len(out(k - 1))
      <4> SUFFICES ASSUME x \in 1 .. Len(out(k - 1))
                   PROVE  FALSE
        OBVIOUS
      <4>1. k - 1 \in 0 .. n /\ k - 1 < k /\ x \in Nat
        BY <1>1, <2>3
      <4>2. out(k - 1)[x] # PinMark(k)
        BY <1>5, <4>1
      <4>3. out(k)[x] = out(k - 1)[x]
        BY <2>2
      <4>4. QED
        BY <2>4, <4>2, <4>3
    <3>2. x \notin Len(out(k - 1)) + 1 .. Len(out(k)) - 1
      BY <1>1, <2>2, <2>4, MarksApart DEF Marks
    <3>3. QED
      <4>1. Len(out(k)) = Len(out(k - 1)) + Len(t) + 1
        BY <2>2
      <4>2. x \in 1 .. Len(out(k))
        BY <2>4
      <4>3. \/ x \in 1 .. Len(out(k - 1)) \/ x = Len(out(k))
            \/ x \in Len(out(k - 1)) + 1 .. Len(out(k)) - 1
        BY <2>3, <4>1, <4>2, LastPlace
      <4>4. QED
        BY <3>1, <3>2, <4>3
  <2>5. QED
    BY <2>2, <2>3, <2>4
<1>7. ASSUME NEW m \in bad, m - 1 \in Nat
      PROVE  m - 1 \in bad
  <2>1. k + m \in 1 .. n /\ k + (m - 1) = (k + m) - 1 /\ k + (m - 1) <= n /\ k + m > k
    BY <1>1, <1>7
  <2> SUFFICES ASSUME Front1((k + m) - 1)
               PROVE  Front1(k + m)
    <3>1. m - 1 \in Nat /\ ~Front1(k + m)
      BY <1>7
    <3> HIDE DEF Front1
    <3>2. QED
      BY <2>1, <3>1
  <2>2. CASE anchors[k + m].paragraph # i
    <3>1. out(k + m) = out((k + m) - 1)
      BY <1>3, <2>1, <2>2
    <3>2. QED
      BY <3>1
  <2>3. CASE anchors[k + m].paragraph = i
    <3> DEFINE q == k + m
    <3>1. PICK t \in Seq(Chars) : out(q) = out(q - 1) \o t \o <<PinMark(q)>>
      BY <1>3, <2>1, <2>3
    <3>2. q \in 1 .. n /\ q # k /\ q \in Nat
      BY <1>1, <2>1
    <3> HIDE DEF q
    <3>3. /\ Len(out(q)) = Len(out(q - 1)) + Len(t) + 1
          /\ out(q)[Len(out(q))] = PinMark(q)
          /\ \A x \in 1 .. Len(out(q - 1)) : out(q)[x] = out(q - 1)[x]
          /\ \A x \in Len(out(q - 1)) + 1 .. Len(out(q)) - 1 : out(q)[x] \in Chars
      BY <1>4, <3>1, <3>2
    <3>4. Len(out(q - 1)) \in Nat /\ Len(t) \in Nat /\ Len(out(k)) \in Nat
      <4>1. q - 1 \in 0 .. n /\ k \in 0 .. n
        BY <1>1, <3>2
      <4>2. QED
        BY <1>2, <4>1
    <3>5. Front1(q - 1)
      BY DEF q
    <3>6. PinMark(q) # PinMark(k) /\ PinMark(k) \notin Chars
      BY <1>1, <3>2, MarksApart DEF Marks
    <3>7. ASSUME NEW x \in 1 .. Len(out(q)), out(q)[x] = PinMark(k)
          PROVE  x = Len(out(k))
      <4>1. x # Len(out(q)) /\ x \notin Len(out(q - 1)) + 1 .. Len(out(q)) - 1
        BY <3>3, <3>6, <3>7
      <4>2. x \in 1 .. Len(out(q - 1))
        <5>1. Len(out(q)) = Len(out(q - 1)) + Len(t) + 1
          BY <3>3
        <5>2. x \in 1 .. Len(out(q))
          BY <3>7
        <5>3. QED
          BY <3>4, <4>1, <5>1, <5>2, LastPlace
      <4>3. QED
        BY <3>3, <3>5, <3>7, <4>2
    <3>8. Front1(q)
      BY <3>3, <3>4, <3>5, <3>7
    <3>9. QED
      BY <3>8 DEF q
  <2>4. QED
    BY <2>2, <2>3
<1> HIDE DEF Front1
<1>8. bad \in SUBSET Nat /\ 0 \notin bad /\ \A m \in bad : m - 1 \in Nat => m - 1 \in bad
  BY <1>6, <1>7
<1> HIDE DEF bad
<1>9. bad = {}
  BY <1>8, NoLeast
<1>10. Front1(j)
  <2>1. j - k \in Nat /\ k + (j - k) = j /\ j <= n
    BY <1>1
  <2>2. QED
    BY <1>9, <2>1 DEF bad
<1>11. QED
  BY <1>6, <1>10 DEF Front1, out, a, Fronts

-----------------------------------------------------------------------------
(* Lines with their pins *)

\* What follows the last pin, and the line it makes.
Behind(line, part) == SubSeq(line, part.prev + 1, Len(line))

IsWhole(whole, line, part, n) ==
  /\ Sound(part, line, n) /\ part.out \in Seq(Glyphs)
  /\ part.prev \in Nat /\ part.prev <= Len(line)
  /\ Behind(line, part) \in Seq(Chars) /\ Len(Behind(line, part)) = Len(line) - part.prev
  /\ \A j \in 1 .. Len(line) - part.prev : Behind(line, part)[j] = line[part.prev + j]
  /\ whole = part.out \o Behind(line, part) /\ whole \in Seq(Glyphs)

\* The line with its pins: what they have placed, and what follows the last.
LEMMA SplicedIs ==
  ASSUME NEW i, NEW line \in Seq(Chars), NEW anchors \in Seq(Anchor), Fits(i, line, anchors)
  PROVE  IsWhole(Spliced(i, line, anchors), line, Placed(i, line, anchors)[Len(anchors)],
                 Len(anchors))
<1> DEFINE n == Len(anchors)
           part == Placed(i, line, anchors)[n]
<1>1. Sound(part, line, n)
  <2>1. n \in 0 .. Len(anchors)
    OBVIOUS
  <2>2. QED
    BY <2>1, PlacedSound
<1>2. part.out \in Seq(Glyphs) /\ part.prev \in Nat /\ part.prev <= Len(line)
  <2> HIDE DEF part
  <2>1. QED
    BY <1>1 DEF Sound, Parts
<1>3. Spliced(i, line, anchors) = part.out \o Behind(line, part)
  BY DEF Spliced, Behind
<1> HIDE DEF part
<1> DEFINE from == part.prev + 1
           x == SubSeq(line, from, Len(line))
<1>4. from \in Nat /\ from >= 1 /\ from <= Len(line) + 1 /\ Len(line) \in Nat
  BY <1>2
<1> HIDE DEF from
<1>5. /\ x \in Seq(Chars) /\ Len(x) = Len(line) - from + 1
      /\ \A j \in 1 .. Len(line) - from + 1 : x[j] = line[from + j - 1]
  <2>1. \A j \in from .. Len(line) : line[j] \in Chars
    BY <1>4
  <2>2. CASE from = Len(line) + 1
    BY <1>4, <2>2
  <2>3. CASE from <= Len(line)
    BY <1>4, <2>1, <2>3
  <2>4. QED
    BY <1>4, <2>2, <2>3
<1> HIDE DEF x
<1>6. x = Behind(line, part)
  BY DEF x, from, Behind
<1>7. /\ Behind(line, part) \in Seq(Chars) /\ Len(Behind(line, part)) = Len(line) - part.prev
      /\ \A j \in 1 .. Len(line) - part.prev : Behind(line, part)[j] = line[part.prev + j]
  <2>1. from = part.prev + 1
    BY DEF from
  <2>2. \A j \in 1 .. Len(line) - part.prev : from + j - 1 = part.prev + j
    BY <1>2, <1>4, <2>1
  <2>3. Len(line) - from + 1 = Len(line) - part.prev
    BY <1>2, <1>4, <2>1
  <2>4. QED
    BY <1>5, <1>6, <2>2, <2>3
<1>8. part.out \o Behind(line, part) \in Seq(Glyphs)
  <2>1. Behind(line, part) \in Seq(Glyphs)
    BY <1>7 DEF Glyphs
  <2>2. QED
    BY <1>2, <2>1
<1>9. QED
  BY <1>1, <1>2, <1>3, <1>7, <1>8 DEF part, IsWhole

\* A line up to and with the mark of pin k.
UpTo(whole, k) == SubSeq(whole, 1, CHOOSE j \in DOMAIN whole : whole[j] = PinMark(k))

\* What the screen shows of the line up to and with a pin is what the pin and
\* those before it have placed.
LEMMA LeftIs ==
  ASSUME NEW i, NEW line \in Seq(Chars), NEW anchors \in Seq(Anchor),
         NEW k \in 1 .. Len(anchors), Fits(i, line, anchors), anchors[k].paragraph = i
  PROVE  UpTo(Spliced(i, line, anchors), k) = Placed(i, line, anchors)[k].out
<1> DEFINE n == Len(anchors)
           part == Placed(i, line, anchors)[n]
           left == Placed(i, line, anchors)[k].out
           whole == Spliced(i, line, anchors)
           rest == Behind(line, part)
<1>1. /\ part.out \in Seq(Glyphs) /\ rest \in Seq(Chars)
      /\ whole = part.out \o rest /\ whole \in Seq(Glyphs)
  BY SplicedIs DEF IsWhole
<1>2. left \in Seq(Glyphs)
  <2>1. k \in 0 .. Len(anchors)
    OBVIOUS
  <2>2. Sound(Placed(i, line, anchors)[k], line, k)
    BY <2>1, PlacedSound
  <2>3. QED
    BY <2>2 DEF Sound, Parts
<1>3. /\ Len(left) >= 1 /\ left[Len(left)] = PinMark(k) /\ Len(part.out) >= Len(left)
      /\ \A x \in 1 .. Len(left) : part.out[x] = left[x]
      /\ \A x \in 1 .. Len(part.out) : part.out[x] = PinMark(k) => x = Len(left)
  <2>1. n \in k .. Len(anchors)
    OBVIOUS
  <2>2. QED
    <3>1. Fronts(Placed(i, line, anchors)[k].out, Placed(i, line, anchors)[n].out, k)
      BY <2>1, FrontStays
    <3>2. QED
      BY <3>1 DEF Fronts
<1> HIDE DEF part, left, whole, rest, n
<1>4. k \in Nat /\ Len(left) \in Nat /\ Len(part.out) \in Nat /\ Len(rest) \in Nat
  BY <1>1, <1>2
<1>5. /\ Len(whole) = Len(part.out) + Len(rest) /\ DOMAIN whole = 1 .. Len(whole)
      /\ \A x \in 1 .. Len(part.out) : whole[x] = part.out[x]
      /\ \A x \in Len(part.out) + 1 .. Len(part.out) + Len(rest) :
           whole[x] = rest[x - Len(part.out)]
  <2>1. rest \in Seq(Glyphs)
    BY <1>1 DEF Glyphs
  <2>2. QED
    BY <1>1, <2>1
<1>6. ASSUME NEW x \in DOMAIN whole, whole[x] = PinMark(k)
      PROVE  x = Len(left)
  <2>1. CASE x \in 1 .. Len(part.out)
    BY <1>3, <1>5, <1>6, <2>1
  <2>2. CASE x \in Len(part.out) + 1 .. Len(part.out) + Len(rest)
    <3>1. x - Len(part.out) \in 1 .. Len(rest)
      BY <1>4, <2>2
    <3>2. whole[x] \in Chars
      BY <1>1, <1>5, <2>2, <3>1
    <3>3. QED
      BY <1>4, <1>6, <3>2, MarksApart DEF Marks
  <2>3. QED
    BY <1>4, <1>5, <2>1, <2>2
<1>7. Len(left) \in DOMAIN whole /\ whole[Len(left)] = PinMark(k)
  <2>1. Len(left) \in 1 .. Len(part.out) /\ Len(left) \in 1 .. Len(left)
    BY <1>3, <1>4
  <2>2. Len(left) \in DOMAIN whole
    BY <1>4, <1>5, <2>1
  <2>3. QED
    BY <1>3, <1>5, <2>1, <2>2
<1>8. (CHOOSE j \in DOMAIN whole : whole[j] = PinMark(k)) = Len(left)
  BY <1>6, <1>7
<1>9. SubSeq(whole, 1, Len(left)) = left
  <2> DEFINE x == SubSeq(whole, 1, Len(left))
  <2>1. Len(left) <= Len(whole)
    BY <1>3, <1>4, <1>5
  <2>2. /\ x \in Seq(Glyphs) /\ Len(x) = Len(left)
        /\ \A j \in 1 .. Len(left) : x[j] = whole[j]
    <3>1. PICK w \in Nat : w = Len(left) /\ w <= Len(whole)
      BY <1>4, <2>1
    <3>2. PICK all \in Seq(Glyphs) : all = whole
      BY <1>1
    <3>3. /\ SubSeq(all, 1, w) \in Seq(Glyphs) /\ Len(SubSeq(all, 1, w)) = w
          /\ \A j \in 1 .. w : SubSeq(all, 1, w)[j] = all[j]
      BY <3>1, <3>2
    <3>4. QED
      BY <3>1, <3>2, <3>3
  <2>3. \A j \in 1 .. Len(left) : j \in 1 .. Len(part.out)
    BY <1>3, <1>4
  <2>4. \A j \in 1 .. Len(left) : x[j] = left[j]
    BY <1>3, <1>5, <2>2, <2>3
  <2> HIDE DEF x
  <2>5. x = left
    BY <1>2, <2>2, <2>4, SeqEqual
  <2>6. QED
    BY <2>5 DEF x
<1>10. QED
  BY <1>8, <1>9 DEF left, whole, UpTo

\* Two texts put together.
LEMMA Concat ==
  ASSUME NEW a \in Seq(Chars), NEW b \in Seq(Chars)
  PROVE  /\ a \o b \in Seq(Chars) /\ Len(a \o b) = Len(a) + Len(b)
         /\ \A j \in 1 .. Len(a) : (a \o b)[j] = a[j]
         /\ \A j \in Len(a) + 1 .. Len(a) + Len(b) : (a \o b)[j] = b[j - Len(a)]
OBVIOUS

\* Two ways to put three texts together.
LEMMA Joined ==
  ASSUME NEW a \in Seq(Glyphs), NEW b \in Seq(Glyphs), NEW c \in Seq(Glyphs)
  PROVE  (a \o b) \o c = a \o (b \o c)
OBVIOUS

\* What is behind a place of a line grows with the line.
IsBehind(rest, line, v) ==
  /\ rest \in Seq(Chars) /\ Len(rest) = Len(line) - v
  /\ \A j \in 1 .. Len(line) - v : rest[j] = line[v + j]

IsJoin(whole, left, right) ==
  /\ whole \in Seq(Chars) /\ Len(whole) = Len(left) + Len(right)
  /\ \A j \in 1 .. Len(left) : whole[j] = left[j]
  /\ \A j \in Len(left) + 1 .. Len(left) + Len(right) : whole[j] = right[j - Len(left)]

LEMMA BehindGrows ==
  ASSUME NEW line \in Seq(Chars), NEW extra \in Seq(Chars), NEW longer, NEW v \in Nat,
         NEW a, NEW b, NEW c, IsJoin(longer, line, extra), IsJoin(c, a, extra),
         v <= Len(line), IsBehind(a, line, v), IsBehind(b, longer, v)
  PROVE  c = b
<1>1. PICK u \in Nat, w \in Nat :
        u = Len(line) /\ w = Len(extra) /\ v <= u /\ Len(longer) = u + w
  <2>1. Len(line) \in Nat /\ Len(extra) \in Nat
    OBVIOUS
  <2>2. QED
    BY <2>1 DEF IsJoin
<1>2. PICK m \in Nat : m = u - v /\ m + w = (u + w) - v
  BY <1>1
<1>3. /\ \A j \in 1 .. u : longer[j] = line[j]
      /\ \A j \in u + 1 .. u + w : longer[j] = extra[j - u]
  BY <1>1 DEF IsJoin
<1>4. /\ a \in Seq(Chars) /\ b \in Seq(Chars) /\ Len(a) = m /\ Len(b) = m + w
      /\ \A j \in 1 .. m : a[j] = line[v + j]
      /\ \A j \in 1 .. m + w : b[j] = longer[v + j]
  BY <1>1, <1>2 DEF IsBehind
<1>5. /\ c \in Seq(Chars) /\ Len(c) = m + w
      /\ \A j \in 1 .. m : c[j] = a[j]
      /\ \A j \in m + 1 .. m + w : c[j] = extra[j - m]
  BY <1>1, <1>4 DEF IsJoin
<1>6. ASSUME NEW j \in 1 .. m + w
      PROVE  c[j] = b[j]
  <2>1. b[j] = longer[v + j]
    BY <1>4
  <2>2. CASE j \in 1 .. m
    <3>1. v + j \in 1 .. u
      BY <1>1, <1>2, <2>2
    <3>2. c[j] = line[v + j]
      BY <1>4, <1>5, <2>2
    <3>3. QED
      BY <1>3, <2>1, <3>1, <3>2
  <2>3. CASE j \in m + 1 .. m + w
    <3>1. v + j \in u + 1 .. u + w /\ (v + j) - u = j - m
      BY <1>1, <1>2, <2>3
    <3>2. longer[v + j] = extra[j - m]
      BY <1>3, <3>1
    <3>3. c[j] = extra[j - m]
      BY <1>5, <2>3
    <3>4. QED
      BY <2>1, <3>2, <3>3
  <2>4. QED
    BY <2>2, <2>3
<1>7. QED
  BY <1>4, <1>5, <1>6, SeqEqual

\* Text at the end of a line comes behind its pins.
LEMMA SplicedGrows ==
  ASSUME NEW i, NEW line \in Seq(Chars), NEW extra \in Seq(Chars), NEW anchors \in Seq(Anchor),
         Fits(i, line, anchors)
  PROVE  /\ Fits(i, line \o extra, anchors)
         /\ Spliced(i, line \o extra, anchors) = Spliced(i, line, anchors) \o extra
<1> DEFINE n == Len(anchors)
           longer == line \o extra
           part == Placed(i, line, anchors)[n]
           x == Behind(line, part) \o extra
           y == Behind(longer, part)
<1>1. /\ longer \in Seq(Chars) /\ Len(longer) = Len(line) + Len(extra)
      /\ \A j \in 1 .. Len(line) : longer[j] = line[j]
      /\ \A j \in Len(line) + 1 .. Len(line) + Len(extra) : longer[j] = extra[j - Len(line)]
      /\ Len(line) \in Nat /\ Len(extra) \in Nat /\ Len(line) <= Len(longer)
  OBVIOUS
<1>2. n \in 0 .. Len(anchors)
  OBVIOUS
<1> HIDE DEF longer
<1>3. Fits(i, longer, anchors)
  <2> SUFFICES ASSUME NEW k \in 1 .. Len(anchors), anchors[k].paragraph = i
               PROVE  anchors[k].offset <= Len(longer)
    BY DEF Fits
  <2>1. anchors[k].offset <= Len(line)
    BY DEF Fits
  <2>2. anchors[k] \in Anchor
    OBVIOUS
  <2>3. anchors[k].offset \in Nat
    BY <2>2 DEF Anchor
  <2>4. QED
    BY <1>1, <2>1, <2>3
<1>4. Placed(i, longer, anchors)[n] = part
  <2>1. Extends(anchors, anchors) /\ Extends(line, longer)
    BY <1>1 DEF Extends
  <2>2. QED
    BY <1>1, <1>2, <2>1, PlacedGrows
<1>5. /\ part.out \in Seq(Glyphs) /\ part.prev \in Nat /\ part.prev <= Len(line)
      /\ Behind(line, part) \in Seq(Chars) /\ Len(Behind(line, part)) = Len(line) - part.prev
      /\ \A j \in 1 .. Len(line) - part.prev : Behind(line, part)[j] = line[part.prev + j]
      /\ Spliced(i, line, anchors) = part.out \o Behind(line, part)
  BY SplicedIs DEF IsWhole
<1>6. /\ y \in Seq(Chars) /\ Len(y) = Len(longer) - part.prev
      /\ \A j \in 1 .. Len(longer) - part.prev : y[j] = longer[part.prev + j]
      /\ Spliced(i, longer, anchors) = part.out \o y
  <2>1. IsWhole(Spliced(i, longer, anchors), longer, part, n)
    BY <1>1, <1>3, <1>4, SplicedIs
  <2> HIDE DEF part
  <2>2. QED
    BY <2>1 DEF IsWhole
<1> HIDE DEF part
<1> DEFINE t == Behind(line, part)
<1>7. x = y
  <2>1. IsBehind(t, line, part.prev)
    BY <1>5 DEF IsBehind
  <2>2. IsBehind(y, longer, part.prev)
    BY <1>6 DEF IsBehind
  <2>3. IsJoin(longer, line, extra)
    BY <1>1 DEF IsJoin
  <2>4. t \in Seq(Chars) /\ x = t \o extra
    BY <1>5
  <2> HIDE DEF t, y
  <2>5. IsJoin(t \o extra, t, extra)
    BY <2>4, Concat DEF IsJoin
  <2> HIDE DEF x
  <2>6. IsJoin(x, t, extra)
    BY <2>4, <2>5
  <2>7. QED
    BY <1>5, <2>1, <2>2, <2>3, <2>6, BehindGrows
<1>8. part.out \o x = (part.out \o t) \o extra
  <2>1. t \in Seq(Glyphs) /\ extra \in Seq(Glyphs)
    BY <1>5 DEF Glyphs
  <2>2. x = t \o extra
    BY DEF t
  <2> HIDE DEF t, x
  <2>3. QED
    BY <1>5, <2>1, <2>2, Joined
<1>9. QED
  <2>1. Spliced(i, longer, anchors) = part.out \o x
    BY <1>6, <1>7
  <2>2. Spliced(i, line, anchors) = part.out \o t
    BY <1>5
  <2> HIDE DEF x, t, part
  <2>3. QED
    BY <1>3, <1>8, <2>1, <2>2 DEF longer

\* One pin more: what those before it have placed is as it was.
LEMMA OnePinMore ==
  ASSUME NEW i, NEW line \in Seq(Chars), NEW anchors \in Seq(Anchor), NEW pin \in Anchor,
         Fits(i, line, anchors), pin.paragraph = i => pin.offset <= Len(line)
  PROVE  LET n == Len(anchors)
             more == Append(anchors, pin)
         IN  /\ more \in Seq(Anchor) /\ Len(more) = n + 1 /\ Fits(i, line, more)
             /\ Placed(i, line, more)[n + 1]
                  = Cut(i, line, pin, PinMark(n + 1), Placed(i, line, anchors)[n])
<1> DEFINE n == Len(anchors)
           more == Append(anchors, pin)
<1>1. /\ more \in Seq(Anchor) /\ Len(more) = n + 1 /\ n \in Nat /\ n \in 0 .. Len(anchors)
      /\ more[n + 1] = pin /\ \A k \in 1 .. n : more[k] = anchors[k]
      /\ n + 1 \in 1 .. Len(more) /\ (n + 1) - 1 = n /\ n <= Len(more)
  OBVIOUS
<1> HIDE DEF more
<1>2. Fits(i, line, more)
  <2> SUFFICES ASSUME NEW k \in 1 .. n + 1, more[k].paragraph = i
               PROVE  more[k].offset <= Len(line)
    BY <1>1 DEF Fits
  <2>1. CASE k = n + 1
    BY <1>1, <2>1
  <2>2. CASE k # n + 1
    <3>1. k \in 1 .. n
      BY <1>1, <2>2
    <3>2. QED
      BY <1>1, <3>1 DEF Fits
  <2>3. QED
    BY <2>1, <2>2
<1>3. Placed(i, line, more)[n] = Placed(i, line, anchors)[n]
  <2>1. Extends(line, line) /\ Extends(anchors, more)
    BY <1>1 DEF Extends
  <2>2. QED
    BY <1>1, <2>1, PlacedGrows
<1>4. Placed(i, line, more)[n + 1]
        = Cut(i, line, more[n + 1], PinMark(n + 1), Placed(i, line, more)[(n + 1) - 1])
  BY <1>1, PlacedIs
<1>5. QED
  BY <1>1, <1>2, <1>3, <1>4 DEF more

\* A pin at the end of a line follows what the line shows, less what closes it.
LEMMA SplicedPin ==
  ASSUME NEW i \in Nat, NEW line \in Seq(Chars), NEW anchors \in Seq(Anchor),
         Fits(i, line, anchors)
  PROVE  Spliced(i, line, Append(anchors, [paragraph |-> i, offset |-> Len(line)]))
           = Append(Stripped(Spliced(i, line, anchors)), PinMark(Len(anchors) + 1))
<1> DEFINE n == Len(anchors)
           pin == [paragraph |-> i, offset |-> Len(line)]
           more == Append(anchors, pin)
           part == Placed(i, line, anchors)[n]
           last == Placed(i, line, more)[n + 1]
           t == Behind(line, part)
           mark == PinMark(n + 1)
<1>1. pin \in Anchor /\ pin.paragraph = i /\ pin.offset = Len(line) /\ Len(line) \in Nat
  BY DEF Anchor
<1>2. /\ Sound(part, line, n) /\ part.out \in Seq(Glyphs) /\ t \in Seq(Chars)
      /\ Spliced(i, line, anchors) = part.out \o t
  BY SplicedIs DEF IsWhole
<1>3. /\ more \in Seq(Anchor) /\ Len(more) = n + 1 /\ Fits(i, line, more)
      /\ last = Cut(i, line, pin, mark, part)
  <2> HIDE DEF pin
  <2>1. pin.paragraph = i => pin.offset <= Len(line)
    BY <1>1
  <2>2. QED
    BY <1>1, <2>1, OnePinMore
<1>4. Spliced(i, line, more) = last.out \o Behind(line, last)
  <2>1. IsWhole(Spliced(i, line, more), line, Placed(i, line, more)[Len(more)], Len(more))
    BY <1>3, SplicedIs
  <2>2. Placed(i, line, more)[Len(more)] = last
    BY <1>3
  <2> HIDE DEF last
  <2>3. QED
    BY <2>1, <2>2 DEF IsWhole
<1>5. Cut(i, line, pin, mark, part).out = part.out \o Stripped(t) \o <<mark>>
  <2> HIDE DEF pin, part
  <2>1. t = SubSeq(line, part.prev + 1, pin.offset)
    BY <1>1 DEF Behind
  <2> HIDE DEF t, mark
  <2>2. QED
    BY <1>1, <2>1 DEF Cut
<1>6. Cut(i, line, pin, mark, part).prev = Len(line)
  <2> HIDE DEF pin, part, mark
  <2>1. QED
    BY <1>1 DEF Cut
<1> HIDE DEF pin, more, part, last, t
<1>7. Behind(line, last) = <<>>
  <2>1. last.prev = Len(line)
    BY <1>3, <1>6
  <2>2. SubSeq(line, Len(line) + 1, Len(line)) = <<>>
    OBVIOUS
  <2>3. QED
    BY <2>1, <2>2 DEF Behind
<1>8. Stripped(t) \in Seq(Glyphs) /\ t \in Seq(Glyphs) /\ mark \in Glyphs
  <2>1. Stripped(t) \in Seq(Chars)
    BY <1>2, StrippedType
  <2>2. n + 1 \in Nat
    OBVIOUS
  <2>3. QED
    BY <1>2, <2>1, <2>2 DEF Glyphs, Marks
<1>9. Stripped(part.out \o t) = part.out \o Stripped(t)
  <2>1. part.out = <<>> \/ part.out[Len(part.out)] # Punct
    BY <1>2, MarksApart DEF Sound
  <2>2. QED
    BY <1>2, <1>8, <2>1, StrippedAfter
<1>10. part.out \o Stripped(t) \in Seq(Glyphs)
  BY <1>2, <1>8
<1> DEFINE shown == part.out \o Stripped(t)
<1>11. last.out = shown \o <<mark>>
  BY <1>3, <1>5
<1>12. Stripped(Spliced(i, line, anchors)) = shown
  BY <1>2, <1>9
<1> HIDE DEF shown, mark
<1>13. Spliced(i, line, more) = Append(shown, mark)
  <2>1. shown \in Seq(Glyphs)
    BY <1>10 DEF shown
  <2>2. (shown \o <<mark>>) \o <<>> = Append(shown, mark)
    BY <1>8, <2>1
  <2>3. QED
    BY <1>4, <1>7, <1>11, <2>2
<1>14. QED
  BY <1>12, <1>13 DEF more, pin, mark

\* A pin on another line changes nothing.
LEMMA SplicedOther ==
  ASSUME NEW i, NEW line \in Seq(Chars), NEW anchors \in Seq(Anchor), NEW pin \in Anchor,
         Fits(i, line, anchors), pin.paragraph # i
  PROVE  Spliced(i, line, Append(anchors, pin)) = Spliced(i, line, anchors)
<1> DEFINE n == Len(anchors)
           more == Append(anchors, pin)
           part == Placed(i, line, anchors)[n]
<1>1. /\ more \in Seq(Anchor) /\ Len(more) = n + 1 /\ Fits(i, line, more)
      /\ Placed(i, line, more)[n + 1] = Cut(i, line, pin, PinMark(n + 1), part)
  BY OnePinMore
<1>2. Spliced(i, line, anchors) = part.out \o Behind(line, part)
  BY SplicedIs DEF IsWhole
<1> HIDE DEF more, part
<1>3. Placed(i, line, more)[n + 1] = part
  BY <1>1 DEF Cut
<1>4. Spliced(i, line, more) = part.out \o Behind(line, part)
  <2>1. IsWhole(Spliced(i, line, more), line, Placed(i, line, more)[Len(more)], Len(more))
    BY <1>1, SplicedIs
  <2>2. Placed(i, line, more)[Len(more)] = part
    BY <1>1, <1>3
  <2>3. QED
    BY <2>1, <2>2 DEF IsWhole
<1>5. QED
  BY <1>2, <1>4 DEF more

\* A line with text or pins shows something.
LEMMA SplicedSome ==
  ASSUME NEW i, NEW line \in Seq(Chars), NEW anchors \in Seq(Anchor), Fits(i, line, anchors),
         line # <<>> \/ \E k \in 1 .. Len(anchors) : anchors[k].paragraph = i
  PROVE  Spliced(i, line, anchors) # <<>>
<1> DEFINE n == Len(anchors)
           part == Placed(i, line, anchors)[n]
           t == Behind(line, part)
<1>1. CASE \A k \in 1 .. Len(anchors) : anchors[k].paragraph # i
  BY <1>1, NoneOnLine
<1>2. CASE \E k \in 1 .. Len(anchors) : anchors[k].paragraph = i
  <2>1. PICK k \in 1 .. Len(anchors) : anchors[k].paragraph = i
    BY <1>2
  <2>2. n \in k .. Len(anchors)
    OBVIOUS
  <2>3. Fronts(Placed(i, line, anchors)[k].out, part.out, k)
    BY <2>1, <2>2, FrontStays
  <2>4. /\ part.out \in Seq(Glyphs) /\ t \in Seq(Chars)
        /\ Spliced(i, line, anchors) = part.out \o t
    BY SplicedIs DEF IsWhole
  <2>5. Len(Placed(i, line, anchors)[k].out) \in Nat
    <3>1. k \in 0 .. Len(anchors)
      OBVIOUS
    <3>2. Sound(Placed(i, line, anchors)[k], line, k)
      BY <3>1, PlacedSound
    <3>3. Placed(i, line, anchors)[k].out \in Seq(Glyphs)
      BY <3>2 DEF Sound, Parts
    <3>4. QED
      BY <3>3
  <2> HIDE DEF part, t
  <2>6. Len(part.out) >= 1 /\ t \in Seq(Glyphs)
    BY <2>3, <2>4, <2>5 DEF Fronts, Glyphs
  <2>7. Len(part.out \o t) >= 1
    BY <2>4, <2>6
  <2>8. QED
    BY <2>4, <2>7
<1>3. QED
  BY <1>1, <1>2

-----------------------------------------------------------------------------
(* Where the pins lie *)

TextType ==
  /\ paragraphs \in Seq(Seq(Chars)) /\ pins \in Seq(Anchor)
  /\ {current, partial, snapshot} \subseteq Seq(Chars)
  /\ heard \in Nat /\ settled \in Nat

\* A pin lies on a closed line or the current one, and on the text it has.
\* None is on an empty current line once a line has been closed: with nothing
\* said since the last mark a press goes to the last closed line.
PinsLie ==
  /\ \A k \in 1 .. Len(pins) :
       /\ pins[k].paragraph \in 1 .. Len(paragraphs) + 1
       /\ pins[k].offset <= Len(Line(pins[k].paragraph))
  /\ current = <<>> /\ paragraphs # <<>> =>
       \A k \in 1 .. Len(pins) : pins[k].paragraph <= Len(paragraphs)

TextInv == TextType /\ PinsLie

\* The lines there are.
LEMMA Lines ==
  ASSUME TextType
  PROVE  /\ Len(paragraphs) \in Nat
         /\ \A i \in 1 .. Len(paragraphs) : Line(i) = paragraphs[i]
         /\ Line(Len(paragraphs) + 1) = current
         /\ \A i \in 1 .. Len(paragraphs) + 1 : Line(i) \in Seq(Chars)
<1>1. Len(paragraphs) \in Nat /\ paragraphs \in Seq(Seq(Chars)) /\ current \in Seq(Chars)
  BY DEF TextType
<1>2. ~(Len(paragraphs) + 1 <= Len(paragraphs))
  BY <1>1
<1>3. ASSUME NEW i \in 1 .. Len(paragraphs) + 1
      PROVE  Line(i) \in Seq(Chars)
  <2>1. i <= Len(paragraphs) => i \in 1 .. Len(paragraphs)
    BY <1>1
  <2>2. QED
    BY <1>1, <2>1 DEF Line
<1>4. QED
  BY <1>1, <1>2, <1>3 DEF Line

\* The pins fit every line.
LEMMA PinsFit ==
  ASSUME TextInv, NEW i
  PROVE  Fits(i, Line(i), pins)
BY DEF TextInv, PinsLie, Fits

\* What the recogniser says is text.
LEMMA FramesAreText ==
  ASSUME NEW frame \in Frames
  PROVE  frame \in Seq(Chars)
<1>1. PICK n \in 0 .. 2 : frame \in [1 .. n -> {Word(1), Punct}]
  BY DEF Frames
<1>2. Word(1) \in Chars /\ Punct \in Chars
  BY DEF Chars
<1>3. n \in Nat /\ frame \in [1 .. n -> Chars]
  BY <1>1, <1>2
<1>4. QED
  BY <1>3

\* So is the sentence so far, with or without its punctuation.
LEMMA SentencesAreText ==
  ASSUME NEW m \in Nat, NEW n \in Nat, NEW end \in {<<>>, <<Punct>>}, n > m
  PROVE  Sentence(m + 1, n) \in Seq(Chars) /\ Sentence(m + 1, n) \o end \in Seq(Chars)
<1> DEFINE size == n - (m + 1) + 1
           s == Sentence(m + 1, n)
<1>1. size \in Nat /\ \A i \in 1 .. size : (m + 1) + i - 1 \in Nat
  OBVIOUS
<1>2. s = [i \in 1 .. size |-> Word((m + 1) + i - 1)]
  BY DEF Sentence
<1> HIDE DEF s, size
<1>3. \A i \in 1 .. size : Word((m + 1) + i - 1) \in Chars
  BY <1>1 DEF Chars
<1>4. s \in Seq(Chars)
  BY <1>1, <1>2, <1>3
<1>5. end \in Seq(Chars)
  <2>1. Punct \in Chars
    BY DEF Chars
  <2>2. <<Punct>> \in Seq(Chars) /\ <<>> \in Seq(Chars)
    BY <2>1
  <2>3. QED
    BY <2>2
<1>6. s \o end \in Seq(Chars)
  BY <1>4, <1>5, Concat
<1>7. QED
  BY <1>4, <1>6 DEF s

\* Text that only grows at the end of the current line keeps the pins on it.
LEMMA LinesGrow ==
  ASSUME TextInv, NEW extra \in Seq(Chars),
         current' = current \o extra, UNCHANGED <<paragraphs, pins>>
  PROVE  /\ current' \in Seq(Chars) /\ PinsLie'
         /\ \A i \in 1 .. Len(paragraphs) : Line(i)' = Line(i)
         /\ Extends(current, current')
<1>1. /\ Len(paragraphs) \in Nat /\ current \in Seq(Chars)
      /\ \A i \in 1 .. Len(paragraphs) : Line(i) = paragraphs[i]
      /\ Line(Len(paragraphs) + 1) = current
  BY Lines DEF TextInv, TextType
<1>2. /\ current' \in Seq(Chars) /\ Len(current') = Len(current) + Len(extra)
      /\ \A j \in 1 .. Len(current) : current'[j] = current[j]
      /\ Len(current) \in Nat /\ Len(extra) \in Nat
  BY <1>1, Concat
<1>3. current' = <<>> => current = <<>>
  BY <1>1, <1>2
<1>4. \A i : Line(i)' = IF i <= Len(paragraphs) THEN paragraphs[i] ELSE current'
  BY DEF Line
<1>5. \A i \in 1 .. Len(paragraphs) : Line(i)' = Line(i)
  BY <1>1, <1>4
<1>6. Line(Len(paragraphs) + 1)' = current'
  BY <1>1, <1>4
<1>7. ASSUME NEW k \in 1 .. Len(pins)
      PROVE  pins[k].offset <= Len(Line(pins[k].paragraph)')
  <2>1. /\ pins[k].paragraph \in 1 .. Len(paragraphs) + 1
        /\ pins[k].offset <= Len(Line(pins[k].paragraph))
    BY DEF TextInv, PinsLie
  <2>2. pins[k] \in Anchor
    BY DEF TextInv, TextType
  <2>3. pins[k].offset \in Nat
    BY <2>2 DEF Anchor
  <2>4. CASE pins[k].paragraph \in 1 .. Len(paragraphs)
    BY <1>5, <2>1, <2>4
  <2>5. CASE pins[k].paragraph = Len(paragraphs) + 1
    BY <1>1, <1>2, <1>6, <2>1, <2>3, <2>5
  <2>6. QED
    BY <1>1, <2>1, <2>4, <2>5
<1>8. PinsLie'
  <2>1. /\ \A k \in 1 .. Len(pins) : pins[k].paragraph \in 1 .. Len(paragraphs) + 1
        /\ current = <<>> /\ paragraphs # <<>> =>
             \A k \in 1 .. Len(pins) : pins[k].paragraph <= Len(paragraphs)
    BY DEF TextInv, PinsLie
  <2>2. QED
    BY <1>3, <1>7, <2>1 DEF PinsLie
<1>9. QED
  BY <1>2, <1>5, <1>8 DEF Extends

\* What a step does to the text: the current line grows at its end, or it is
\* closed, or a pin is pressed.
Grows ==
  /\ \E extra \in Seq(Chars) : current' = current \o extra
  /\ UNCHANGED <<paragraphs, pins>> /\ {partial', snapshot'} \subseteq Seq(Chars)
Closes ==
  /\ paragraphs' = Append(paragraphs, current) /\ current # <<>> /\ current' = <<>>
  /\ UNCHANGED <<partial, snapshot, pins>>

\* A step that leaves the text alone adds nothing to it.
LEMMA TextStays ==
  ASSUME TextType, UNCHANGED text
  PROVE  Grows
<1>1. current \in Seq(Chars) /\ partial \in Seq(Chars) /\ snapshot \in Seq(Chars)
  BY DEF TextType
<1>2. current \o <<>> = current /\ <<>> \in Seq(Chars)
  BY <1>1
<1>3. QED
  BY <1>1, <1>2 DEF text, Grows

\* The freeze adds the draft, and freezes the lines that makes.
LEMMA FreezeGrows ==
  ASSUME TextType, Freeze
  PROVE  /\ Grows /\ current' = current \o partial
         /\ UNCHANGED <<paragraphs, pins>>
         /\ phase' = "frozen" => frozen' = Trimmed(Rendered(paragraphs, current \o partial, pins))
<1>1. partial \in Seq(Chars) /\ snapshot \in Seq(Chars)
  BY DEF TextType
<1>2. /\ current' = current \o partial /\ partial' = <<>>
      /\ UNCHANGED <<paragraphs, pins, snapshot>>
      /\ Frozen(Trimmed(Rendered(paragraphs, current', pins)))
  BY DEF Freeze
<1>3. <<>> \in Seq(Chars)
  OBVIOUS
<1>4. Grows
  BY <1>1, <1>2, <1>3 DEF Grows
<1>5. phase' = "frozen" => frozen' = Trimmed(Rendered(paragraphs, current \o partial, pins))
  BY <1>2 DEF Frozen
<1>6. QED
  BY <1>2, <1>4, <1>5

\* What a frame adds behind the snapshot is text.
LEMMA RestIsText ==
  ASSUME TextType, NEW frame \in Seq(Chars)
  PROVE  /\ SubSeq(frame, Len(snapshot) + 1, Len(frame)) \in Seq(Chars)
         /\ Appended(frame) \in Seq(Chars)
<1> DEFINE from == Len(snapshot) + 1
           x == SubSeq(frame, from, Len(frame))
<1>1. from \in Nat /\ from >= 1 /\ Len(frame) \in Nat
  BY DEF TextType
<1> HIDE DEF from
<1>2. x \in Seq(Chars)
  <2>1. \A j \in from .. Len(frame) : frame[j] \in Chars
    BY <1>1
  <2>2. CASE from > Len(frame)
    BY <1>1, <2>2
  <2>3. CASE from <= Len(frame)
    BY <1>1, <2>1, <2>3
  <2>4. QED
    BY <1>1, <2>2, <2>3
<1> HIDE DEF x
<1>3. Appended(frame) \in {x, frame}
  BY DEF Appended, x, from
<1>4. QED
  BY <1>2, <1>3 DEF x, from

\* A frame adds to the current line, to the draft, or nothing.
LEMMA FoldsGrow ==
  ASSUME TextType, NEW frame \in Seq(Chars), FoldPartial(frame) \/ FoldFinal(frame)
  PROVE  Grows
<1>1. /\ current \in Seq(Chars) /\ partial \in Seq(Chars) /\ snapshot \in Seq(Chars)
      /\ current \o <<>> = current /\ <<>> \in Seq(Chars)
  BY DEF TextType
<1>2. CASE UNCHANGED text
  BY <1>2, TextStays
<1>3. CASE /\ partial' = SubSeq(frame, Len(snapshot) + 1, Len(frame))
           /\ UNCHANGED <<paragraphs, current, pins, snapshot>>
  BY <1>1, <1>3, RestIsText DEF Grows
<1>4. CASE /\ current' = current \o Appended(frame) /\ partial' = <<>> /\ snapshot' = <<>>
           /\ UNCHANGED <<paragraphs, pins>>
  BY <1>1, <1>4, RestIsText DEF Grows
<1>5. QED
  BY <1>2, <1>3, <1>4 DEF FoldPartial, FoldFinal

\* Every step does one of the three, and freezes what it has shown.
LEMMA Moves ==
  ASSUME TextType, Next
  PROVE  /\ heard' \in Nat /\ settled' \in Nat
         /\ Grows \/ Closes \/ PinText
         /\ pins' # pins => PinText
         /\ phase' = "frozen" /\ phase = "recording" =>
              /\ current' = current \o partial /\ UNCHANGED <<paragraphs, pins>>
              /\ frozen' = Trimmed(Rendered(paragraphs, current \o partial, pins))
<1>0. heard \in Nat /\ settled \in Nat
  BY DEF TextType
<1>1. CASE PartialText
  <2>1. UNCHANGED ending /\ settled' = settled
    BY <1>1 DEF PartialText
  <2>2. CASE \E frame \in Frames : FoldPartial(frame) /\ UNCHANGED heard
    <3>1. PICK frame \in Frames : FoldPartial(frame) /\ UNCHANGED heard
      BY <2>2
    <3>2. Grows
      BY <3>1, FramesAreText, FoldsGrow
    <3>3. QED
      BY <1>0, <2>1, <3>1, <3>2 DEF Grows, ending
  <2>3. CASE \E n \in heard .. MaxWords :
               n > settled /\ FoldPartial(Sentence(settled + 1, n)) /\ heard' = n
    <3>1. PICK n \in heard .. MaxWords :
            n > settled /\ FoldPartial(Sentence(settled + 1, n)) /\ heard' = n
      BY <2>3
    <3>2. n \in Nat
      BY <1>0, TranscriptAssumption
    <3>3. Sentence(settled + 1, n) \in Seq(Chars)
      BY <1>0, <3>1, <3>2, SentencesAreText
    <3>4. Grows
      BY <3>1, <3>3, FoldsGrow
    <3>5. QED
      BY <1>0, <2>1, <3>1, <3>2, <3>4 DEF Grows, ending
  <2>4. QED
    BY <1>1, <2>2, <2>3 DEF PartialText
<1>2. CASE FinalText
  <2>1. UNCHANGED ending
    BY <1>2 DEF FinalText
  <2>2. CASE \E frame \in Frames : FoldFinal(frame) /\ UNCHANGED <<heard, settled>>
    <3>1. PICK frame \in Frames : FoldFinal(frame) /\ UNCHANGED <<heard, settled>>
      BY <2>2
    <3>2. Grows
      BY <3>1, FramesAreText, FoldsGrow
    <3>3. QED
      BY <1>0, <2>1, <3>1, <3>2 DEF Grows, ending
  <2>3. CASE \E n \in heard .. MaxWords, end \in {<<>>, <<Punct>>} :
               /\ n > settled /\ FoldFinal(Sentence(settled + 1, n) \o end)
               /\ heard' = n /\ settled' = n
    <3>1. PICK n \in heard .. MaxWords, end \in {<<>>, <<Punct>>} :
            /\ n > settled /\ FoldFinal(Sentence(settled + 1, n) \o end)
            /\ heard' = n /\ settled' = n
      BY <2>3
    <3>2. n \in Nat
      BY <1>0, TranscriptAssumption
    <3>3. Sentence(settled + 1, n) \o end \in Seq(Chars)
      BY <1>0, <3>1, <3>2, SentencesAreText
    <3>4. Grows
      BY <3>1, <3>3, FoldsGrow
    <3>5. QED
      BY <1>0, <2>1, <3>1, <3>2, <3>4 DEF Grows, ending
  <2>4. QED
    BY <1>2, <2>2, <2>3 DEF FinalText
<1>3. CASE Voiced
  <2>1. UNCHANGED <<text, ending, heard, settled>>
    BY <1>3 DEF Voiced
  <2>2. Grows
    BY <2>1, TextStays
  <2>3. QED
    BY <1>0, <2>1, <2>2 DEF Grows, ending
<1>4. ASSUME NEW held \in BOOLEAN, Unvoiced(held)
      PROVE  /\ UNCHANGED <<heard, settled>>
             /\ \/ UNCHANGED <<text, ending>>
                \/ Closes /\ UNCHANGED ending
                \/ Freeze
  <2>1. UNCHANGED <<heard, settled>>
    BY <1>4 DEF Unvoiced
  <2>2. CASE speaking'
    BY <1>4, <2>1, <2>2 DEF Unvoiced
  <2>3. CASE ~speaking' /\ passage
    <3>1. ParagraphTick(quiet') /\ UNCHANGED ending
      BY <1>4, <2>3 DEF Unvoiced
    <3>2. UNCHANGED text \/ Closes
      BY <3>1 DEF ParagraphTick, text, Closes
    <3>3. QED
      BY <2>1, <3>1, <3>2
  <2>4. CASE ~speaking' /\ ~passage
    BY <1>4, <2>1, <2>4 DEF Unvoiced
  <2>5. QED
    BY <2>2, <2>3, <2>4
<1>5. ASSUME NEW held \in BOOLEAN, Unvoiced(held)
      PROVE  /\ heard' \in Nat /\ settled' \in Nat
             /\ Grows \/ Closes \/ PinText
             /\ pins' # pins => PinText
             /\ phase' = "frozen" /\ phase = "recording" =>
                  /\ current' = current \o partial /\ UNCHANGED <<paragraphs, pins>>
                  /\ frozen' = Trimmed(Rendered(paragraphs, current \o partial, pins))
  <2>1. UNCHANGED <<heard, settled>>
    BY <1>4, <1>5
  <2>2. CASE UNCHANGED <<text, ending>>
    BY <1>0, <2>1, <2>2, TextStays DEF text, ending
  <2>3. CASE Closes /\ UNCHANGED ending
    BY <1>0, <2>1, <2>3 DEF Closes, ending
  <2>4. CASE Freeze
    <3>1. Grows /\ UNCHANGED <<paragraphs, pins>> /\ current' = current \o partial
      BY <2>4, FreezeGrows
    <3>2. phase' = "frozen" => frozen' = Trimmed(Rendered(paragraphs, current \o partial, pins))
      BY <2>4, FreezeGrows
    <3>3. QED
      BY <1>0, <2>1, <3>1, <3>2
  <2>5. QED
    BY <1>4, <1>5, <2>2, <2>3, <2>4
<1>6. CASE PinPlaceholder
  BY <1>0, <1>6 DEF PinPlaceholder, ending
<1>7. CASE StopSession
  <2>1. Freeze /\ UNCHANGED <<heard, settled>>
    BY <1>7 DEF StopSession
  <2>2. Grows /\ UNCHANGED <<paragraphs, pins>> /\ current' = current \o partial
    BY <2>1, FreezeGrows
  <2>3. phase' = "frozen" => frozen' = Trimmed(Rendered(paragraphs, current \o partial, pins))
    BY <2>1, FreezeGrows
  <2>4. QED
    BY <1>0, <2>1, <2>2, <2>3
<1>8. QED
  BY <1>1, <1>2, <1>3, <1>5, <1>6, <1>7 DEF Next

-----------------------------------------------------------------------------
(* What a step leaves of the lines *)

\* A press puts its pin at the end of line p, and no pin lies on a later one.
Presses(p) ==
  /\ p = IF current \o partial = <<>> /\ paragraphs # <<>>
         THEN Len(paragraphs) ELSE Len(paragraphs) + 1
  /\ p \in 1 .. Len(paragraphs) + 1
  /\ pins' = Append(pins, [paragraph |-> p, offset |-> Len(Line(p)')])
  /\ \A k \in 1 .. Len(pins) : pins[k].paragraph <= p
  /\ current' = current \o partial /\ partial' = <<>> /\ UNCHANGED paragraphs
  /\ {current', partial', snapshot'} \subseteq Seq(Chars)

\* That is what a press does (Session::pin).
LEMMA PressIs ==
  ASSUME TextInv, PinText
  PROVE  \E p \in Nat : Presses(p)
<1> DEFINE n == Len(paragraphs)
           line == current \o partial
           onClosed == line = <<>> /\ paragraphs # <<>>
           p == IF onClosed THEN n ELSE n + 1
<1>1. /\ n \in Nat /\ {current, partial, snapshot} \subseteq Seq(Chars)
      /\ paragraphs # <<>> => n \in 1 .. n
      /\ paragraphs \in Seq(Seq(Chars))
  BY DEF TextInv, TextType
<1>2. /\ current' = line /\ partial' = <<>> /\ snapshot' = snapshot \o partial
      /\ UNCHANGED paragraphs
  BY DEF PinText
<1>3. /\ current' \in Seq(Chars) /\ snapshot' \in Seq(Chars) /\ <<>> \in Seq(Chars)
      /\ line = <<>> => current = <<>>
  BY <1>1, <1>2, Concat
<1>4. /\ p \in 1 .. n + 1 /\ p \in Nat
      /\ paragraphs' = paragraphs /\ current' = line
      /\ (IF p <= n THEN paragraphs[p] ELSE line)
           = IF onClosed THEN Last(paragraphs) ELSE line
  BY <1>1, <1>2 DEF Last
<1>5. pins' = Append(pins, IF onClosed THEN [paragraph |-> n, offset |-> Len(Last(paragraphs))]
                           ELSE [paragraph |-> n + 1, offset |-> Len(line)])
  BY DEF PinText
<1> HIDE DEF line
<1>6. pins' = Append(pins, [paragraph |-> p,
                            offset |-> Len(IF p <= n THEN paragraphs[p] ELSE line)])
  BY <1>4, <1>5
<1>7. ASSUME NEW k \in 1 .. Len(pins)
      PROVE  pins[k].paragraph <= p
  <2>1. pins[k].paragraph \in 1 .. n + 1
    BY DEF TextInv, PinsLie
  <2>2. CASE onClosed
    BY <1>3, <2>2 DEF TextInv, PinsLie
  <2>3. CASE ~onClosed
    BY <1>1, <2>1, <2>3
  <2>4. QED
    BY <2>2, <2>3
<1>8. p = IF onClosed THEN n ELSE n + 1
  OBVIOUS
<1> HIDE DEF p
<1>9. PICK q \in Nat : q = p
  BY <1>4
<1>10. Line(q)' = IF q <= n THEN paragraphs[q] ELSE line
  BY <1>4 DEF Line
<1>11. pins' = Append(pins, [paragraph |-> q, offset |-> Len(Line(q)')])
  BY <1>6, <1>9, <1>10
<1>12. Presses(q)
  BY <1>2, <1>3, <1>4, <1>7, <1>8, <1>9, <1>11 DEF Presses, line
<1>13. QED
  BY <1>12

\* A line with a pin on it only grows, and the lines before it stay.
LineStays(p) ==
  /\ Extends(Line(p), Line(p)') /\ Line(p)' \in Seq(Chars)
  /\ \A i \in 1 .. p - 1 : Line(i)' = Line(i)

PinnedLine(p) == \E k \in 1 .. Len(pins) : pins[k].paragraph = p

LinesStay == \A p \in Nat : PinnedLine(p) => LineStays(p)

\* A line that grows keeps what is before and on it.
LEMMA GrowthKeeps ==
  ASSUME TextInv, Grows, heard' \in Nat, settled' \in Nat
  PROVE  TextInv' /\ LinesStay
<1>1. PICK extra \in Seq(Chars) : current' = current \o extra
  BY DEF Grows
<1>2. UNCHANGED <<paragraphs, pins>> /\ {partial', snapshot'} \subseteq Seq(Chars)
  BY DEF Grows
<1>3. /\ current' \in Seq(Chars) /\ PinsLie'
      /\ \A i \in 1 .. Len(paragraphs) : Line(i)' = Line(i)
      /\ Extends(current, current')
  BY <1>1, <1>2, LinesGrow
<1>4. TextInv'
  BY <1>2, <1>3 DEF TextInv, TextType
<1>5. /\ Len(paragraphs) \in Nat /\ Line(Len(paragraphs) + 1) = current
      /\ \A i \in 1 .. Len(paragraphs) + 1 : Line(i) \in Seq(Chars)
  BY Lines DEF TextInv
<1>7. ASSUME NEW p \in Nat, PinnedLine(p)
      PROVE  LineStays(p)
  <2>1. p \in 1 .. Len(paragraphs) + 1
    BY <1>7 DEF TextInv, PinsLie, PinnedLine
  <2>2. \A i \in 1 .. p - 1 : i \in 1 .. Len(paragraphs)
    BY <1>5, <2>1
  <2>3. CASE p = Len(paragraphs) + 1
    <3>1. ~(p <= Len(paragraphs))
      BY <1>5, <2>3
    <3>2. Line(p)' = current' /\ Line(p) = current
      BY <1>2, <3>1 DEF Line
    <3>3. QED
      BY <1>3, <2>2, <3>2 DEF LineStays
  <2>4. CASE p \in 1 .. Len(paragraphs)
    <3>1. Line(p)' = Line(p) /\ Line(p) \in Seq(Chars)
      BY <1>3, <1>5, <2>1, <2>4
    <3>2. Extends(Line(p), Line(p))
      BY <3>1 DEF Extends
    <3>3. Extends(Line(p), Line(p)')
      BY <3>1, <3>2
    <3>4. Line(p)' \in Seq(Chars)
      BY <3>1
    <3>5. QED
      BY <1>3, <2>2, <3>3, <3>4 DEF LineStays
  <2>5. QED
    BY <1>5, <2>1, <2>3, <2>4
<1>8. QED
  BY <1>4, <1>7 DEF LinesStay

\* So does one that is closed: it keeps its number, and the next one is empty.
LEMMA CloseKeeps ==
  ASSUME TextInv, Closes, heard' \in Nat, settled' \in Nat
  PROVE  TextInv' /\ LinesStay
<1> DEFINE n == Len(paragraphs)
<1>1. /\ paragraphs \in Seq(Seq(Chars)) /\ current \in Seq(Chars) /\ n \in Nat
      /\ pins \in Seq(Anchor)
      /\ \A k \in 1 .. Len(pins) : pins[k].paragraph \in 1 .. n + 1
  BY DEF TextInv, TextType, PinsLie
<1>2. /\ paragraphs' = Append(paragraphs, current) /\ current' = <<>>
      /\ UNCHANGED <<partial, snapshot, pins>>
  BY DEF Closes
<1>3. /\ paragraphs' \in Seq(Seq(Chars)) /\ Len(paragraphs') = n + 1
      /\ \A i \in 1 .. n : paragraphs'[i] = paragraphs[i]
      /\ paragraphs'[n + 1] = current
  BY <1>1, <1>2
<1>4. ASSUME NEW i \in 1 .. n + 1
      PROVE  Line(i)' = Line(i) /\ Line(i) \in Seq(Chars)
  <2>1. Line(i)' = paragraphs'[i]
    BY <1>1, <1>3 DEF Line
  <2>2. Line(i) = paragraphs'[i]
    BY <1>1, <1>3 DEF Line
  <2>3. paragraphs'[i] \in Seq(Chars)
    BY <1>1, <1>3
  <2>4. QED
    BY <2>1, <2>2, <2>3
<1>5. TextType'
  BY <1>2, <1>3 DEF TextInv, TextType
<1>6. ASSUME NEW k \in 1 .. Len(pins)
      PROVE  pins[k].offset <= Len(Line(pins[k].paragraph)')
  <2>1. pins[k].paragraph \in 1 .. n + 1
    BY <1>1
  <2>2. pins[k].offset <= Len(Line(pins[k].paragraph))
    BY DEF TextInv, PinsLie
  <2>3. PICK p \in 1 .. n + 1 : p = pins[k].paragraph
    BY <2>1
  <2>4. Line(p)' = Line(p) /\ p = pins'[k].paragraph
    BY <1>2, <1>4, <2>3
  <2>5. QED
    BY <2>2, <2>3, <2>4
<1>7. PinsLie'
  <2>1. \A k \in 1 .. Len(pins) : pins[k].paragraph \in 1 .. (n + 1) + 1 /\ pins[k].paragraph <= n + 1
    BY <1>1
  <2> HIDE DEF n
  <2>2. QED
    BY <1>2, <1>3, <1>6, <2>1 DEF PinsLie
<1>8. ASSUME NEW p \in Nat, PinnedLine(p)
      PROVE  LineStays(p)
  <2>1. p \in 1 .. n + 1
    BY <1>1, <1>8 DEF PinnedLine
  <2>2. \A i \in 1 .. p - 1 : i \in 1 .. n + 1
    BY <1>1, <2>1
  <2>3. Line(p)' = Line(p) /\ Line(p) \in Seq(Chars)
    BY <1>4, <2>1
  <2>4. Extends(Line(p), Line(p))
    BY <2>3 DEF Extends
  <2>5. Extends(Line(p), Line(p)') /\ Line(p)' \in Seq(Chars)
    BY <2>3, <2>4
  <2>6. QED
    BY <1>4, <2>2, <2>5 DEF LineStays
<1>9. QED
  BY <1>5, <1>7, <1>8 DEF TextInv, LinesStay

\* So does one that gets a pin, which lies at its end.
LEMMA PressKeeps ==
  ASSUME TextInv, NEW q \in Nat, Presses(q), heard' \in Nat, settled' \in Nat
  PROVE  TextInv' /\ LinesStay
<1> DEFINE n == Len(paragraphs)
           pin == [paragraph |-> q, offset |-> Len(Line(q)')]
<1>1. /\ paragraphs \in Seq(Seq(Chars)) /\ current \in Seq(Chars) /\ n \in Nat
      /\ partial \in Seq(Chars) /\ pins \in Seq(Anchor)
      /\ \A k \in 1 .. Len(pins) : pins[k].paragraph \in 1 .. n + 1
  BY DEF TextInv, TextType, PinsLie
<1>2. /\ q \in 1 .. n + 1 /\ pins' = Append(pins, pin)
      /\ \A k \in 1 .. Len(pins) : pins[k].paragraph <= q
      /\ current' = current \o partial /\ UNCHANGED paragraphs
      /\ current' \in Seq(Chars) /\ partial' \in Seq(Chars) /\ snapshot' \in Seq(Chars)
      /\ current' = <<>> /\ paragraphs # <<>> => q = n
  BY DEF Presses
<1>3. Extends(current, current')
  BY <1>1, <1>2, Concat DEF Extends
<1>4. /\ \A i \in 1 .. n : Line(i)' = Line(i)
      /\ \A i \in 1 .. n + 1 : /\ Line(i)' \in Seq(Chars) /\ Extends(Line(i), Line(i)')
                               /\ Len(Line(i)) <= Len(Line(i)')
  <2>1. ASSUME NEW i \in 1 .. n
        PROVE  /\ Line(i)' = Line(i) /\ Line(i)' \in Seq(Chars) /\ Extends(Line(i), Line(i)')
               /\ Len(Line(i)) <= Len(Line(i)')
    <3>1. Line(i)' = paragraphs[i] /\ Line(i) = paragraphs[i]
      BY <1>1, <1>2 DEF Line
    <3>2. paragraphs[i] \in Seq(Chars)
      BY <1>1
    <3>3. Extends(paragraphs[i], paragraphs[i]) /\ Len(paragraphs[i]) <= Len(paragraphs[i])
      BY <3>2 DEF Extends
    <3>4. QED
      BY <3>1, <3>2, <3>3
  <2>2. ASSUME NEW i, i = n + 1
        PROVE  /\ Line(i)' \in Seq(Chars) /\ Extends(Line(i), Line(i)')
               /\ Len(Line(i)) <= Len(Line(i)')
    <3>1. ~(i <= n)
      BY <1>1, <2>2
    <3>2. Line(i)' = current' /\ Line(i) = current
      BY <1>2, <3>1 DEF Line
    <3>3. QED
      BY <1>2, <1>3, <3>2 DEF Extends
  <2>3. \A i \in 1 .. n + 1 : i \in 1 .. n \/ i = n + 1
    <3>1. n \in Nat
      BY <1>1
    <3> HIDE DEF n
    <3>2. QED
      BY <3>1
  <2>4. QED
    BY <2>1, <2>2, <2>3
<1>5. /\ pin \in Anchor /\ pins' \in Seq(Anchor) /\ Len(pins') = Len(pins) + 1
      /\ pins'[Len(pins) + 1] = pin /\ \A k \in 1 .. Len(pins) : pins'[k] = pins[k]
  <2>1. Line(q)' \in Seq(Chars)
    BY <1>2, <1>4
  <2>2. Len(Line(q)') \in Nat
    BY <2>1
  <2>3. pin \in Anchor
    BY <2>2 DEF Anchor
  <2> HIDE DEF pin
  <2>4. QED
    BY <1>1, <1>2, <2>3
<1>6. TextType'
  BY <1>1, <1>2, <1>5 DEF TextInv, TextType
<1>7. ASSUME NEW k \in 1 .. Len(pins) + 1, NEW p, p = pins'[k].paragraph
      PROVE  p \in 1 .. n + 1 /\ p <= q /\ pins'[k].offset <= Len(Line(p)')
  <2>1. CASE k \in 1 .. Len(pins)
    <3>1. p = pins[k].paragraph /\ pins'[k] = pins[k]
      BY <1>5, <1>7, <2>1
    <3>2. p \in 1 .. n + 1 /\ p <= q
      BY <1>1, <1>2, <2>1, <3>1
    <3>3. pins[k].offset <= Len(Line(p))
      BY <2>1, <3>1 DEF TextInv, PinsLie
    <3>4. Len(Line(p)) <= Len(Line(p)') /\ Len(Line(p)) \in Nat /\ Len(Line(p)') \in Nat
      <4>1. Line(p) \in Seq(Chars) /\ Line(p)' \in Seq(Chars)
        BY <1>4, <3>2, Lines DEF TextInv
      <4>2. QED
        BY <1>4, <3>2, <4>1
    <3>5. pins[k].offset \in Nat
      <4>1. pins[k] \in Anchor
        BY <1>1, <2>1
      <4>2. QED
        BY <4>1 DEF Anchor
    <3>6. QED
      BY <3>1, <3>2, <3>3, <3>4, <3>5
  <2>2. CASE k = Len(pins) + 1
    <3>1. pins'[k].paragraph = q /\ pins'[k].offset = Len(Line(q)')
      BY <1>5, <2>2
    <3>2. p = q
      BY <1>7, <3>1
    <3>3. Line(q)' \in Seq(Chars)
      BY <1>2, <1>4
    <3>4. PICK m \in Nat : m = Len(Line(q)')
      BY <3>3
    <3>5. pins'[k].offset = m /\ Len(Line(p)') = m
      BY <3>1, <3>2, <3>4
    <3>6. p \in 1 .. n + 1 /\ p <= q
      BY <1>2, <3>2
    <3>7. QED
      BY <3>5, <3>6
  <2>3. QED
    BY <1>1, <1>7, <2>1, <2>2
<1>8. PinsLie'
  <2>1. \A k \in 1 .. Len(pins') :
          /\ pins'[k].paragraph \in 1 .. Len(paragraphs') + 1
          /\ pins'[k].offset <= Len(Line(pins[k].paragraph)')
    BY <1>2, <1>5, <1>7
  <2>2. current' = <<>> /\ paragraphs' # <<>> =>
          \A k \in 1 .. Len(pins') : pins'[k].paragraph <= Len(paragraphs')
    BY <1>2, <1>5, <1>7
  <2>3. QED
    BY <2>1, <2>2 DEF PinsLie
<1>9. ASSUME NEW p \in Nat, PinnedLine(p)
      PROVE  LineStays(p)
  <2>1. p \in 1 .. n + 1
    BY <1>1, <1>9 DEF PinnedLine
  <2>2. \A i \in 1 .. p - 1 : i \in 1 .. n
    BY <1>1, <2>1
  <2>3. QED
    BY <1>4, <2>1, <2>2 DEF LineStays
<1>10. QED
  BY <1>6, <1>8, <1>9 DEF TextInv, LinesStay

\* A pin stays where it was pressed, and one pressed later lies behind it.
LEMMA LeftStays ==
  ASSUME TextInv, TextInv', LinesStay, pins' = pins \/ \E q \in Nat : Presses(q),
         NEW k \in 1 .. Len(pins)
  PROVE  LeftOf(k)' = LeftOf(k)
<1>1. /\ pins \in Seq(Anchor) /\ pins' \in Seq(Anchor) /\ Len(pins) \in Nat
      /\ Len(paragraphs) \in Nat
      /\ \A i \in 1 .. Len(paragraphs) + 1 : Line(i) \in Seq(Chars)
      /\ pins[k] \in Anchor
  BY Lines DEF TextInv, TextType
<1>2. PICK p \in Nat : p = pins[k].paragraph
  BY <1>1 DEF Anchor
<1>3. p \in 1 .. Len(paragraphs) + 1 /\ PinnedLine(p)
  BY <1>2 DEF TextInv, PinsLie, PinnedLine
<1>4. LineStays(p)
  BY <1>3 DEF LinesStay
<1>5. /\ Extends(Line(p), Line(p)') /\ Line(p)' \in Seq(Chars) /\ Line(p) \in Seq(Chars)
      /\ \A i \in 1 .. p - 1 : Line(i)' = Line(i) /\ Line(i) \in Seq(Chars)
  <2>1. \A i \in 1 .. p - 1 : i \in 1 .. Len(paragraphs) + 1
    BY <1>1, <1>3
  <2>2. QED
    BY <1>1, <1>3, <1>4, <2>1 DEF LineStays
<1>6. Extends(pins, pins')
  <2>1. CASE pins' = pins
    <3>1. Extends(pins, pins)
      BY <1>1 DEF Extends
    <3>2. QED
      BY <2>1, <3>1
  <2>2. CASE \E q \in Nat : Presses(q)
    <3>1. PICK q, n : pins' = Append(pins, [paragraph |-> q, offset |-> n])
      BY <2>2 DEF Presses
    <3>2. PICK pin : pin = [paragraph |-> q, offset |-> n]
      OBVIOUS
    <3>3. /\ Len(pins') = Len(pins) + 1 /\ \A l \in 1 .. Len(pins) : pins'[l] = pins[l]
      BY <1>1, <3>1, <3>2
    <3>4. QED
      BY <1>1, <3>3 DEF Extends
  <2>3. QED
    BY <2>1, <2>2
<1>7. /\ k \in 1 .. Len(pins') /\ pins'[k].paragraph = p /\ Len(pins') \in Nat
  BY <1>1, <1>2, <1>6 DEF Extends
<1>8. /\ Fits(p, Line(p), pins)
      /\ \A i \in 1 .. p - 1 : Fits(i, Line(i), pins)
  BY PinsFit
<1>9. Fits(p, Line(p)', pins')
  BY DEF TextInv, PinsLie, Fits
<1>10. LeftOf(k) = Append([i \in 1 .. p - 1 |-> Spliced(i, Line(i), pins)],
                          Placed(p, Line(p), pins)[k].out)
  <2>1. UpTo(Spliced(p, Line(p), pins), k) = Placed(p, Line(p), pins)[k].out
    BY <1>1, <1>2, <1>5, <1>8, LeftIs
  <2>2. QED
    BY <1>2, <2>1 DEF LeftOf, UpTo
<1>11. LeftOf(k)' = Append([i \in 1 .. p - 1 |-> Spliced(i, Line(i)', pins')],
                           Placed(p, Line(p)', pins')[k].out)
  <2>1. UpTo(Spliced(p, Line(p)', pins'), k) = Placed(p, Line(p)', pins')[k].out
    BY <1>1, <1>5, <1>7, <1>9, LeftIs
  <2>2. QED
    BY <1>7, <2>1 DEF LeftOf, UpTo
<1>12. Placed(p, Line(p)', pins')[k] = Placed(p, Line(p), pins)[k]
  <2>1. k \in 0 .. Len(pins)
    BY <1>1
  <2>2. QED
    <3>1. PICK line \in Seq(Chars) : line = Line(p)
      BY <1>5
    <3>2. PICK longer \in Seq(Chars) : longer = Line(p)'
      BY <1>5
    <3>3. PICK anchors \in Seq(Anchor), more \in Seq(Anchor) : anchors = pins /\ more = pins'
      BY <1>1
    <3>4. /\ k \in 0 .. Len(anchors) /\ Extends(line, longer) /\ Extends(anchors, more)
          /\ Fits(p, line, anchors)
      BY <1>5, <1>6, <1>8, <2>1, <3>1, <3>2, <3>3
    <3>5. Placed(p, longer, more)[k] = Placed(p, line, anchors)[k]
      BY <3>4, PlacedGrows
    <3>6. QED
      BY <3>1, <3>2, <3>3, <3>5
<1>13. ASSUME NEW i \in 1 .. p - 1
       PROVE  Spliced(i, Line(i)', pins') = Spliced(i, Line(i), pins)
  <2>1. CASE pins' = pins
    BY <1>5, <2>1
  <2>2. CASE \E q \in Nat : Presses(q)
    <3>1. PICK q \in Nat : Presses(q)
      BY <2>2
    <3>2. /\ pins' = Append(pins, [paragraph |-> q, offset |-> Len(Line(q)')])
          /\ p <= q /\ q \in 1 .. Len(paragraphs) + 1
      BY <1>2, <3>1 DEF Presses
    <3>3. PICK pin : pin = [paragraph |-> q, offset |-> Len(Line(q)')]
      OBVIOUS
    <3>4. pins' = Append(pins, pin) /\ pin.paragraph = q
      BY <3>2, <3>3
    <3>5. pin \in Anchor
      <4>1. pins'[Len(pins) + 1] = pin /\ Len(pins') = Len(pins) + 1
        BY <1>1, <3>4
      <4>2. Len(pins) + 1 \in 1 .. Len(pins')
        BY <1>1, <4>1
      <4>3. QED
        BY <1>1, <4>1, <4>2
    <3>6. q # i
      BY <1>3, <3>2
    <3>7. Spliced(i, Line(i), Append(pins, pin)) = Spliced(i, Line(i), pins)
      BY <1>1, <1>5, <1>8, <3>4, <3>5, <3>6, SplicedOther
    <3>8. QED
      BY <1>5, <3>4, <3>7
  <2>3. QED
    BY <2>1, <2>2
<1>14. QED
  BY <1>10, <1>11, <1>12, <1>13

-----------------------------------------------------------------------------
(* The screen *)

\* One line, or one character, more.
LEMMA AppendIs ==
  ASSUME NEW S, NEW s \in Seq(S), NEW x \in S
  PROVE  /\ Append(s, x) \in Seq(S) /\ Len(Append(s, x)) = Len(s) + 1
         /\ Append(s, x)[Len(s) + 1] = x /\ Append(s, x) # <<>>
         /\ \A i \in 1 .. Len(s) : Append(s, x)[i] = s[i]
<1>1. /\ Append(s, x) \in Seq(S) /\ Len(Append(s, x)) = Len(s) + 1 /\ Len(s) \in Nat
      /\ Append(s, x)[Len(s) + 1] = x
      /\ \A i \in 1 .. Len(s) : Append(s, x)[i] = s[i]
  OBVIOUS
<1>2. Len(<<>>) = 0
  OBVIOUS
<1>3. QED
  BY <1>1, <1>2

\* All lines but the last.
Fronted(lines, m) ==
  /\ Front(lines) \in Seq(Seq(Glyphs)) /\ Len(Front(lines)) = m
  /\ \A i \in 1 .. m : Front(lines)[i] = lines[i]
  /\ Last(lines) = lines[m + 1]

\* The lines before the last, one by one.
LEMMA FrontIs ==
  ASSUME NEW m \in Nat, NEW lines \in Seq(Seq(Glyphs)), Len(lines) = m + 1
  PROVE  Fronted(lines, m)
<1>1. Len(lines) - 1 = m /\ m <= Len(lines)
  OBVIOUS
<1>2. /\ SubSeq(lines, 1, m) \in Seq(Seq(Glyphs)) /\ Len(SubSeq(lines, 1, m)) = m
      /\ \A i \in 1 .. m : SubSeq(lines, 1, m)[i] = lines[i]
  BY <1>1
<1>3. Front(lines) = SubSeq(lines, 1, m)
  BY <1>1 DEF Front
<1>4. QED
  BY <1>2, <1>3 DEF Last, Fronted

\* Lines a with a pin at the end of the q-th are lines b: it is the last of them,
\* the one before it if that is empty, or the first there is.
Marked(a, b, n, q, mark) ==
  /\ Len(a) = n + 1 /\ Len(b) = n + 1
  /\ \A i \in 1 .. n + 1 : i # q => b[i] = a[i]
  /\ b[q] = Append(Stripped(a[q]), mark)
  /\ q = n \/ q = n + 1
  /\ q = n => a[n + 1] = <<>>
  /\ q = n + 1 /\ a[n + 1] = <<>> => n = 0

\* The mark follows what was shown, less what closed it.
Shows(before, after, mark) ==
  after = IF before = <<>> THEN <<<<mark>>>>
          ELSE Append(Front(before), Append(Stripped(Last(before)), mark))

\* The screen before and after a press, on the line that gets the pin: the last
\* one shown, or the first there is.
LEMMA PressShows ==
  ASSUME NEW n \in Nat, NEW a \in Seq(Seq(Glyphs)), NEW b \in Seq(Seq(Glyphs)),
         NEW q \in 1 .. n + 1, NEW mark \in Glyphs, Marked(a, b, n, q, mark)
  PROVE  Shows(Trimmed(a), Trimmed(b), mark)
<1> USE DEF Marked, Shows
<1> DEFINE Pinned(line) == Append(Stripped(line), mark)
<1>1. \A i \in 1 .. n + 1 : /\ a[i] \in Seq(Glyphs) /\ Stripped(a[i]) \in Seq(Glyphs)
                            /\ Pinned(a[i]) \in Seq(Glyphs) /\ Pinned(a[i]) # <<>>
  <2> TAKE i \in 1 .. n + 1
  <2>1. a[i] \in Seq(Glyphs)
    OBVIOUS
  <2>2. Stripped(a[i]) \in Seq(Glyphs)
    BY <2>1, StrippedType
  <2>3. Pinned(a[i]) \in Seq(Glyphs) /\ Pinned(a[i]) # <<>>
    <3>1. PICK y \in Seq(Glyphs) : y = Stripped(a[i])
      BY <2>2
    <3>2. Append(y, mark) \in Seq(Glyphs) /\ Append(y, mark) # <<>>
      BY AppendIs
    <3>3. QED
      BY <3>1, <3>2
  <2>4. QED
    BY <2>1, <2>2, <2>3
<1>2. b[q] = Pinned(a[q])
  OBVIOUS
<1> HIDE DEF Pinned
<1>3. /\ Front(a) \in Seq(Seq(Glyphs)) /\ Len(Front(a)) = n /\ Last(a) = a[n + 1]
      /\ \A i \in 1 .. n : Front(a)[i] = a[i]
      /\ Front(b) \in Seq(Seq(Glyphs)) /\ Len(Front(b)) = n /\ Last(b) = b[n + 1]
      /\ \A i \in 1 .. n : Front(b)[i] = b[i]
  BY FrontIs DEF Fronted
<1>4. CASE q = n + 1 /\ a[n + 1] # <<>>
  <2>1. Trimmed(a) = a /\ Trimmed(b) = b /\ a # <<>>
    BY <1>1, <1>2, <1>3, <1>4 DEF Trimmed
  <2>2. b = Append(Front(a), Pinned(a[n + 1]))
    <3> DEFINE c == Append(Front(a), Pinned(a[n + 1]))
    <3>1. /\ c \in Seq(Seq(Glyphs)) /\ Len(c) = n + 1 /\ c[n + 1] = Pinned(a[n + 1])
          /\ \A i \in 1 .. n : c[i] = Front(a)[i]
      <4>1. n + 1 \in 1 .. n + 1
        OBVIOUS
      <4>2. Pinned(a[n + 1]) \in Seq(Glyphs)
        BY <1>1, <4>1
      <4>3. QED
        BY <1>3, <4>2, AppendIs
    <3>2. \A i \in 1 .. n + 1 : i \in 1 .. n \/ i = n + 1
      OBVIOUS
    <3> HIDE DEF c
    <3>3. \A i \in 1 .. n + 1 : c[i] = b[i]
      BY <1>2, <1>3, <1>4, <3>1, <3>2
    <3>4. b = c
      BY <3>1, <3>3, SeqEqual
    <3>5. QED
      BY <3>4 DEF c
  <2>3. QED
    BY <1>3, <2>1, <2>2 DEF Pinned
<1>5. CASE q = n + 1 /\ a[n + 1] = <<>>
  <2>1. n = 0 /\ Trimmed(a) = <<>> /\ Trimmed(b) = b
    BY <1>1, <1>2, <1>3, <1>5 DEF Trimmed
  <2>2. Stripped(<<>>) = <<>>
    BY DEF Stripped
  <2>3. Len(b) = 1 /\ b[1] = <<mark>>
    BY <1>2, <1>5, <2>1, <2>2 DEF Pinned
  <2>4. b = <<<<mark>>>>
    <3>0. <<mark>> \in Seq(Glyphs)
      OBVIOUS
    <3>1. PICK x \in Seq(Glyphs) : x = <<mark>>
      BY <3>0
    <3>00. <<x>> \in Seq(Seq(Glyphs)) /\ Len(<<x>>) = 1 /\ <<x>>[1] = x
      OBVIOUS
    <3>2. PICK w \in Seq(Seq(Glyphs)) : w = <<x>> /\ Len(w) = 1 /\ w[1] = x
      BY <3>00
    <3>3. \A i \in 1 .. 1 : w[i] = b[i]
      BY <2>3, <3>1, <3>2
    <3>4. w = b
      BY <2>3, <3>2, <3>3, SeqEqual
    <3>5. QED
      BY <3>1, <3>2, <3>4
  <2>5. QED
    BY <2>1, <2>4
<1>6. CASE q = n
  <2>1. b[n + 1] = <<>> /\ a[n + 1] = <<>> /\ n \in Nat /\ n >= 1
    BY <1>6
  <2>2. Trimmed(a) = Front(a) /\ Trimmed(b) = Front(b)
    BY <1>3, <2>1 DEF Trimmed
  <2>3. PICK m \in Nat : n = m + 1
    BY <2>1
  <2>4. PICK f \in Seq(Seq(Glyphs)) : f = Front(a)
    BY <1>3
  <2>5. Len(f) = m + 1 /\ \A i \in 1 .. n : f[i] = a[i]
    BY <1>3, <2>3, <2>4
  <2>6. PICK c \in Seq(Seq(Glyphs)) :
          c = Front(f) /\ Len(c) = m /\ Last(f) = f[m + 1] /\ \A i \in 1 .. m : c[i] = f[i]
    BY <2>5, FrontIs DEF Fronted
  <2>7. Last(f) = a[n] /\ f # <<>> /\ n \in 1 .. n + 1
    BY <2>1, <2>3, <2>5, <2>6
  <2>8. PICK x \in Seq(Glyphs) : x = Pinned(a[n])
    BY <1>1, <2>7
  <2>9. PICK d \in Seq(Seq(Glyphs)) :
          d = Append(c, x) /\ Len(d) = m + 1 /\ d[m + 1] = x /\ \A i \in 1 .. m : d[i] = c[i]
    <3>1. /\ Append(c, x) \in Seq(Seq(Glyphs)) /\ Len(Append(c, x)) = m + 1
          /\ Append(c, x)[m + 1] = x /\ \A i \in 1 .. m : Append(c, x)[i] = c[i]
      <4>1. /\ Append(c, x) \in Seq(Seq(Glyphs)) /\ Len(Append(c, x)) = Len(c) + 1
            /\ Append(c, x)[Len(c) + 1] = x
            /\ \A i \in 1 .. Len(c) : Append(c, x)[i] = c[i]
        BY AppendIs
      <4>2. QED
        BY <2>6, <4>1
    <3>2. QED
      BY <3>1
  <2>10. ASSUME NEW i \in 1 .. n
         PROVE  d[i] = Front(b)[i]
    <3>1. CASE i = n
      BY <1>2, <1>3, <1>6, <2>3, <2>8, <2>9, <3>1
    <3>2. CASE i # n
      <4>1. i \in 1 .. m /\ i \in 1 .. n + 1 /\ i # q
        BY <1>6, <2>3, <3>2
      <4>2. d[i] = a[i]
        BY <2>5, <2>6, <2>9, <4>1
      <4>3. b[i] = a[i]
        BY <4>1
      <4>4. QED
        BY <1>3, <4>2, <4>3
    <3>3. QED
      BY <3>1, <3>2
  <2>11. Front(b) = d
    <3>1. PICK g \in Seq(Seq(Glyphs)) : g = Front(b) /\ Len(g) = n
      BY <1>3
    <3>2. Len(d) = n /\ \A i \in 1 .. n : d[i] = g[i]
      BY <2>3, <2>9, <2>10, <3>1
    <3>3. g = d
      BY <3>1, <3>2, SeqEqual
    <3>4. QED
      BY <3>1, <3>3
  <2>12. QED
    BY <2>2, <2>4, <2>6, <2>7, <2>8, <2>9, <2>11 DEF Pinned
<1>7. QED
  BY <1>4, <1>5, <1>6

\* Every pin lies on its line.
FitsAll(closed, line, anchors) ==
  /\ \A i \in 1 .. Len(closed) : Fits(i, closed[i], anchors)
  /\ Fits(Len(closed) + 1, line, anchors)

\* The lines with their pins.
Renders(lines, closed, line, anchors) ==
  /\ lines \in Seq(Seq(Glyphs)) /\ Len(lines) = Len(closed) + 1
  /\ \A i \in 1 .. Len(closed) : lines[i] = Spliced(i, closed[i], anchors)
  /\ lines[Len(closed) + 1] = Spliced(Len(closed) + 1, line, anchors)

\* Each line is rendered with its own pins (Session::rendered_paragraphs).
LEMMA RenderedIs ==
  ASSUME NEW closed \in Seq(Seq(Chars)), NEW line \in Seq(Chars),
         NEW anchors \in Seq(Anchor), FitsAll(closed, line, anchors)
  PROVE  Renders(Rendered(closed, line, anchors), closed, line, anchors)
<1> DEFINE n == Len(closed)
           At(i) == IF i <= n THEN closed[i] ELSE line
           lines == [i \in 1 .. n + 1 |-> Spliced(i, At(i), anchors)]
<1>1. n \in Nat /\ n + 1 \in Nat
  OBVIOUS
<1>2. Rendered(closed, line, anchors) = lines
  BY DEF Rendered
<1>3. /\ \A i \in 1 .. n : At(i) = closed[i] /\ closed[i] \in Seq(Chars)
      /\ At(n + 1) = line
  BY <1>1
<1>4. ASSUME NEW i \in 1 .. n + 1
      PROVE  Spliced(i, At(i), anchors) \in Seq(Glyphs)
  <2>1. CASE i \in 1 .. n
    <3>1. At(i) = closed[i] /\ closed[i] \in Seq(Chars) /\ Fits(i, closed[i], anchors)
      BY <1>3, <2>1 DEF FitsAll
    <3> HIDE DEF At
    <3>2. Spliced(i, closed[i], anchors) \in Seq(Glyphs)
      BY <3>1, SplicedIs DEF IsWhole
    <3>3. QED
      BY <3>1, <3>2
  <2>2. CASE i = n + 1
    <3>1. At(i) = line /\ Fits(i, line, anchors)
      BY <1>3, <2>2 DEF FitsAll
    <3> HIDE DEF At
    <3>2. Spliced(i, line, anchors) \in Seq(Glyphs)
      BY <3>1, SplicedIs DEF IsWhole
    <3>3. QED
      BY <3>1, <3>2
  <2>3. QED
    BY <1>1, <2>1, <2>2
<1> HIDE DEF At
<1>5. /\ lines \in Seq(Seq(Glyphs)) /\ Len(lines) = n + 1
      /\ \A i \in 1 .. n + 1 : lines[i] = Spliced(i, At(i), anchors)
  BY <1>1, <1>4
<1>6. n + 1 \in 1 .. n + 1 /\ \A i \in 1 .. n : i \in 1 .. n + 1
  BY <1>1
<1> HIDE DEF lines
<1>7. QED
  BY <1>2, <1>3, <1>5, <1>6 DEF Renders

\* The screen: the draft rides the last line, as if it were part of it.
Screen(closed, line, extra, anchors) ==
  LET lines == Rendered(closed, line, anchors)
  IN  Trimmed([lines EXCEPT ![Len(lines)] = @ \o extra])

\* It is: splicing before or after the draft is put on makes the same lines.
LEMMA ScreenIs ==
  ASSUME NEW closed \in Seq(Seq(Chars)), NEW line \in Seq(Chars), NEW extra \in Seq(Chars),
         NEW anchors \in Seq(Anchor), FitsAll(closed, line, anchors)
  PROVE  /\ FitsAll(closed, line \o extra, anchors)
         /\ Screen(closed, line, extra, anchors) = Trimmed(Rendered(closed, line \o extra, anchors))
<1> DEFINE n == Len(closed)
           longer == line \o extra
<1>1. n \in Nat /\ longer \in Seq(Chars)
  BY Concat
<1>2. /\ Fits(n + 1, longer, anchors)
      /\ Spliced(n + 1, longer, anchors) = Spliced(n + 1, line, anchors) \o extra
  BY SplicedGrows DEF FitsAll
<1>3. FitsAll(closed, longer, anchors)
  BY <1>2 DEF FitsAll
<1>4. PICK a \in Seq(Seq(Glyphs)) :
        /\ a = Rendered(closed, line, anchors) /\ Len(a) = n + 1
        /\ \A i \in 1 .. n : a[i] = Spliced(i, closed[i], anchors)
        /\ a[n + 1] = Spliced(n + 1, line, anchors)
  BY RenderedIs DEF Renders
<1> HIDE DEF longer
<1>5. PICK b \in Seq(Seq(Glyphs)) :
        /\ b = Rendered(closed, longer, anchors) /\ Len(b) = n + 1
        /\ \A i \in 1 .. n : b[i] = Spliced(i, closed[i], anchors)
        /\ b[n + 1] = Spliced(n + 1, longer, anchors)
  BY <1>1, <1>3, RenderedIs DEF Renders
<1>6. [a EXCEPT ![n + 1] = @ \o extra] = b
  <2>1. /\ n + 1 \in 1 .. n + 1 /\ \A i \in 1 .. n + 1 : i \in 1 .. n \/ i = n + 1
        /\ \A i \in 1 .. n : i # n + 1
    <3>1. n \in Nat
      BY <1>1
    <3> HIDE DEF n
    <3>2. QED
      BY <3>1
  <2>2. a[n + 1] \o extra = b[n + 1]
    BY <1>2, <1>4, <1>5
  <2>3. b[n + 1] \in Seq(Glyphs)
    BY <1>5, <2>1
  <2>4. PICK z \in Seq(Glyphs) : z = b[n + 1]
    BY <2>3
  <2>5. /\ [a EXCEPT ![n + 1] = z] \in Seq(Seq(Glyphs)) /\ Len([a EXCEPT ![n + 1] = z]) = n + 1
        /\ \A i \in 1 .. n : [a EXCEPT ![n + 1] = z][i] = a[i]
        /\ [a EXCEPT ![n + 1] = z][n + 1] = z
    BY <1>1, <1>4, <2>1
  <2>6. PICK c \in Seq(Seq(Glyphs)) :
          /\ c = [a EXCEPT ![n + 1] = z] /\ Len(c) = n + 1
          /\ \A i \in 1 .. n : c[i] = a[i]
          /\ c[n + 1] = z
    BY <2>5
  <2>7. \A i \in 1 .. n + 1 : c[i] = b[i]
    BY <1>4, <1>5, <2>1, <2>4, <2>6
  <2>8. c = b
    BY <1>5, <2>6, <2>7, SeqEqual
  <2>9. [a EXCEPT ![n + 1] = @ \o extra] = [a EXCEPT ![n + 1] = z]
    BY <2>2, <2>4
  <2>10. QED
    BY <2>6, <2>8, <2>9
<1>7. Screen(closed, line, extra, anchors) = Trimmed([a EXCEPT ![Len(a)] = @ \o extra])
  BY <1>4 DEF Screen
<1>8. QED
  BY <1>3, <1>4, <1>5, <1>6, <1>7 DEF longer

\* The pins of a transcript fit.
LEMMA PinsFitAll ==
  ASSUME TextInv
  PROVE  FitsAll(paragraphs, current, pins)
<1>1. /\ \A i \in 1 .. Len(paragraphs) : Line(i) = paragraphs[i]
      /\ Line(Len(paragraphs) + 1) = current
  BY Lines DEF TextInv
<1>2. \A i : Fits(i, Line(i), pins)
  BY PinsFit
<1>3. QED
  BY <1>1, <1>2 DEF FitsAll

\* What is shown live is what a freeze would give now.
LEMMA LiveIs ==
  ASSUME TextInv
  PROVE  /\ FitsAll(paragraphs, current \o partial, pins)
         /\ LiveText = Trimmed(Rendered(paragraphs, current \o partial, pins))
<1>1. /\ paragraphs \in Seq(Seq(Chars)) /\ current \in Seq(Chars) /\ partial \in Seq(Chars)
      /\ pins \in Seq(Anchor)
  BY DEF TextInv, TextType
<1>2. LiveText = Screen(paragraphs, current, partial, pins)
  BY DEF LiveText, Screen
<1>3. QED
  BY <1>1, <1>2, PinsFitAll, ScreenIs

\* Two texts that make nothing are nothing.
LEMMA NothingJoined ==
  ASSUME NEW a \in Seq(Chars), NEW b \in Seq(Chars), a \o b = <<>>
  PROVE  a = <<>>
<1>1. Len(a \o b) = Len(a) + Len(b) /\ Len(a) \in Nat /\ Len(b) \in Nat
  OBVIOUS
<1>2. Len(a \o b) = 0
  OBVIOUS
<1>3. QED
  BY <1>1, <1>2

\* The screen after a press.
LEMMA PressScreen ==
  ASSUME TextInv, TextInv', NEW q \in Nat, Presses(q)
  PROVE  LET mark == PinMark(Len(pins'))
         IN  LiveText' = IF LiveText = <<>> THEN <<<<mark>>>>
                         ELSE Append(Front(LiveText),
                                     Append(Stripped(Last(LiveText)), mark))
<1>1. PICK n \in Nat : n = Len(paragraphs)
  BY DEF TextInv, TextType
<1>2. PICK line \in Seq(Chars) : line = current' /\ line = current \o partial
  BY DEF Presses
<1>3. /\ paragraphs \in Seq(Seq(Chars)) /\ pins \in Seq(Anchor) /\ pins' \in Seq(Anchor)
      /\ current \in Seq(Chars) /\ partial \in Seq(Chars)
      /\ n = 0 <=> paragraphs = <<>>
      /\ paragraphs' = paragraphs /\ partial' = <<>>
  BY <1>1 DEF TextInv, TextType, Presses
<1>4. PICK more \in Seq(Anchor) : more = pins'
  BY <1>3
<1>5. PICK at \in Seq(Chars) : at = IF q <= n THEN paragraphs[q] ELSE line
  <2>1. q \in 1 .. n + 1
    BY <1>1 DEF Presses
  <2>2. CASE q <= n
    <3>1. q \in 1 .. n
      BY <2>1, <2>2
    <3>2. paragraphs[q] \in Seq(Chars)
      BY <1>1, <1>3, <3>1
    <3>3. QED
      BY <2>2, <3>2
  <2>3. CASE ~(q <= n)
    BY <2>3
  <2>4. QED
    BY <2>2, <2>3
<1>6. /\ q \in 1 .. n + 1
      /\ q = IF line = <<>> /\ paragraphs # <<>> THEN n ELSE n + 1
      /\ Line(q)' = at
      /\ more = Append(pins, [paragraph |-> q, offset |-> Len(at)])
  BY <1>1, <1>2, <1>3, <1>4, <1>5 DEF Presses, Line
<1>7. /\ \A i \in 1 .. n : paragraphs[i] \in Seq(Chars) /\ Line(i)' = paragraphs[i]
      /\ \A i : i = n + 1 => Line(i)' = line
  BY <1>1, <1>2, <1>3 DEF Line
<1>8. FitsAll(paragraphs, line, more)
  <2>1. \A i : Fits(i, Line(i)', pins')
    BY DEF TextInv, PinsLie, Fits
  <2>2. QED
    BY <1>1, <1>4, <1>7, <2>1 DEF FitsAll
<1>9. FitsAll(paragraphs, line, pins) /\ LiveText = Trimmed(Rendered(paragraphs, line, pins))
  BY <1>2, LiveIs
<1>10. LiveText' = Trimmed(Rendered(paragraphs, line, more))
  <2>1. LiveText' = Screen(paragraphs, line, <<>>, more)
    BY <1>2, <1>3, <1>4 DEF LiveText, Screen
  <2>2. <<>> \in Seq(Chars) /\ line \o <<>> = line
    OBVIOUS
  <2>3. Screen(paragraphs, line, <<>>, more) = Trimmed(Rendered(paragraphs, line \o <<>>, more))
    <3>1. PICK none \in Seq(Chars) : none = <<>>
      BY <2>2
    <3>2. Screen(paragraphs, line, none, more) = Trimmed(Rendered(paragraphs, line \o none, more))
      BY <1>3, <1>8, ScreenIs
    <3>3. QED
      BY <3>1, <3>2
  <2>4. QED
    BY <2>1, <2>2, <2>3
<1>11. PICK a \in Seq(Seq(Glyphs)) :
         /\ a = Rendered(paragraphs, line, pins) /\ Len(a) = n + 1
         /\ \A i \in 1 .. n : a[i] = Spliced(i, paragraphs[i], pins)
         /\ a[n + 1] = Spliced(n + 1, line, pins)
  BY <1>1, <1>3, <1>9, RenderedIs DEF Renders
<1>12. PICK b \in Seq(Seq(Glyphs)) :
         /\ b = Rendered(paragraphs, line, more) /\ Len(b) = n + 1
         /\ \A i \in 1 .. n : b[i] = Spliced(i, paragraphs[i], more)
         /\ b[n + 1] = Spliced(n + 1, line, more)
  BY <1>1, <1>3, <1>8, RenderedIs DEF Renders
<1>13. PICK pin \in Anchor : pin = [paragraph |-> q, offset |-> Len(at)]
  <2>1. Len(at) \in Nat
    OBVIOUS
  <2>2. [paragraph |-> q, offset |-> Len(at)] \in Anchor
    BY <2>1 DEF Anchor
  <2>3. QED
    BY <2>2
<1>14. PICK k \in Nat : k = Len(pins) + 1 /\ k = Len(pins')
  <2>1. Len(Append(pins, pin)) = Len(pins) + 1 /\ Len(pins) \in Nat
    BY <1>3
  <2>2. QED
    BY <1>4, <1>6, <1>13, <2>1
<1>15. ASSUME NEW i \in 1 .. n + 1, i # q
       PROVE  b[i] = a[i]
  <2>1. more = Append(pins, pin) /\ pin.paragraph # i
    BY <1>6, <1>13, <1>15
  <2>2. CASE i \in 1 .. n
    <3>1. Fits(i, paragraphs[i], pins) /\ paragraphs[i] \in Seq(Chars)
      BY <1>1, <1>7, <1>9, <2>2 DEF FitsAll
    <3>2. Spliced(i, paragraphs[i], more) = Spliced(i, paragraphs[i], pins)
      BY <1>3, <2>1, <3>1, SplicedOther
    <3>3. QED
      BY <1>11, <1>12, <2>2, <3>2
  <2>3. CASE i = n + 1
    <3>1. Fits(i, line, pins)
      BY <1>1, <1>9, <2>3 DEF FitsAll
    <3>2. Spliced(i, line, more) = Spliced(i, line, pins)
      BY <1>3, <2>1, <3>1, SplicedOther
    <3>3. QED
      BY <1>11, <1>12, <2>3, <3>2
  <2>4. QED
    BY <1>15, <2>2, <2>3
<1>16. b[q] = Append(Stripped(a[q]), PinMark(k))
  <2>1. CASE q \in 1 .. n
    <3>1. at = paragraphs[q] /\ Fits(q, at, pins)
      BY <1>1, <1>5, <1>9, <2>1 DEF FitsAll
    <3>2. Spliced(q, at, more) = Append(Stripped(Spliced(q, at, pins)), PinMark(k))
      <4>1. Spliced(q, at, Append(pins, [paragraph |-> q, offset |-> Len(at)]))
              = Append(Stripped(Spliced(q, at, pins)), PinMark(Len(pins) + 1))
        BY <1>3, <3>1, SplicedPin
      <4>2. QED
        BY <1>6, <1>14, <4>1
    <3>3. QED
      BY <1>11, <1>12, <2>1, <3>1, <3>2
  <2>2. CASE q = n + 1
    <3>1. at = line /\ Fits(q, at, pins)
      BY <1>1, <1>5, <1>9, <2>2 DEF FitsAll
    <3>2. Spliced(q, at, more) = Append(Stripped(Spliced(q, at, pins)), PinMark(k))
      <4>1. Spliced(q, at, Append(pins, [paragraph |-> q, offset |-> Len(at)]))
              = Append(Stripped(Spliced(q, at, pins)), PinMark(Len(pins) + 1))
        BY <1>3, <3>1, SplicedPin
      <4>2. QED
        BY <1>6, <1>14, <4>1
    <3>3. QED
      BY <1>11, <1>12, <2>2, <3>1, <3>2
  <2>3. q \in 1 .. n \/ q = n + 1
    BY <1>6
  <2>4. QED
    BY <2>1, <2>2, <2>3
<1>17. q = n => a[n + 1] = <<>>
  <2> SUFFICES ASSUME q = n
               PROVE  a[n + 1] = <<>>
    OBVIOUS
  <2>1. line = <<>> /\ paragraphs # <<>>
    BY <1>6
  <2>2. current = <<>>
    <3>1. current \o partial = <<>>
      BY <1>2, <2>1
    <3>2. QED
      BY <1>3, <3>1, NothingJoined
  <2>3. \A l \in 1 .. Len(pins) : pins[l].paragraph <= n
    BY <1>1, <2>1, <2>2 DEF TextInv, PinsLie
  <2>4. \A l \in 1 .. Len(pins) : pins[l].paragraph # n + 1
    BY <2>3
  <2>5. Spliced(n + 1, line, pins) = line
    BY <1>3, <2>4, NoneOnLine
  <2>6. QED
    BY <1>11, <2>1, <2>5
<1>18. q = n + 1 /\ a[n + 1] = <<>> => n = 0
  <2> SUFFICES ASSUME q = n + 1, a[n + 1] = <<>>
               PROVE  n = 0
    OBVIOUS
  <2>1. Fits(n + 1, line, pins)
    BY <1>1, <1>9 DEF FitsAll
  <2>2. line = <<>>
    BY <1>3, <1>11, <2>1, SplicedSome
  <2>3. QED
    BY <1>3, <1>6, <2>2
<1>19. PICK mark \in Glyphs : mark = PinMark(k)
  BY DEF Glyphs, Marks
<1>20. Shows(Trimmed(a), Trimmed(b), mark)
  <2>1. q = n \/ q = n + 1
    BY <1>6
  <2>2. b[q] = Append(Stripped(a[q]), mark)
    BY <1>16, <1>19
  <2>3. QED
    <3>1. Marked(a, b, n, q, mark)
      BY <1>11, <1>12, <1>15, <1>17, <1>18, <2>1, <2>2 DEF Marked
    <3>2. QED
      BY <1>6, <3>1, PressShows
<1>21. QED
  BY <1>9, <1>10, <1>11, <1>12, <1>14, <1>19, <1>20 DEF Shows

\* Every step keeps the pins on their lines and the lines with pins as they are.
LEMMA TextKept ==
  ASSUME TextInv, [Next]_vars
  PROVE  TextInv' /\ LinesStay /\ (pins' = pins \/ \E q \in Nat : Presses(q))
<1>0. TextType
  BY DEF TextInv
<1>1. CASE UNCHANGED vars
  <2>1. UNCHANGED <<text, heard, settled>>
    BY <1>1 DEF vars
  <2>2. Grows /\ heard' \in Nat /\ settled' \in Nat /\ pins' = pins
    BY <1>0, <2>1, TextStays DEF text, TextType
  <2>3. QED
    BY <2>2, GrowthKeeps
<1>2. CASE Next
  <2>1. /\ heard' \in Nat /\ settled' \in Nat
        /\ Grows \/ Closes \/ PinText
        /\ pins' # pins => PinText
    BY <1>0, <1>2, Moves
  <2>2. pins' = pins \/ \E q \in Nat : Presses(q)
    BY <2>1, PressIs
  <2>3. CASE Grows
    BY <2>1, <2>2, <2>3, GrowthKeeps
  <2>4. CASE Closes
    BY <2>1, <2>2, <2>4, CloseKeeps
  <2>5. CASE PinText
    BY <2>1, <2>2, <2>5, PressIs, PressKeeps
  <2>6. QED
    BY <2>1, <2>3, <2>4, <2>5
<1>3. QED
  BY <1>1, <1>2

\* There is no text at first, and no pin.
LEMMA InitIsText ==
  ASSUME Init
  PROVE  TextInv
<1>1. /\ paragraphs = <<>> /\ current = <<>> /\ partial = <<>> /\ pins = <<>> /\ snapshot = <<>>
      /\ heard = 0 /\ settled = 0
  BY DEF Init
<1>2. /\ <<>> \in Seq(Seq(Chars)) /\ <<>> \in Seq(Chars) /\ <<>> \in Seq(Anchor)
      /\ Len(<<>>) = 0 /\ \A k \in 1 .. 0 : FALSE
  OBVIOUS
<1>3. QED
  BY <1>1, <1>2 DEF TextInv, TextType, PinsLie

\* What the screen shows up to a pin never changes once the pin is pressed, the
\* pin follows what it shows at the press, and what is frozen is what it shows
\* (Session::pin, splice_pins, live_text, freeze).
THEOREM ScreenStays == Spec => ScreenIsKept
<1>1. Init => TextInv
  BY InitIsText
<1>2. TextInv /\ [Next]_vars => TextInv'
  BY TextKept
<1>3. TextInv /\ [Next]_vars =>
        [/\ \A k \in DOMAIN pins : LeftOf(k)' = LeftOf(k)
         /\ Len(pins') > Len(pins) =>
              LET mark == PinMark(Len(pins'))
              IN LiveText' = IF LiveText = <<>> THEN <<<<mark>>>>
                             ELSE Append(Front(LiveText),
                                         Append(Stripped(Last(LiveText)), mark))
         /\ phase' = "frozen" /\ phase = "recording" => frozen' = LiveText]_vars
  <2> SUFFICES ASSUME TextInv, Next
               PROVE  /\ \A k \in DOMAIN pins : LeftOf(k)' = LeftOf(k)
                      /\ Len(pins') > Len(pins) =>
                           LET mark == PinMark(Len(pins'))
                           IN LiveText' = IF LiveText = <<>> THEN <<<<mark>>>>
                                          ELSE Append(Front(LiveText),
                                                      Append(Stripped(Last(LiveText)), mark))
                      /\ phase' = "frozen" /\ phase = "recording" => frozen' = LiveText
    OBVIOUS
  <2>1. TextInv' /\ LinesStay /\ (pins' = pins \/ \E q \in Nat : Presses(q))
    BY TextKept
  <2>2. \A k \in DOMAIN pins : LeftOf(k)' = LeftOf(k)
    <3>1. DOMAIN pins = 1 .. Len(pins)
      BY DEF TextInv, TextType
    <3>2. QED
      BY <2>1, <3>1, LeftStays
  <2>3. ASSUME Len(pins') > Len(pins)
        PROVE  LET mark == PinMark(Len(pins'))
               IN LiveText' = IF LiveText = <<>> THEN <<<<mark>>>>
                              ELSE Append(Front(LiveText),
                                          Append(Stripped(Last(LiveText)), mark))
    <3>1. pins' # pins
      <4>1. Len(pins) \in Nat
        BY DEF TextInv, TextType
      <4>2. QED
        BY <2>3, <4>1
    <3>2. PICK q \in Nat : Presses(q)
      BY <2>1, <3>1
    <3>3. QED
      BY <2>1, <3>2, PressScreen
  <2>4. phase' = "frozen" /\ phase = "recording" => frozen' = LiveText
    BY Moves, LiveIs DEF TextInv
  <2>5. QED
    BY <2>2, <2>3, <2>4
<1>4. QED
  BY <1>1, <1>2, <1>3, PTL DEF Spec, ScreenIsKept

\* Pins of one line stand in press order.
InOrder ==
  \A k, l \in 1 .. Len(pins) :
    k < l /\ pins[k].paragraph = pins[l].paragraph => pins[k].offset <= pins[l].offset

\* The model places pins in press order; splice_pins sorts the pins of a line by
\* where they lie, which moves none of them.
THEOREM SortMovesNothing == Spec => []InOrder
<1>1. Init => TextInv /\ InOrder
  <2> SUFFICES ASSUME Init
               PROVE  InOrder
    BY InitIsText
  <2>1. pins = <<>> /\ Len(<<>>) = 0 /\ \A k \in 1 .. 0 : FALSE
    BY DEF Init
  <2>2. QED
    BY <2>1 DEF InOrder
<1>2. TextInv /\ InOrder /\ [Next]_vars => TextInv' /\ InOrder'
  <2> SUFFICES ASSUME TextInv, InOrder, [Next]_vars
               PROVE  TextInv' /\ InOrder'
    OBVIOUS
  <2>1. TextInv' /\ (pins' = pins \/ \E q \in Nat : Presses(q))
    BY TextKept
  <2>2. CASE pins' = pins
    BY <2>1, <2>2 DEF InOrder
  <2>3. ASSUME NEW q \in Nat, Presses(q)
        PROVE  InOrder'
    <3>1. PICK m \in Nat : m = Len(Line(q)')
      <4>1. Line(q)' \in Seq(Chars)
        <5>1. /\ paragraphs \in Seq(Seq(Chars)) /\ Len(paragraphs) \in Nat
              /\ paragraphs' = paragraphs /\ current' \in Seq(Chars)
              /\ q \in 1 .. Len(paragraphs) + 1
          BY <2>3 DEF Presses, TextInv, TextType
        <5>2. q <= Len(paragraphs) => q \in 1 .. Len(paragraphs)
          BY <5>1
        <5>3. QED
          BY <5>1, <5>2 DEF Line
      <4>2. QED
        BY <4>1
    <3>2. PICK pin : pin = [paragraph |-> q, offset |-> m]
      OBVIOUS
    <3>3. /\ Len(pins') = Len(pins) + 1 /\ pins'[Len(pins) + 1] = pin
          /\ \A k \in 1 .. Len(pins) : pins'[k] = pins[k]
          /\ Len(pins) \in Nat
      BY <2>3, <3>1, <3>2 DEF Presses, TextInv, TextType
    <3> SUFFICES ASSUME NEW k \in 1 .. Len(pins) + 1, NEW l \in 1 .. Len(pins) + 1, k < l,
                        pins'[k].paragraph = pins'[l].paragraph
                 PROVE  pins'[k].offset <= pins'[l].offset
      BY <3>3 DEF InOrder
    <3>4. k \in 1 .. Len(pins)
      BY <3>3
    <3>5. CASE l \in 1 .. Len(pins)
      BY <3>3, <3>4, <3>5 DEF InOrder
    <3>6. CASE l = Len(pins) + 1
      <4>1. pins'[l].paragraph = q /\ pins'[l].offset = m
        BY <3>2, <3>3, <3>6
      <4>2. \A p : p = pins'[k].paragraph => pins'[k].offset <= Len(Line(p)')
        BY <2>1, <3>3, <3>4 DEF TextInv, PinsLie
      <4>3. QED
        BY <3>1, <4>1, <4>2
    <3>7. QED
      BY <3>3, <3>5, <3>6
  <2>4. QED
    BY <2>1, <2>2, <2>3
<1>3. QED
  BY <1>1, <1>2, PTL DEF Spec

-----------------------------------------------------------------------------
(* The words *)

\* The words of two texts put together, and whether they stand in order.
LEMMA WordsJoined ==
  ASSUME NEW S, NEW a \in Seq(S), NEW b \in Seq(S)
  PROVE  /\ WordsOf(a \o b) = WordsOf(a) \cup WordsOf(b)
         /\ Rising(a \o b) <=> /\ Rising(a) /\ Rising(b)
                               /\ \A v \in WordsOf(a), w \in WordsOf(b) : v < w
<1> DEFINE c == a \o b
           m == Len(a)
           n == Len(b)
<1>1. /\ m \in Nat /\ n \in Nat
      /\ DOMAIN a = 1 .. m /\ DOMAIN b = 1 .. n /\ DOMAIN c = 1 .. m + n
      /\ \A j \in 1 .. m : c[j] = a[j]
      /\ \A j \in 1 .. n : c[m + j] = b[j]
  OBVIOUS
<1> HIDE DEF c, m, n
<1>2. \A j \in DOMAIN c : j \in DOMAIN a \/ (j - m \in DOMAIN b /\ j = m + (j - m))
  BY <1>1
<1>3. \A j \in DOMAIN a : j \in DOMAIN c /\ c[j] = a[j]
  BY <1>1
<1>4. \A j \in DOMAIN b : m + j \in DOMAIN c /\ c[m + j] = b[j]
  BY <1>1
<1>5. WordsOf(c) = WordsOf(a) \cup WordsOf(b)
  <2>1. ASSUME NEW v \in WordsOf(c)
        PROVE  v \in WordsOf(a) \cup WordsOf(b)
    <3>1. PICK j \in DOMAIN c : c[j][1] = "word" /\ v = c[j][2]
      BY <2>1 DEF WordsOf
    <3>2. CASE j \in DOMAIN a
      BY <1>3, <3>1, <3>2 DEF WordsOf
    <3>3. CASE j - m \in DOMAIN b /\ j = m + (j - m)
      <4>1. c[j] = b[j - m]
        BY <1>4, <3>3
      <4>2. QED
        BY <3>1, <3>3, <4>1 DEF WordsOf
    <3>4. QED
      BY <1>2, <3>2, <3>3
  <2>2. ASSUME NEW v \in WordsOf(a)
        PROVE  v \in WordsOf(c)
    BY <1>3 DEF WordsOf
  <2>3. ASSUME NEW v \in WordsOf(b)
        PROVE  v \in WordsOf(c)
    BY <1>4 DEF WordsOf
  <2>4. QED
    BY <2>1, <2>2, <2>3
<1>6. ASSUME Rising(c)
      PROVE  /\ Rising(a) /\ Rising(b)
             /\ \A v \in WordsOf(a), w \in WordsOf(b) : v < w
  <2>1. Rising(a)
    BY <1>3, <1>6 DEF Rising
  <2>2. Rising(b)
    <3> SUFFICES ASSUME NEW j \in DOMAIN b, NEW k \in DOMAIN b, j < k,
                        b[j][1] = "word", b[k][1] = "word"
                 PROVE  b[j][2] < b[k][2]
      BY DEF Rising
    <3>1. m + j < m + k
      BY <1>1
    <3>2. QED
      BY <1>4, <1>6, <3>1 DEF Rising
  <2>3. ASSUME NEW v \in WordsOf(a), NEW w \in WordsOf(b)
        PROVE  v < w
    <3>1. PICK j \in DOMAIN a : a[j][1] = "word" /\ v = a[j][2]
      BY DEF WordsOf
    <3>2. PICK k \in DOMAIN b : b[k][1] = "word" /\ w = b[k][2]
      BY DEF WordsOf
    <3>3. j < m + k
      BY <1>1
    <3>4. QED
      BY <1>3, <1>4, <1>6, <3>1, <3>2, <3>3 DEF Rising
  <2>4. QED
    BY <2>1, <2>2, <2>3
<1>7. ASSUME Rising(a), Rising(b), \A v \in WordsOf(a), w \in WordsOf(b) : v < w
      PROVE  Rising(c)
  <2> SUFFICES ASSUME NEW j \in DOMAIN c, NEW k \in DOMAIN c, j < k,
                      c[j][1] = "word", c[k][1] = "word"
               PROVE  c[j][2] < c[k][2]
    BY DEF Rising
  <2>1. CASE k \in DOMAIN a
    <3>1. j \in DOMAIN a
      BY <1>1, <2>1
    <3>2. QED
      BY <1>3, <1>7, <2>1, <3>1 DEF Rising
  <2>2. CASE k - m \in DOMAIN b /\ k = m + (k - m)
    <3>1. c[k] = b[k - m]
      BY <1>4, <2>2
    <3>2. CASE j \in DOMAIN a
      <4>1. c[j][2] \in WordsOf(a)
        BY <1>3, <3>2 DEF WordsOf
      <4>2. c[k][2] \in WordsOf(b)
        BY <2>2, <3>1 DEF WordsOf
      <4>3. QED
        BY <1>7, <4>1, <4>2
    <3>3. CASE j - m \in DOMAIN b /\ j = m + (j - m)
      <4>1. c[j] = b[j - m]
        BY <1>4, <3>3
      <4>2. j - m < k - m
        BY <1>1
      <4>3. QED
        BY <1>7, <2>2, <3>1, <3>3, <4>1, <4>2 DEF Rising
    <3>4. QED
      BY <1>2, <3>2, <3>3
  <2>3. QED
    BY <1>2, <2>1, <2>2
<1>8. QED
  BY <1>5, <1>6, <1>7 DEF c

\* The second text says what the first does.
Says(a, b) == WordsOf(a) = WordsOf(b) /\ (Rising(a) => Rising(b))

\* What two texts say together depends only on what each says.
LEMMA SaysJoined ==
  ASSUME NEW S, NEW a \in Seq(S), NEW b \in Seq(S), NEW c \in Seq(S), NEW d \in Seq(S),
         Says(a, c), Says(b, d)
  PROVE  Says(a \o b, c \o d)
<1>1. /\ WordsOf(a \o b) = WordsOf(a) \cup WordsOf(b)
      /\ Rising(a \o b) => /\ Rising(a) /\ Rising(b)
                           /\ \A v \in WordsOf(a), w \in WordsOf(b) : v < w
  BY WordsJoined
<1>2. /\ WordsOf(c \o d) = WordsOf(c) \cup WordsOf(d)
      /\ /\ Rising(c) /\ Rising(d)
         /\ \A v \in WordsOf(c), w \in WordsOf(d) : v < w
         => Rising(c \o d)
  BY WordsJoined
<1>3. QED
  BY <1>1, <1>2 DEF Says

\* A text without a word says nothing.
LEMMA NoWords ==
  ASSUME NEW S, NEW line \in Seq(S), \A j \in 1 .. Len(line) : line[j][1] # "word"
  PROVE  WordsOf(line) = {} /\ Rising(line)
<1>1. DOMAIN line = 1 .. Len(line)
  OBVIOUS
<1>2. QED
  BY <1>1 DEF WordsOf, Rising

\* A text cut in two.
LEMMA CutInTwo ==
  ASSUME NEW S, NEW line \in Seq(S), NEW e \in 0 .. Len(line)
  PROVE  LET left == SubSeq(line, 1, e)
             right == SubSeq(line, e + 1, Len(line))
         IN  /\ left \in Seq(S) /\ right \in Seq(S) /\ line = left \o right
             /\ Len(left) = e /\ Len(right) = Len(line) - e
             /\ \A j \in 1 .. Len(right) : right[j] = line[e + j] /\ e + j \in e + 1 .. Len(line)
<1> DEFINE left == SubSeq(line, 1, e)
           right == SubSeq(line, e + 1, Len(line))
           both == left \o right
<1>1. /\ Len(line) \in Nat /\ e \in Nat /\ e <= Len(line)
      /\ \A j \in 1 .. Len(line) : line[j] \in S
  OBVIOUS
<1>2. /\ left \in Seq(S) /\ Len(left) = e /\ \A j \in 1 .. e : left[j] = line[j]
  BY <1>1
<1>3. PICK d \in Nat : d = Len(line) - e
  BY <1>1
<1>4. /\ right \in Seq(S) /\ Len(right) = d /\ \A j \in 1 .. d : right[j] = line[e + j]
  BY <1>1, <1>3
<1> HIDE DEF left, right
<1>5. /\ both \in Seq(S) /\ Len(both) = e + d
      /\ \A j \in 1 .. e : both[j] = left[j]
      /\ \A j \in e + 1 .. e + d : both[j] = right[j - e]
  <2>1. left \in Seq(S) /\ right \in Seq(S)
    BY <1>2, <1>4
  <2>2. /\ both \in Seq(S) /\ Len(both) = Len(left) + Len(right)
        /\ \A j \in 1 .. Len(left) : both[j] = left[j]
        /\ \A j \in Len(left) + 1 .. Len(left) + Len(right) : both[j] = right[j - Len(left)]
    BY <2>1
  <2> HIDE DEF both
  <2>3. QED
    BY <1>2, <1>4, <2>2
<1> HIDE DEF both
<1>6. \A j \in 1 .. Len(line) : line[j] = both[j]
  <2> TAKE j \in 1 .. Len(line)
  <2>1. CASE j <= e
    BY <1>1, <1>2, <1>5, <2>1
  <2>2. CASE j > e
    <3>1. j - e \in 1 .. d /\ j = e + (j - e) /\ j \in e + 1 .. e + d
      BY <1>1, <1>3, <2>2
    <3>2. QED
      BY <1>4, <1>5, <3>1
  <2>3. QED
    BY <1>1, <2>1, <2>2
<1>7. line = both
  BY <1>1, <1>3, <1>5, <1>6, SeqEqual
<1>8. \A j \in 1 .. d : e + j \in e + 1 .. Len(line)
  BY <1>1, <1>3
<1>9. QED
  BY <1>2, <1>3, <1>4, <1>7, <1>8 DEF left, right, both

\* Punctuation that a pin strips is no word.
LEMMA StrippedSays ==
  ASSUME NEW S, NEW line \in Seq(S)
  PROVE  Says(line, Stripped(line))
<1>1. PICK e \in 0 .. Len(line) : Ends(line, e)
  BY EndsSomewhere
<1> DEFINE left == SubSeq(line, 1, e)
           right == SubSeq(line, e + 1, Len(line))
<1>2. /\ left \in Seq(S) /\ right \in Seq(S) /\ line = left \o right
      /\ \A j \in 1 .. Len(right) : right[j] = line[e + j] /\ e + j \in e + 1 .. Len(line)
  BY CutInTwo
<1>3. Stripped(line) = left
  BY <1>1, StrippedIs
<1> HIDE DEF left, right
<1>4. \A j \in 1 .. Len(right) : right[j] = Punct
  BY <1>1, <1>2 DEF Ends
<1>5. WordsOf(right) = {} /\ Rising(right)
  <2>1. Punct[1] # "word"
    BY DEF Punct
  <2>2. QED
    BY <1>2, <1>4, <2>1, NoWords
<1>6. WordsOf(line) = WordsOf(left) /\ (Rising(line) => Rising(left))
  <2>1. /\ WordsOf(left \o right) = WordsOf(left) \cup WordsOf(right)
        /\ Rising(left \o right) => Rising(left)
    BY <1>2, WordsJoined
  <2>2. QED
    BY <1>2, <1>5, <2>1
<1>7. QED
  BY <1>3, <1>6 DEF Says

\* The pins on line i are sorted.
Sorted(i, anchors) ==
  \A k, l \in 1 .. Len(anchors) :
    k < l /\ anchors[k].paragraph = i /\ anchors[l].paragraph = i =>
      anchors[k].offset <= anchors[l].offset

\* What a pin places says what the text between it and the pin before it does.
LEMMA CutSays ==
  ASSUME NEW i, NEW line \in Seq(Chars), NEW k \in Nat \ {0}, NEW pin \in Anchor,
         NEW before, Sound(before, line, k - 1),
         Says(SubSeq(line, 1, before.prev), before.out),
         pin.paragraph = i => before.prev <= pin.offset /\ pin.offset <= Len(line)
  PROVE  LET after == Cut(i, line, pin, PinMark(k), before)
         IN  Says(SubSeq(line, 1, after.prev), after.out)
<1>1. CASE pin.paragraph # i
  BY <1>1 DEF Cut
<1>2. CASE pin.paragraph = i
  <2> DEFINE v == before.prev
             m == pin.offset
             piece == SubSeq(line, v + 1, m)
             upTo == SubSeq(line, 1, m)
             left == SubSeq(line, 1, v)
             x == Stripped(piece)
             mark == <<PinMark(k)>>
  <2>1. /\ v \in Nat /\ m \in Nat /\ v <= m /\ m <= Len(line) /\ Len(line) \in Nat
        /\ before.out \in Seq(Glyphs)
    BY <1>2 DEF Sound, Parts, Anchor
  <2>2. Cut(i, line, pin, PinMark(k), before) = [out |-> before.out \o x \o mark, prev |-> m]
    BY <1>2 DEF Cut
  <2> HIDE DEF v, m
  <2>3. upTo \in Seq(Chars) /\ Len(upTo) = m /\ \A j \in 1 .. m : upTo[j] = line[j]
    BY <2>1
  <2>4. /\ SubSeq(upTo, 1, v) = left /\ SubSeq(upTo, v + 1, Len(upTo)) = piece
    <3>1. /\ left \in Seq(Chars) /\ Len(left) = v /\ \A j \in 1 .. v : left[j] = line[j]
      BY <2>1
    <3>2. /\ piece \in Seq(Chars) /\ Len(piece) = m - v
          /\ \A j \in 1 .. m - v : piece[j] = line[v + j]
      BY <2>1
    <3> HIDE DEF upTo, left, piece
    <3>3. PICK t \in Seq(Chars) : t = upTo
      BY <2>3
    <3>4. /\ SubSeq(t, 1, v) \in Seq(Chars) /\ Len(SubSeq(t, 1, v)) = v
          /\ \A j \in 1 .. v : SubSeq(t, 1, v)[j] = t[j]
      BY <2>1, <2>3, <3>3
    <3>5. /\ SubSeq(t, v + 1, m) \in Seq(Chars) /\ Len(SubSeq(t, v + 1, m)) = m - v
          /\ \A j \in 1 .. m - v : SubSeq(t, v + 1, m)[j] = t[v + j]
      BY <2>1, <2>3, <3>3
    <3>6. SubSeq(t, 1, v) = left
      <4>1. \A j \in 1 .. v : SubSeq(t, 1, v)[j] = left[j]
        BY <2>1, <2>3, <3>1, <3>3, <3>4
      <4>2. QED
        BY <3>1, <3>4, <4>1, SeqEqual
    <3>7. SubSeq(t, v + 1, m) = piece
      <4>1. \A j \in 1 .. m - v : v + j \in 1 .. m
        BY <2>1
      <4>2. \A j \in 1 .. m - v : SubSeq(t, v + 1, m)[j] = piece[j]
        BY <2>3, <3>2, <3>3, <3>5, <4>1
      <4>3. QED
        BY <3>2, <3>5, <4>2, SeqEqual
    <3>8. QED
      BY <2>3, <3>3, <3>6, <3>7
  <2> HIDE DEF upTo, left, piece
  <2>5. left \in Seq(Chars) /\ piece \in Seq(Chars) /\ upTo = left \o piece
    <3>1. v \in 0 .. Len(upTo)
      BY <2>1, <2>3
    <3>2. QED
      BY <2>3, <2>4, <3>1, CutInTwo
  <2>6. x \in Seq(Chars) /\ Says(piece, x)
    BY <2>5, StrippedSays, StrippedType
  <2> HIDE DEF x, mark
  <2>7. mark \in Seq(Glyphs) /\ WordsOf(mark) = {} /\ Rising(mark)
    <3>1. PinMark(k) \in Glyphs /\ PinMark(k)[1] # "word"
      BY DEF Glyphs, Marks, PinMark
    <3>2. mark \in Seq(Glyphs) /\ Len(mark) = 1 /\ mark[1] = PinMark(k)
      BY <3>1 DEF mark
    <3>3. QED
      BY <3>1, <3>2, NoWords
  <2>8. Says(left \o piece, before.out \o x)
    <3>1. /\ left \in Seq(Glyphs) /\ piece \in Seq(Glyphs) /\ x \in Seq(Glyphs)
      BY <2>5, <2>6 DEF Glyphs
    <3>2. Says(left, before.out)
      BY DEF left, v
    <3>3. QED
      BY <2>1, <2>6, <3>1, <3>2, SaysJoined
  <2>9. Says(upTo, before.out \o x \o mark)
    <3>1. x \in Seq(Glyphs)
      BY <2>6 DEF Glyphs
    <3>2. before.out \o x \in Seq(Glyphs)
      BY <2>1, <3>1
    <3>3. PICK y \in Seq(Glyphs) : y = before.out \o x
      BY <3>2
    <3>4. WordsOf(y \o mark) = WordsOf(y) /\ (Rising(y) => Rising(y \o mark))
      BY <2>7, WordsJoined
    <3>5. QED
      BY <2>5, <2>8, <3>3, <3>4 DEF Says
  <2>10. QED
    BY <2>2, <2>9 DEF upTo
<1>3. QED
  BY <1>1, <1>2

\* What pins place says what the text up to the last of them does.
LEMMA PlacedSays ==
  ASSUME NEW i, NEW line \in Seq(Chars), NEW anchors \in Seq(Anchor),
         Fits(i, line, anchors), Sorted(i, anchors), NEW k \in 0 .. Len(anchors)
  PROVE  LET part == Placed(i, line, anchors)[k]
         IN  Says(SubSeq(line, 1, part.prev), part.out)
<1> DEFINE n == Len(anchors)
           a == Placed(i, line, anchors)
           Good(m) == /\ Says(SubSeq(line, 1, a[m].prev), a[m].out)
                      /\ \A l \in m + 1 .. n :
                           anchors[l].paragraph = i => a[m].prev <= anchors[l].offset
           bad == {m \in Nat : m <= n /\ ~Good(m)}
<1>1. n \in Nat
  OBVIOUS
<1>2. Good(0)
  <2>1. a[0].out = <<>> /\ a[0].prev = 0
    BY PlacedIs
  <2> HIDE DEF a
  <2>2. SubSeq(line, 1, 0) = <<>>
    OBVIOUS
  <2>3. \A l \in 0 + 1 .. n : 0 <= anchors[l].offset
    <3>1. \A l \in 0 + 1 .. n : anchors[l] \in Anchor
      OBVIOUS
    <3>2. \A pin \in Anchor : 0 <= pin.offset
      BY DEF Anchor
    <3>3. QED
      BY <3>1, <3>2
  <2>4. Says(SubSeq(line, 1, a[0].prev), a[0].out)
    BY <2>1, <2>2 DEF Says
  <2>5. QED
    BY <2>1, <2>3, <2>4
<1>3. ASSUME NEW m \in bad, m - 1 \in Nat
      PROVE  m - 1 \in bad
  <2> SUFFICES ASSUME Good(m - 1)
               PROVE  Good(m)
    <3> HIDE DEF Good
    <3>1. QED
      BY <1>1, <1>3
  <2>1. m \in 1 .. n /\ m \in Nat \ {0} /\ m - 1 \in 0 .. n /\ m \in (m - 1) + 1 .. n
    BY <1>1, <1>3
  <2>2. a[m] = Cut(i, line, anchors[m], PinMark(m), a[m - 1])
    BY <2>1, PlacedIs
  <2>3. /\ anchors[m] \in Anchor
        /\ anchors[m].paragraph = i =>
             a[m - 1].prev <= anchors[m].offset /\ anchors[m].offset <= Len(line)
    BY <2>1 DEF Fits
  <2>4. Sound(a[m - 1], line, m - 1)
    BY <2>1, PlacedSound
  <2>5. Says(SubSeq(line, 1, a[m - 1].prev), a[m - 1].out)
    OBVIOUS
  <2>6. \A l \in m + 1 .. n : l \in (m - 1) + 1 .. n /\ l \in 1 .. n /\ m < l
    BY <1>1, <2>1
  <2>7. \A l \in m + 1 .. n : anchors[l].paragraph = i => a[m - 1].prev <= anchors[l].offset
    BY <2>6
  <2> HIDE DEF a
  <2>8. Says(SubSeq(line, 1, a[m].prev), a[m].out)
    BY <2>1, <2>2, <2>3, <2>4, <2>5, CutSays
  <2>9. ASSUME NEW l \in m + 1 .. n, anchors[l].paragraph = i
        PROVE  a[m].prev <= anchors[l].offset
    <3>1. CASE anchors[m].paragraph = i
      BY <2>1, <2>2, <2>6, <2>9, <3>1 DEF Cut, Sorted
    <3>2. CASE anchors[m].paragraph # i
      BY <2>2, <2>7, <2>9, <3>2 DEF Cut
    <3>3. QED
      BY <3>1, <3>2
  <2>10. QED
    BY <2>8, <2>9
<1> HIDE DEF Good
<1>4. bad \in SUBSET Nat /\ 0 \notin bad /\ \A m \in bad : m - 1 \in Nat => m - 1 \in bad
  BY <1>2, <1>3
<1> HIDE DEF bad
<1>5. bad = {}
  BY <1>4, NoLeast
<1>6. Good(k)
  BY <1>1, <1>5 DEF bad
<1>7. QED
  BY <1>6 DEF Good

\* A line with its pins says what it says without them.
LEMMA SplicedSays ==
  ASSUME NEW i, NEW line \in Seq(Chars), NEW anchors \in Seq(Anchor),
         Fits(i, line, anchors), Sorted(i, anchors)
  PROVE  Says(line, Spliced(i, line, anchors))
<1> DEFINE part == Placed(i, line, anchors)[Len(anchors)]
           v == part.prev
           left == SubSeq(line, 1, v)
           right == Behind(line, part)
<1>1. Says(left, part.out)
  <2>1. Len(anchors) \in 0 .. Len(anchors)
    OBVIOUS
  <2>2. QED
    BY <2>1, PlacedSays
<1>2. /\ v \in Nat /\ v <= Len(line) /\ part.out \in Seq(Glyphs)
      /\ Spliced(i, line, anchors) = part.out \o right
  BY SplicedIs DEF IsWhole
<1> HIDE DEF part
<1>3. v \in 0 .. Len(line)
  BY <1>2
<1>4. /\ left \in Seq(Chars) /\ right \in Seq(Chars) /\ line = left \o right
  BY <1>3, CutInTwo DEF Behind
<1> HIDE DEF left, right
<1>5. left \in Seq(Glyphs) /\ right \in Seq(Glyphs) /\ Says(right, right)
  BY <1>4 DEF Glyphs, Says
<1>6. QED
  BY <1>1, <1>2, <1>4, <1>5, SaysJoined

\* Lines that say the same one by one hold the same words.
LEMMA OnceSays ==
  ASSUME NEW n, NEW a, NEW b, DOMAIN a = DOMAIN b,
         \A i \in DOMAIN a : Says(a[i], b[i]), EachOnce(a, n)
  PROVE  EachOnce(b, n)
<1>1. \A i \in DOMAIN a : WordsOf(a[i]) = WordsOf(b[i]) /\ (Rising(a[i]) => Rising(b[i]))
  BY DEF Says
<1>2. WordsOn(b) = WordsOn(a)
  BY <1>1 DEF WordsOn
<1>3. \A i \in DOMAIN b : Rising(b[i])
  BY <1>1 DEF EachOnce
<1>4. \A i, k \in DOMAIN b : i < k => \A v \in WordsOf(b[i]), w \in WordsOf(b[k]) : v < w
  BY <1>1 DEF EachOnce
<1>5. QED
  BY <1>2, <1>3, <1>4 DEF EachOnce

\* A line more, put behind the others.
LEMMA OnceAppended ==
  ASSUME NEW S, NEW lines \in Seq(Seq(S)), NEW line \in Seq(S), NEW n
  PROVE  EachOnce(Append(lines, line), n) <=>
           /\ WordsOn(lines) \cup WordsOf(line) = 1 .. n
           /\ Rising(line) /\ \A i \in DOMAIN lines : Rising(lines[i])
           /\ \A i, k \in DOMAIN lines :
                i < k => \A v \in WordsOf(lines[i]), w \in WordsOf(lines[k]) : v < w
           /\ \A i \in DOMAIN lines : \A v \in WordsOf(lines[i]), w \in WordsOf(line) : v < w
<1> DEFINE m == Len(lines)
           all == Append(lines, line)
<1>1. /\ m \in Nat /\ DOMAIN lines = 1 .. m /\ DOMAIN all = 1 .. m + 1
      /\ \A i \in 1 .. m : all[i] = lines[i]
      /\ all[m + 1] = line
  OBVIOUS
<1> HIDE DEF m, all
<1>2. /\ \A i \in DOMAIN lines : i \in DOMAIN all /\ all[i] = lines[i] /\ i < m + 1
      /\ m + 1 \in DOMAIN all
      /\ \A i \in DOMAIN all : i \in DOMAIN lines \/ i = m + 1
      /\ \A i, k \in DOMAIN all : i < k => i \in DOMAIN lines
  BY <1>1
<1>3. WordsOn(all)
        = WordsOn(lines) \cup WordsOf(line)
  <2>1. ASSUME NEW v \in WordsOn(all)
        PROVE  v \in WordsOn(lines) \cup WordsOf(line)
    <3>1. PICK i \in DOMAIN all : v \in WordsOf(all[i])
      BY DEF WordsOn
    <3>2. CASE i \in DOMAIN lines
      BY <1>2, <3>1, <3>2 DEF WordsOn
    <3>3. CASE i = m + 1
      <4>1. all[i] = line
        BY <1>1, <3>3
      <4>2. QED
        BY <3>1, <4>1
    <3>4. QED
      BY <1>2, <3>2, <3>3
  <2>2. ASSUME NEW v \in WordsOn(lines)
        PROVE  v \in WordsOn(all)
    BY <1>2 DEF WordsOn
  <2>3. ASSUME NEW v \in WordsOf(line)
        PROVE  v \in WordsOn(all)
    BY <1>1, <1>2 DEF WordsOn
  <2>4. QED
    BY <2>1, <2>2, <2>3
<1>4. (\A i \in DOMAIN all : Rising(all[i]))
        <=> Rising(line) /\ \A i \in DOMAIN lines : Rising(lines[i])
  BY <1>1, <1>2
<1>5. (\A i, k \in DOMAIN all : i < k => \A v \in WordsOf(all[i]), w \in WordsOf(all[k]) : v < w)
        <=> /\ \A i, k \in DOMAIN lines :
                 i < k => \A v \in WordsOf(lines[i]), w \in WordsOf(lines[k]) : v < w
            /\ \A i \in DOMAIN lines : \A v \in WordsOf(lines[i]), w \in WordsOf(line) : v < w
  BY <1>1, <1>2
<1>6. QED
  BY <1>3, <1>4, <1>5 DEF EachOnce, all

\* Words that go on where the lines end, put behind the last.
LEMMA OnceGrows ==
  ASSUME NEW S, NEW lines \in Seq(Seq(S)), NEW line \in Seq(S), NEW extra \in Seq(S),
         NEW m \in Nat, NEW n \in Nat, m <= n, EachOnce(Append(lines, line), m),
         WordsOf(extra) = m + 1 .. n, Rising(extra)
  PROVE  EachOnce(Append(lines, line \o extra), n)
<1> DEFINE words == WordsOn(lines)
<1>1. /\ words \cup WordsOf(line) = 1 .. m
      /\ Rising(line) /\ \A i \in DOMAIN lines : Rising(lines[i])
      /\ \A i, k \in DOMAIN lines :
           i < k => \A v \in WordsOf(lines[i]), w \in WordsOf(lines[k]) : v < w
      /\ \A i \in DOMAIN lines : \A v \in WordsOf(lines[i]), w \in WordsOf(line) : v < w
  BY OnceAppended
<1>2. \A i \in DOMAIN lines : WordsOf(lines[i]) \subseteq 1 .. m
  BY <1>1 DEF WordsOn
<1> HIDE DEF words
<1>3. WordsOf(line) \subseteq 1 .. m /\ \A v \in 1 .. m, w \in m + 1 .. n : v < w
  BY <1>1
<1>4. /\ WordsOf(line \o extra) = WordsOf(line) \cup WordsOf(extra)
      /\ /\ Rising(line) /\ Rising(extra) /\ \A v \in WordsOf(line), w \in WordsOf(extra) : v < w
         => Rising(line \o extra)
  BY WordsJoined
<1>5. Rising(line \o extra)
  BY <1>1, <1>3, <1>4
<1>6. words \cup WordsOf(line \o extra) = 1 .. n
  <2>1. (1 .. m) \cup (m + 1 .. n) = 1 .. n
    OBVIOUS
  <2>2. QED
    BY <1>1, <1>4, <2>1
<1>7. \A i \in DOMAIN lines : \A v \in WordsOf(lines[i]), w \in WordsOf(line \o extra) : v < w
  BY <1>1, <1>2, <1>3, <1>4
<1>8. line \o extra \in Seq(S)
  OBVIOUS
<1>9. PICK longer \in Seq(S) : longer = line \o extra
  BY <1>8
<1>10. QED
  BY <1>1, <1>5, <1>6, <1>7, <1>9, OnceAppended DEF words

\* A sentence says its words.
LEMMA SentenceSays ==
  ASSUME NEW m \in Nat, NEW n \in Nat, m <= n
  PROVE  /\ Sentence(m + 1, n) \in Seq(Chars) /\ Len(Sentence(m + 1, n)) = n - m
         /\ \A j \in 1 .. n - m : Sentence(m + 1, n)[j] = Word(m + j)
         /\ WordsOf(Sentence(m + 1, n)) = m + 1 .. n /\ Rising(Sentence(m + 1, n))
<1> DEFINE s == Sentence(m + 1, n)
<1>1. n - m \in Nat /\ n - (m + 1) + 1 = n - m /\ \A j \in 1 .. n - m : (m + 1) + j - 1 = m + j
  OBVIOUS
<1>2. s = [j \in 1 .. n - m |-> Word(m + j)]
  BY <1>1 DEF Sentence
<1> HIDE DEF s
<1>3. \A j \in 1 .. n - m : Word(m + j) \in Chars
  BY DEF Chars
<1>4. /\ s \in Seq(Chars) /\ Len(s) = n - m /\ DOMAIN s = 1 .. n - m
      /\ \A j \in 1 .. n - m : s[j] = Word(m + j)
  BY <1>1, <1>2, <1>3
<1>5. \A j \in 1 .. n - m : s[j][1] = "word" /\ s[j][2] = m + j
  BY <1>4 DEF Word
<1>6. WordsOf(s) = m + 1 .. n
  <2>1. \A j \in 1 .. n - m : m + j \in m + 1 .. n
    OBVIOUS
  <2>2. ASSUME NEW v \in m + 1 .. n
        PROVE  v \in WordsOf(s)
    <3>1. v - m \in 1 .. n - m /\ m + (v - m) = v
      OBVIOUS
    <3>2. QED
      BY <1>4, <1>5, <3>1 DEF WordsOf
  <2>3. WordsOf(s) \subseteq m + 1 .. n
    BY <1>4, <1>5, <2>1 DEF WordsOf
  <2>4. QED
    BY <2>2, <2>3
<1>7. Rising(s)
  BY <1>4, <1>5 DEF Rising
<1>8. QED
  BY <1>4, <1>6, <1>7 DEF s

\* Behind a part that says its first words, a text says the others.
LEMMA RestSays ==
  ASSUME NEW line \in Seq(Chars), NEW k \in 0 .. Len(line),
         NEW m \in Nat, NEW h \in Nat, NEW n \in Nat, m <= h, h <= n,
         WordsOf(line) = m + 1 .. n, Rising(line),
         WordsOf(SubSeq(line, 1, k)) = m + 1 .. h
  PROVE  LET rest == SubSeq(line, k + 1, Len(line))
         IN  rest \in Seq(Chars) /\ WordsOf(rest) = h + 1 .. n /\ Rising(rest)
<1> DEFINE left == SubSeq(line, 1, k)
           rest == SubSeq(line, k + 1, Len(line))
<1>1. left \in Seq(Chars) /\ rest \in Seq(Chars) /\ line = left \o rest
  BY CutInTwo
<1>2. WordsOf(left) = m + 1 .. h
  OBVIOUS
<1> HIDE DEF left, rest
<1>3. /\ WordsOf(left \o rest) = WordsOf(left) \cup WordsOf(rest)
      /\ Rising(left \o rest) => /\ Rising(rest)
                                 /\ \A v \in WordsOf(left), w \in WordsOf(rest) : v < w
  BY <1>1, WordsJoined
<1>4. /\ m + 1 .. n = (m + 1 .. h) \cup WordsOf(rest) /\ Rising(rest)
      /\ \A v \in m + 1 .. h, w \in WordsOf(rest) : v < w
  BY <1>1, <1>2, <1>3
<1>5. WordsOf(rest) = h + 1 .. n
  <2>1. ASSUME NEW w \in WordsOf(rest)
        PROVE  w \in h + 1 .. n
    <3>1. w \in m + 1 .. n
      BY <1>4
    <3>2. w <= h => w \in m + 1 .. h /\ ~(w < w)
      BY <3>1
    <3>3. QED
      BY <1>4, <3>1, <3>2
  <2>2. ASSUME NEW w \in h + 1 .. n
        PROVE  w \in WordsOf(rest)
    <3>1. w \in m + 1 .. n /\ w \notin m + 1 .. h
      OBVIOUS
    <3>2. QED
      BY <1>4, <3>1
  <2>3. QED
    BY <2>1, <2>2
<1>6. QED
  BY <1>1, <1>4, <1>5 DEF rest

\* An empty last line that is dropped takes no word along.
LEMMA OnceTrimmed ==
  ASSUME NEW lines \in Seq(Seq(Glyphs)), NEW n, EachOnce(lines, n), lines # <<>>
  PROVE  EachOnce(Trimmed(lines), n)
<1>1. CASE Last(lines) # <<>>
  BY <1>1 DEF Trimmed
<1>2. CASE Last(lines) = <<>>
  <2>1. /\ Front(lines) \in Seq(Seq(Glyphs)) /\ lines = Append(Front(lines), Last(lines))
    <3>1. PICK m \in Nat : Len(lines) = m + 1
      <4>1. Len(lines) \in Nat /\ Len(lines) # 0
        OBVIOUS
      <4>2. Len(lines) - 1 \in Nat /\ Len(lines) = (Len(lines) - 1) + 1
        BY <4>1
      <4>3. QED
        BY <4>2
    <3>2. Fronted(lines, m)
      BY <3>1, FrontIs
    <3>3. QED
      BY <3>1, <3>2, SeqEqual DEF Fronted
  <2>2. PICK front \in Seq(Seq(Glyphs)) : front = Front(lines)
    BY <2>1
  <2>3. PICK none \in Seq(Glyphs) : none = <<>>
    <3>1. <<>> \in Seq(Glyphs)
      OBVIOUS
    <3>2. QED
      BY <3>1
  <2>4. EachOnce(Append(front, none), n)
    BY <1>2, <2>1, <2>2, <2>3
  <2>5. WordsOf(none) = {}
    <3>1. Len(none) = 0 /\ \A j \in 1 .. 0 : none[j][1] # "word"
      BY <2>3
    <3>2. QED
      BY <3>1, NoWords
  <2>6. /\ WordsOn(front) \cup WordsOf(none) = 1 .. n
        /\ \A i \in DOMAIN front : Rising(front[i])
        /\ \A i, k \in DOMAIN front :
             i < k => \A v \in WordsOf(front[i]), w \in WordsOf(front[k]) : v < w
    BY <2>4, OnceAppended
  <2>7. EachOnce(front, n)
    BY <2>5, <2>6 DEF EachOnce
  <2>8. QED
    BY <1>2, <2>2, <2>7 DEF Trimmed
<1>3. QED
  BY <1>1, <1>2

\* A transcript with its pins says what it says without them.
LEMMA OnceRendered ==
  ASSUME NEW closed \in Seq(Seq(Chars)), NEW line \in Seq(Chars), NEW anchors \in Seq(Anchor),
         FitsAll(closed, line, anchors), \A i \in Nat : Sorted(i, anchors),
         NEW n, EachOnce(Append(closed, line), n)
  PROVE  EachOnce(Trimmed(Rendered(closed, line, anchors)), n)
<1> DEFINE m == Len(closed)
           raw == Append(closed, line)
<1>1. /\ m \in Nat /\ DOMAIN raw = 1 .. m + 1
      /\ \A i \in 1 .. m : raw[i] = closed[i] /\ closed[i] \in Seq(Chars)
      /\ raw[m + 1] = line
  OBVIOUS
<1>2. PICK a \in Seq(Seq(Glyphs)) :
        /\ a = Rendered(closed, line, anchors) /\ Len(a) = m + 1
        /\ \A i \in 1 .. m : a[i] = Spliced(i, closed[i], anchors)
        /\ a[m + 1] = Spliced(m + 1, line, anchors)
  BY RenderedIs DEF Renders
<1>3. DOMAIN a = 1 .. m + 1
  BY <1>2
<1> HIDE DEF m, raw
<1>4. ASSUME NEW i \in 1 .. m + 1
      PROVE  Says(raw[i], a[i])
  <2>1. CASE i \in 1 .. m
    <3>1. Fits(i, closed[i], anchors) /\ Sorted(i, anchors) /\ closed[i] \in Seq(Chars)
      BY <1>1, <2>1 DEF FitsAll, m
    <3>2. Says(closed[i], Spliced(i, closed[i], anchors))
      BY <3>1, SplicedSays
    <3>3. QED
      BY <1>1, <1>2, <2>1, <3>2
  <2>2. CASE i = m + 1
    <3>1. Fits(i, line, anchors) /\ Sorted(i, anchors)
      BY <1>1, <2>2 DEF FitsAll, m
    <3>2. Says(line, Spliced(i, line, anchors))
      BY <3>1, SplicedSays
    <3>3. QED
      BY <1>1, <1>2, <2>2, <3>2
  <2>3. QED
    BY <1>1, <2>1, <2>2
<1>5. EachOnce(a, n)
  BY <1>1, <1>3, <1>4, OnceSays DEF raw
<1>6. a # <<>>
  BY <1>1, <1>2
<1>7. EachOnce(Trimmed(a), n)
  BY <1>5, <1>6, OnceTrimmed
<1>8. QED
  BY <1>2, <1>7

\* Two texts that together are the sentence of words m + 1 to h.
Spell(s, d, m, h) == s \o d = Sentence(m + 1, h)

\* While a steady recogniser is recorded, the words of the sentences it has
\* finalised and of the snapshot stand in the lines, each once and in order;
\* snapshot and draft are what it has said of the sentence under way.
WordInv ==
  ~rewrites =>
    /\ Recording => /\ settled <= heard
                    /\ Spell(snapshot, partial, settled, heard)
                    /\ EachOnce(Append(paragraphs, current), settled + Len(snapshot))
    /\ phase = "frozen" => EachOnce(frozen, heard)

\* The snapshot and the draft, by their words.
LEMMA SentenceSoFar ==
  ASSUME NEW s \in Seq(Chars), NEW d \in Seq(Chars), NEW m \in Nat, NEW h \in Nat, m <= h,
         Spell(s, d, m, h)
  PROVE  /\ m + Len(s) + Len(d) = h
         /\ WordsOf(d) = m + Len(s) + 1 .. h /\ Rising(d)
         /\ WordsOf(s) = m + 1 .. m + Len(s)
         /\ \A j \in 1 .. Len(s) : s[j] = Word(m + j)
<1> DEFINE l == Len(s)
           both == s \o d
<1>1. /\ l \in Nat /\ Len(d) \in Nat /\ Len(both) = l + Len(d) /\ both \in Seq(Chars)
      /\ \A j \in 1 .. l : both[j] = s[j]
  <2>1. Len(s) \in Nat /\ Len(d) \in Nat
    OBVIOUS
  <2>2. /\ s \o d \in Seq(Chars) /\ Len(s \o d) = Len(s) + Len(d)
        /\ \A j \in 1 .. Len(s) : (s \o d)[j] = s[j]
    BY Concat
  <2>3. QED
    BY <2>1, <2>2
<1>2. /\ Len(both) = h - m /\ \A j \in 1 .. h - m : both[j] = Word(m + j)
      /\ WordsOf(both) = m + 1 .. h /\ Rising(both)
  BY SentenceSays DEF Spell
<1>3. /\ WordsOf(both) = WordsOf(s) \cup WordsOf(d)
      /\ Rising(both) => /\ Rising(s) /\ Rising(d)
                         /\ \A v \in WordsOf(s), w \in WordsOf(d) : v < w
  BY WordsJoined
<1> HIDE DEF both, l
<1>4. m + l <= h /\ m + l + Len(d) = h
  BY <1>1, <1>2
<1>5. PICK t \in Seq(Chars) : /\ t = Sentence(m + 1, m + l) /\ Len(t) = l
                              /\ \A j \in 1 .. l : t[j] = Word(m + j)
                              /\ WordsOf(t) = m + 1 .. m + l
  <2>1. m + l \in Nat /\ m <= m + l /\ (m + l) - m = l
    BY <1>1
  <2>2. QED
    BY <2>1, SentenceSays
<1>6. \A j \in 1 .. l : s[j] = Word(m + j)
  BY <1>1, <1>2, <1>4
<1>7. s = t
  BY <1>5, <1>6, SeqEqual DEF l
<1>8. WordsOf(s) = m + 1 .. m + l
  BY <1>5, <1>7
<1>9. WordsOf(d) = m + l + 1 .. h
  <2>1. /\ m + 1 .. h = (m + 1 .. m + l) \cup WordsOf(d)
        /\ \A v \in m + 1 .. m + l, w \in WordsOf(d) : v < w
    BY <1>2, <1>3, <1>8
  <2>2. ASSUME NEW w \in WordsOf(d)
        PROVE  w \in m + l + 1 .. h
    <3>1. w \in m + 1 .. h
      BY <2>1
    <3>2. w <= m + l => w \in m + 1 .. m + l /\ ~(w < w)
      BY <1>1, <3>1
    <3>3. QED
      BY <1>1, <2>1, <3>1, <3>2
  <2>3. ASSUME NEW w \in m + l + 1 .. h
        PROVE  w \in WordsOf(d)
    <3>1. w \in m + 1 .. h /\ w \notin m + 1 .. m + l
      BY <1>1
    <3>2. QED
      BY <2>1, <3>1
  <2>4. QED
    BY <2>2, <2>3
<1>10. QED
  BY <1>1, <1>2, <1>3, <1>4, <1>6, <1>8, <1>9 DEF l

\* A frame that goes on from the draft extends the snapshot.
LEMMA FrameExtends ==
  ASSUME NEW s \in Seq(Chars), NEW d \in Seq(Chars), NEW m \in Nat, NEW h \in Nat, m <= h,
         Spell(s, d, m, h),
         NEW n \in Nat, NEW end \in Seq(Chars), n >= h
  PROVE  IsPrefix(s, Sentence(m + 1, n) \o end)
<1> DEFINE l == Len(s)
<1>0. /\ l \in Nat /\ m + l <= h /\ \A j \in 1 .. l : s[j] = Word(m + j)
  <2>1. /\ m + Len(s) + Len(d) = h /\ \A j \in 1 .. Len(s) : s[j] = Word(m + j)
    BY SentenceSoFar
  <2>2. Len(s) \in Nat /\ Len(d) \in Nat
    OBVIOUS
  <2>3. QED
    BY <2>1, <2>2
<1> HIDE DEF l
<1>1. PICK f \in Seq(Chars) :
        f = Sentence(m + 1, n) /\ Len(f) = n - m /\ \A j \in 1 .. n - m : f[j] = Word(m + j)
  <2>1. m <= n
    OBVIOUS
  <2>2. QED
    BY <2>1, SentenceSays
<1>2. PICK frame \in Seq(Chars) : /\ frame = f \o end /\ Len(frame) >= Len(f)
                                  /\ \A j \in 1 .. Len(f) : frame[j] = f[j]
  <2>1. /\ f \o end \in Seq(Chars) /\ Len(f \o end) = Len(f) + Len(end)
        /\ \A j \in 1 .. Len(f) : (f \o end)[j] = f[j]
    BY Concat
  <2>2. Len(f) \in Nat /\ Len(end) \in Nat
    OBVIOUS
  <2>3. Len(f \o end) >= Len(f)
    BY <2>1, <2>2
  <2>4. QED
    BY <2>1, <2>3
<1>3. l <= Len(frame) /\ \A j \in 1 .. l : frame[j] = s[j]
  <2>1. l <= n - m
    BY <1>0
  <2>2. \A j \in 1 .. l : j \in 1 .. n - m
    BY <1>0, <2>1
  <2>3. QED
    BY <1>0, <1>1, <1>2, <2>1, <2>2
<1>4. SubSeq(frame, 1, l) = SubSeq(s, 1, l)
  <2>1. /\ SubSeq(frame, 1, l) \in Seq(Chars) /\ Len(SubSeq(frame, 1, l)) = l
        /\ \A j \in 1 .. l : SubSeq(frame, 1, l)[j] = frame[j]
    BY <1>0, <1>3
  <2>2. SubSeq(s, 1, l) = s
    BY DEF l
  <2>3. \A j \in 1 .. l : SubSeq(frame, 1, l)[j] = s[j]
    BY <1>3, <2>1
  <2>4. SubSeq(frame, 1, l) = s
    BY <2>1, <2>3, SeqEqual DEF l
  <2>5. QED
    BY <2>2, <2>4
<1>5. QED
  BY <1>1, <1>2, <1>3, <1>4 DEF IsPrefix, l

\* What a frame adds behind a snapshot it extends.
LEMMA FrameGoesOn ==
  ASSUME NEW s \in Seq(Chars), NEW frame \in Seq(Chars), IsPrefix(s, frame)
  PROVE  LET rest == SubSeq(frame, Len(s) + 1, Len(frame))
         IN  /\ Len(s) \in 0 .. Len(frame) /\ SubSeq(frame, 1, Len(s)) = s
             /\ rest \in Seq(Chars) /\ s \o rest = frame
<1>1. Len(s) \in 0 .. Len(frame)
  BY DEF IsPrefix
<1>2. SubSeq(frame, 1, Len(s)) = s
  <2>1. SubSeq(s, 1, Len(s)) = s
    OBVIOUS
  <2>2. QED
    BY <2>1 DEF IsPrefix
<1>3. QED
  BY <1>1, <1>2, CutInTwo

\* The sentence so far, with or without its punctuation, says its words.
LEMMA FrameSays ==
  ASSUME NEW m \in Nat, NEW n \in Nat, m < n, NEW stop \in Seq(Chars), stop \in {<<>>, <<Punct>>}
  PROVE  LET frame == Sentence(m + 1, n) \o stop
         IN  /\ frame \in Seq(Chars) /\ frame # <<>>
             /\ WordsOf(frame) = m + 1 .. n /\ Rising(frame)
<1>1. WordsOf(stop) = {} /\ Rising(stop)
  <2>1. Punct[1] # "word" /\ \A j \in 1 .. Len(stop) : stop[j] = Punct
    BY DEF Punct
  <2>2. QED
    BY <2>1, NoWords
<1>2. PICK said \in Seq(Chars) :
        /\ said = Sentence(m + 1, n) /\ Len(said) = n - m
        /\ WordsOf(said) = m + 1 .. n /\ Rising(said)
  BY SentenceSays
<1>3. /\ WordsOf(said \o stop) = WordsOf(said) \cup WordsOf(stop)
      /\ (/\ Rising(said) /\ Rising(stop)
          /\ \A v \in WordsOf(said), w \in WordsOf(stop) : v < w)
         => Rising(said \o stop)
  <2> HIDE <1>1
  <2>1. QED
    BY WordsJoined
<1>4. said \o stop \in Seq(Chars) /\ said \o stop # <<>>
  <2>1. said \o stop \in Seq(Chars) /\ Len(said \o stop) = Len(said) + Len(stop)
    BY Concat
  <2>2. Len(said) # 0 /\ Len(said) \in Nat /\ Len(stop) \in Nat
    BY <1>2
  <2>3. QED
    BY <2>1, <2>2
<1>5. QED
  BY <1>1, <1>2, <1>3, <1>4

\* What such a frame adds behind the snapshot says the words that are new.
LEMMA RestGoesOn ==
  ASSUME NEW s \in Seq(Chars), NEW d \in Seq(Chars), NEW m \in Nat, NEW h \in Nat, m <= h,
         Spell(s, d, m, h), NEW n \in Nat, h <= n,
         NEW frame \in Seq(Chars), IsPrefix(s, frame),
         WordsOf(frame) = m + 1 .. n, Rising(frame)
  PROVE  LET rest == SubSeq(frame, Len(s) + 1, Len(frame))
         IN  /\ m + Len(s) \in Nat /\ m + Len(s) <= n
             /\ rest \in Seq(Chars) /\ WordsOf(rest) = m + Len(s) + 1 .. n /\ Rising(rest)
<1>1. PICK k \in Nat : k = m + Len(s)
  OBVIOUS
<1>2. m + Len(s) + Len(d) = h /\ WordsOf(s) = m + 1 .. m + Len(s)
  BY SentenceSoFar
<1>3. m <= k /\ k <= n /\ m + Len(s) = k
  <2>1. Len(s) \in Nat /\ Len(d) \in Nat
    OBVIOUS
  <2>2. QED
    BY <1>1, <1>2, <2>1
<1>4. Len(s) \in 0 .. Len(frame) /\ WordsOf(SubSeq(frame, 1, Len(s))) = m + 1 .. k
  BY <1>1, <1>2, FrameGoesOn
<1>5. LET rest == SubSeq(frame, Len(s) + 1, Len(frame))
      IN  rest \in Seq(Chars) /\ WordsOf(rest) = k + 1 .. n /\ Rising(rest)
  BY <1>3, <1>4, RestSays
<1>6. QED
  BY <1>1, <1>3, <1>5

\* An interim frame of a steady recogniser makes the draft anew: snapshot and
\* draft say the sentence up to its last word (fold_partial).
LEMMA PartialKeeps ==
  ASSUME TextType, WordInv, ~rewrites, Recording, PartialText
  PROVE  WordInv'
<1>0. /\ snapshot \in Seq(Chars) /\ partial \in Seq(Chars) /\ settled \in Nat /\ heard \in Nat
      /\ settled <= heard /\ Spell(snapshot, partial, settled, heard)
      /\ EachOnce(Append(paragraphs, current), settled + Len(snapshot))
  BY DEF TextType, WordInv
<1>1. PICK n \in heard .. MaxWords :
        n > settled /\ FoldPartial(Sentence(settled + 1, n)) /\ heard' = n
  BY DEF PartialText
<1>2. n \in Nat /\ n >= heard /\ settled <= n
  BY <1>0, <1>1, TranscriptAssumption
<1>3. PICK frame \in Seq(Chars) : frame = Sentence(settled + 1, n)
  BY <1>0, <1>2, SentenceSays
<1>4. IsPrefix(snapshot, frame)
  <2>1. <<>> \in Seq(Chars) /\ frame \o <<>> = frame
    OBVIOUS
  <2>2. PICK none \in Seq(Chars) : none = <<>>
    BY <2>1
  <2>3. IsPrefix(snapshot, Sentence(settled + 1, n) \o none)
    BY <1>0, <1>2, <2>2, FrameExtends
  <2>4. QED
    BY <1>3, <2>1, <2>2, <2>3
<1>5. /\ partial' = SubSeq(frame, Len(snapshot) + 1, Len(frame))
      /\ UNCHANGED <<paragraphs, current, snapshot>>
  BY <1>1, <1>3, <1>4 DEF FoldPartial
<1>6. Spell(snapshot, partial', settled, n)
  BY <1>0, <1>3, <1>4, <1>5, FrameGoesOn DEF Spell
<1>7. settled' = settled /\ phase' = phase /\ phase = "recording"
  BY DEF PartialText, ending, Recording
<1>8. QED
  BY <1>0, <1>1, <1>2, <1>3, <1>5, <1>6, <1>7 DEF WordInv, Recording

\* Its final frame puts the words behind the snapshot on the line, and nothing
\* said before is put there again (fold_final).
LEMMA FinalKeeps ==
  ASSUME TextType, WordInv, ~rewrites, Recording, FinalText
  PROVE  WordInv'
<1>0. /\ snapshot \in Seq(Chars) /\ partial \in Seq(Chars) /\ settled \in Nat /\ heard \in Nat
      /\ current \in Seq(Chars) /\ paragraphs \in Seq(Seq(Chars))
      /\ settled <= heard /\ Spell(snapshot, partial, settled, heard)
      /\ EachOnce(Append(paragraphs, current), settled + Len(snapshot))
  BY DEF TextType, WordInv
<1>1. PICK n \in Nat, frame \in Seq(Chars) :
        /\ FoldFinal(frame) /\ heard' = n /\ settled' = n
        /\ n >= heard /\ heard <= n /\ settled < n
        /\ frame # <<>> /\ WordsOf(frame) = settled + 1 .. n /\ Rising(frame)
        /\ IsPrefix(snapshot, frame)
  <2>1. PICK n \in heard .. MaxWords, end \in {<<>>, <<Punct>>} :
          /\ n > settled /\ FoldFinal(Sentence(settled + 1, n) \o end)
          /\ heard' = n /\ settled' = n
    BY DEF FinalText
  <2>2. n \in Nat /\ n >= heard /\ heard <= n /\ settled < n
    BY <1>0, <2>1, TranscriptAssumption
  <2>3. end \in Seq(Chars)
    <3>1. <<>> \in Seq(Chars) /\ <<Punct>> \in Seq(Chars)
      BY DEF Chars
    <3>2. QED
      BY <2>1, <3>1
  <2>4. PICK frame \in Seq(Chars) :
          /\ frame = Sentence(settled + 1, n) \o end /\ frame # <<>>
          /\ WordsOf(frame) = settled + 1 .. n /\ Rising(frame)
    BY <1>0, <2>1, <2>2, <2>3, FrameSays
  <2>5. IsPrefix(snapshot, frame)
    BY <1>0, <2>2, <2>3, <2>4, FrameExtends
  <2>6. QED
    BY <2>1, <2>2, <2>4, <2>5
<1>6. /\ current' = current \o Appended(frame) /\ snapshot' = <<>> /\ partial' = <<>>
      /\ paragraphs' = paragraphs
  BY <1>1 DEF FoldFinal
<1>7. PICK rest \in Seq(Chars) :
        /\ rest = Appended(frame) /\ Rising(rest)
        /\ WordsOf(rest) = settled + Len(snapshot) + 1 .. n
        /\ settled + Len(snapshot) \in Nat /\ settled + Len(snapshot) <= n
  <2>1. LET rest == SubSeq(frame, Len(snapshot) + 1, Len(frame))
        IN  /\ settled + Len(snapshot) \in Nat /\ settled + Len(snapshot) <= n
            /\ rest \in Seq(Chars) /\ WordsOf(rest) = settled + Len(snapshot) + 1 .. n
            /\ Rising(rest)
    BY <1>0, <1>1, RestGoesOn
  <2>2. Appended(frame) = SubSeq(frame, Len(snapshot) + 1, Len(frame))
    BY <1>1 DEF Appended
  <2>3. QED
    BY <2>1, <2>2
<1>8. EachOnce(Append(paragraphs, current \o rest), n)
  BY <1>0, <1>1, <1>7, OnceGrows
<1>9. settled' <= heard' /\ Spell(snapshot', partial', settled', heard') /\ settled' + Len(snapshot') = n
  <2>1. Sentence(n + 1, n) = <<>>
    <3>1. n - (n + 1) + 1 = 0
      BY <1>1
    <3>2. QED
      BY <3>1 DEF Sentence
  <2>2. <<>> \o <<>> = <<>> /\ Len(<<>>) = 0
    OBVIOUS
  <2>3. QED
    BY <1>1, <1>6, <2>1, <2>2 DEF Spell
<1>10. phase' = phase /\ phase = "recording"
  BY DEF FinalText, ending, Recording
<1>11. QED
  BY <1>6, <1>7, <1>8, <1>9, <1>10, <1>1 DEF WordInv, Recording

\* A steady recogniser's words, as the invariant has them while recording.
LEMMA SteadyText ==
  ASSUME TextType, WordInv, ~rewrites, Recording
  PROVE  /\ paragraphs \in Seq(Seq(Chars)) /\ current \in Seq(Chars)
         /\ snapshot \in Seq(Chars) /\ partial \in Seq(Chars)
         /\ settled \in Nat /\ heard \in Nat /\ settled <= heard
         /\ Spell(snapshot, partial, settled, heard)
         /\ EachOnce(Append(paragraphs, current), settled + Len(snapshot))
         /\ settled + Len(snapshot) \in Nat /\ settled + Len(snapshot) <= heard
         /\ settled + Len(snapshot) + Len(partial) = heard
         /\ EachOnce(Append(paragraphs, current \o partial), heard)
<1>1. /\ paragraphs \in Seq(Seq(Chars)) /\ current \in Seq(Chars)
      /\ snapshot \in Seq(Chars) /\ partial \in Seq(Chars)
      /\ settled \in Nat /\ heard \in Nat /\ settled <= heard
      /\ Spell(snapshot, partial, settled, heard)
      /\ EachOnce(Append(paragraphs, current), settled + Len(snapshot))
  BY DEF TextType, WordInv
<1>2. /\ settled + Len(snapshot) + Len(partial) = heard
      /\ WordsOf(partial) = settled + Len(snapshot) + 1 .. heard /\ Rising(partial)
  BY <1>1, SentenceSoFar
<1>3. settled + Len(snapshot) \in Nat /\ settled + Len(snapshot) <= heard
  <2>1. Len(snapshot) \in Nat /\ Len(partial) \in Nat
    BY <1>1
  <2>2. QED
    BY <1>1, <1>2, <2>1
<1>4. EachOnce(Append(paragraphs, current \o partial), heard)
  BY <1>1, <1>2, <1>3, OnceGrows
<1>5. QED
  BY <1>1, <1>2, <1>3, <1>4

\* A pin commits the draft to the line and to the snapshot (Session::pin).
LEMMA PinKeeps ==
  ASSUME TextType, WordInv, ~rewrites, Recording, PinPlaceholder
  PROVE  WordInv'
<1>1. /\ current' = current \o partial /\ partial' = <<>> /\ snapshot' = snapshot \o partial
      /\ UNCHANGED <<paragraphs, phase, rewrites, heard, settled>>
  BY DEF PinPlaceholder, PinText, ending
<1>2. PICK both \in Seq(Chars) :
        both = snapshot \o partial /\ Len(both) = Len(snapshot) + Len(partial)
  BY SteadyText, Concat
<1>3. settled + Len(snapshot') = heard
  <2>1. Len(snapshot) \in Nat /\ Len(partial) \in Nat /\ settled \in Nat
    BY SteadyText
  <2>2. Len(snapshot') = Len(snapshot) + Len(partial)
    BY <1>1, <1>2
  <2>3. QED
    BY <2>1, <2>2, SteadyText
<1>4. Spell(snapshot', partial', settled, heard)
  <2>1. both \o <<>> = both
    OBVIOUS
  <2>2. both = Sentence(settled + 1, heard)
    BY <1>2, SteadyText DEF Spell
  <2>3. QED
    BY <1>1, <1>2, <2>1, <2>2 DEF Spell
<1>5. EachOnce(Append(paragraphs', current'), settled' + Len(snapshot'))
  BY <1>1, <1>3, SteadyText
<1>6. settled' <= heard' /\ Spell(snapshot', partial', settled', heard')
  BY <1>1, <1>4, SteadyText
<1>7. phase' = "recording"
  BY <1>1 DEF Recording
<1>8. QED
  BY <1>1, <1>5, <1>6, <1>7 DEF WordInv, Recording

\* Closing a paragraph begins a line with no word on it.
LEMMA ClosingKeeps ==
  ASSUME TextType, WordInv, ~rewrites, Recording, Closes,
         UNCHANGED <<phase, rewrites, heard, settled>>
  PROVE  WordInv'
<1>1. PICK lines \in Seq(Seq(Chars)) : lines = Append(paragraphs, current)
  <2>1. PICK closed \in Seq(Seq(Chars)), line \in Seq(Chars) : closed = paragraphs /\ line = current
    BY SteadyText
  <2>2. Append(closed, line) \in Seq(Seq(Chars))
    BY <2>1, AppendIs
  <2>3. QED
    BY <2>1, <2>2
<1>2. EachOnce(lines, settled + Len(snapshot))
  BY <1>1, SteadyText
<1>3. PICK none \in Seq(Chars) : none = <<>> /\ WordsOf(none) = {} /\ Rising(none)
  <2>1. <<>> \in Seq(Chars) /\ Len(<<>>) = 0 /\ DOMAIN <<>> = {}
    OBVIOUS
  <2>2. WordsOf(<<>>) = {} /\ Rising(<<>>)
    BY <2>1 DEF WordsOf, Rising
  <2>3. QED
    BY <2>1, <2>2
<1>4. EachOnce(Append(lines, none), settled + Len(snapshot))
  <2>1. /\ WordsOn(lines) = 1 .. settled + Len(snapshot)
        /\ \A i \in DOMAIN lines : Rising(lines[i])
        /\ \A i, k \in DOMAIN lines :
             i < k => \A v \in WordsOf(lines[i]), w \in WordsOf(lines[k]) : v < w
    BY <1>2 DEF EachOnce
  <2>2. WordsOn(lines) \cup WordsOf(none) = 1 .. settled + Len(snapshot)
    BY <1>3, <2>1
  <2>3. \A i \in DOMAIN lines : \A v \in WordsOf(lines[i]), w \in WordsOf(none) : v < w
    BY <1>3
  <2>4. QED
    BY <1>3, <2>1, <2>2, <2>3, OnceAppended
<1>5. paragraphs' = lines /\ current' = none /\ UNCHANGED <<partial, snapshot>>
  BY <1>1, <1>3 DEF Closes
<1>6. EachOnce(Append(paragraphs', current'), settled' + Len(snapshot'))
  BY <1>4, <1>5
<1>7. settled' <= heard' /\ Spell(snapshot', partial', settled', heard')
  BY <1>5, SteadyText
<1>8. phase' = "recording"
  BY DEF Recording
<1>9. QED
  BY <1>6, <1>7, <1>8 DEF WordInv, Recording

\* What the screen shows while a steady recogniser is recorded: what it has
\* finalised and what it is saying, each word once and in order.
LEMMA LiveOnce ==
  ASSUME TextInv, InOrder, WordInv, ~rewrites, Recording
  PROVE  EachOnce(LiveText, heard)
<1>1. /\ FitsAll(paragraphs, current \o partial, pins)
      /\ LiveText = Trimmed(Rendered(paragraphs, current \o partial, pins))
  BY LiveIs
<1>2. /\ paragraphs \in Seq(Seq(Chars)) /\ EachOnce(Append(paragraphs, current \o partial), heard)
      /\ current \in Seq(Chars) /\ partial \in Seq(Chars) /\ pins \in Seq(Anchor)
  BY SteadyText DEF TextInv, TextType
<1>3. PICK line \in Seq(Chars) : line = current \o partial
  BY <1>2, Concat
<1>4. \A i \in Nat : Sorted(i, pins)
  BY DEF InOrder, Sorted
<1>5. QED
  BY <1>1, <1>2, <1>3, <1>4, OnceRendered

\* Every step keeps the words in order, and freezes what the screen shows.
LEMMA WordsKept ==
  ASSUME TextInv, InOrder, WordInv, [Next]_vars
  PROVE  WordInv'
<1> SUFFICES ASSUME ~rewrites'
             PROVE  WordInv'
  BY DEF WordInv
<1>1. CASE UNCHANGED vars
  BY <1>1 DEF WordInv, Recording, Spell, vars, text, ending
<1>2. CASE Next
  <2>0. rewrites' = rewrites /\ Recording /\ TextType
    BY <1>2 DEF Next, PartialText, FinalText, Voiced, Unvoiced, PinPlaceholder, StopSession,
               TextInv
  <2>1. ~rewrites /\ Recording /\ TextType
    BY <2>0
  <2>2. ASSUME Freeze, UNCHANGED heard
        PROVE  WordInv'
    <3>1. /\ phase' \in {"discarded", "frozen"}
          /\ phase' = "frozen" => frozen' = LiveText
      <4>1. phase' \in {"discarded", "frozen"}
        BY <2>2 DEF Freeze, Frozen
      <4>2. phase' = "frozen" => frozen' = Trimmed(Rendered(paragraphs, current \o partial, pins))
        BY <2>1, <2>2, FreezeGrows
      <4>3. QED
        BY <4>1, <4>2, LiveIs
    <3>2. EachOnce(LiveText, heard)
      BY <2>1, LiveOnce
    <3>3. phase' = "frozen" => EachOnce(frozen', heard')
      BY <2>2, <3>1, <3>2
    <3>4. ~Recording'
      BY <3>1 DEF Recording
    <3>5. QED
      BY <3>3, <3>4 DEF WordInv
  <2>3. ASSUME UNCHANGED <<text, ending, heard, settled>>
        PROVE  WordInv'
    BY <2>0, <2>3 DEF WordInv, Recording, Spell, text, ending
  <2>4. CASE PartialText
    BY <2>1, <2>4, PartialKeeps
  <2>5. CASE FinalText
    BY <2>1, <2>5, FinalKeeps
  <2>6. CASE Voiced
    BY <2>3, <2>6 DEF Voiced
  <2>7. ASSUME NEW held \in BOOLEAN, Unvoiced(held)
        PROVE  WordInv'
    <3>0. UNCHANGED <<heard, settled>>
      BY <2>7 DEF Unvoiced
    <3>1. CASE speaking'
      <4>1. UNCHANGED <<text, ending>>
        BY <2>7, <3>1 DEF Unvoiced
      <4>2. QED
        BY <2>3, <3>0, <4>1
    <3>2. CASE ~speaking' /\ passage
      <4>1. ParagraphTick(quiet') /\ UNCHANGED ending
        BY <2>7, <3>2 DEF Unvoiced
      <4>2. UNCHANGED text \/ Closes
        BY <4>1 DEF ParagraphTick, text, Closes
      <4>3. ASSUME Closes
            PROVE  WordInv'
        BY <2>0, <2>1, <3>0, <4>1, <4>3, ClosingKeeps DEF ending
      <4>4. QED
        BY <2>3, <3>0, <4>1, <4>2, <4>3
    <3>3. CASE ~speaking' /\ ~passage
      <4>1. Freeze \/ UNCHANGED <<text, ending>>
        BY <2>7, <3>3 DEF Unvoiced
      <4>2. QED
        BY <2>2, <2>3, <3>0, <4>1
    <3>4. QED
      BY <3>1, <3>2, <3>3
  <2>8. CASE PinPlaceholder
    BY <2>1, <2>8, PinKeeps
  <2>9. CASE StopSession
    BY <2>2, <2>9 DEF StopSession
  <2>10. QED
    BY <1>2, <2>4, <2>5, <2>6, <2>7, <2>8, <2>9 DEF Next
<1>3. QED
  BY <1>1, <1>2

\* Nothing has been heard at first.
LEMMA InitHasNoWords ==
  ASSUME Init
  PROVE  WordInv
<1>1. /\ paragraphs = <<>> /\ current = <<>> /\ partial = <<>> /\ snapshot = <<>>
      /\ heard = 0 /\ settled = 0 /\ phase = "recording"
  BY DEF Init
<1>2. PICK none \in Seq(Chars) : none = <<>>
  BY <<>> \in Seq(Chars)
<1>3. none \o none = Sentence(1, 0)
  <2>1. 0 - 1 + 1 = 0 /\ 1 .. 0 = {}
    OBVIOUS
  <2>2. Sentence(1, 0) = <<>>
    BY <2>1 DEF Sentence
  <2>3. QED
    BY <1>2, <2>2
<1>4. Spell(snapshot, partial, settled, heard)
  BY <1>1, <1>2, <1>3 DEF Spell
<1>5. EachOnce(Append(paragraphs, current), 0)
  <2>1. PICK lines : lines = <<none>> /\ DOMAIN lines = {1} /\ lines[1] = none /\ DOMAIN none = {}
    <3>1. DOMAIN none = {} /\ DOMAIN <<none>> = {1} /\ <<none>>[1] = none
      BY <1>2
    <3>2. QED
      BY <3>1
  <2>2. WordsOf(none) = {} /\ Rising(none)
    BY <2>1 DEF WordsOf, Rising
  <2>3. WordsOn(lines) = {} /\ 1 .. 0 = {}
    BY <2>1, <2>2 DEF WordsOn
  <2>4. EachOnce(lines, 0)
    BY <2>1, <2>2, <2>3 DEF EachOnce
  <2>5. Append(paragraphs, current) = lines
    BY <1>1, <1>2, <2>1
  <2>6. QED
    BY <2>4, <2>5
<1>6. settled <= heard /\ settled + Len(snapshot) = 0
  BY <1>1
<1>7. QED
  BY <1>1, <1>4, <1>5, <1>6 DEF WordInv

\* Whatever pins were pressed in mid-sentence and whatever silence fell where,
\* every word a steady recogniser heard stands once on the screen and in the
\* frozen utterance, in the order it was said (Session::fold_partial,
\* fold_final, pin, freeze).
THEOREM WordsStandOnce == Spec => []EachWordOnce
<1>1. Init => TextInv /\ WordInv
  BY InitIsText, InitHasNoWords
<1>2. TextInv /\ InOrder /\ WordInv /\ [Next]_vars => TextInv' /\ WordInv'
  BY TextKept, WordsKept
<1>3. TextInv /\ InOrder /\ WordInv => EachWordOnce
  BY LiveOnce DEF EachWordOnce, WordInv
<1>4. Spec => []InOrder
  BY SortMovesNothing
<1>5. QED
  BY <1>1, <1>2, <1>3, <1>4, PTL DEF Spec
=============================================================================
