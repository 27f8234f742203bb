--------------------------- MODULE AsrPumpProofs ---------------------------
(***************************************************************************)
(* Theorems of AsrPump, for any budget of reconnects, any size of the      *)
(* offline buffer, any pad and any number of frames and messages: the      *)
(* audio the gate lets pass is accounted for, in order and once, and no    *)
(* utterance the server settles reaches the engine as a final twice.       *)
(***************************************************************************)
EXTENDS AsrPump, SequenceTheorems, TLAPS

-----------------------------------------------------------------------------
(* Types *)

Frames == [approved : Nat, sent : Nat, missing : Nat, last : Nat]
Tolds  == [failed : Nat, finals : Nat]
Servers == [said : Nat, over : BOOLEAN, links : Nat, settled : Nat]
Parsed == [finals : Nat, partial : BOOLEAN, failed : BOOLEAN, emitted : Nat]

PumpType ==
  /\ dialect \in Vendors \cup {"mic"} /\ pc \in Stages /\ mic \in {"live", "erred", "gone"}
  /\ gone \in BOOLEAN /\ link \in Nat /\ budget \in Nat /\ emitted \in Nat
  /\ told \in Tolds /\ server \in Servers

AudioType ==
  /\ vad \in Analysis /\ voiced \in Nat
  /\ frames \in Frames /\ buffer \in Seq(Nat)

-----------------------------------------------------------------------------
(* The gate *)

\* What is left of the pad behind the last voiced frame.
PadLeft(v) == IF v.active THEN Pad - v.silence ELSE 0

PadIsKept(v) == v.active => v.silence <= Pad

\* A frame that travels is paid for by a voiced frame, itself or an earlier
\* one whose pad is not used up.
LEMMA FrameIsPaid ==
  ASSUME NEW v \in Analysis, PadIsKept(v), NEW energy \in Energy
  PROVE  LET heard == Analyze(v, energy) IN
         /\ heard.vad \in Analysis /\ heard.wire \in BOOLEAN
         /\ PadIsKept(heard.vad)
         /\ (IF heard.wire THEN 1 ELSE 0) + PadLeft(heard.vad)
              <= PadLeft(v) + (IF energy = "quiet" THEN 0 ELSE Pad + 1)
<1> DEFINE heard == Detect(v, energy)
           wire  == Gate(heard, Voiced(v, energy))
           after == [heard EXCEPT !.active = wire, !.told = heard.speaking]
<1>0. /\ Calibration \in Nat /\ Hangover \in Nat /\ Pad \in Nat
      /\ v.seen \in 0 .. Calibration /\ v.speaking \in BOOLEAN /\ v.told \in BOOLEAN
      /\ v.silence \in 0 .. Pad + 1 /\ v.active \in BOOLEAN
  BY VadAssumption DEF Analysis
<1>1. Voiced(v, energy) => energy # "quiet"
  BY DEF Voiced
<1>2. /\ heard \in Analysis /\ heard.active = v.active
      /\ heard.silence = IF Voiced(v, energy) THEN 0 ELSE LongerSilence(v)
  <2> DEFINE silence  == IF Voiced(v, energy) THEN 0 ELSE LongerSilence(v)
             seen     == IF Calibrating(v) THEN v.seen + 1 ELSE v.seen
             speaking == Voiced(v, energy) \/ (v.speaking /\ silence <= Hangover)
  <2>1. silence \in 0 .. Pad + 1
    BY <1>0 DEF LongerSilence
  <2>2. seen \in 0 .. Calibration
    BY <1>0 DEF Calibrating
  <2>3. speaking \in BOOLEAN
    BY <1>0 DEF Voiced
  <2>4. heard = [v EXCEPT !.seen = seen, !.silence = silence, !.speaking = speaking]
    BY DEF Detect
  <2> HIDE DEF heard, seen, silence, speaking
  <2>5. heard \in Analysis /\ heard.active = v.active /\ heard.silence = silence
    BY <2>1, <2>2, <2>3, <2>4 DEF Analysis
  <2>6. QED
    BY <2>5 DEF silence
<1>3. wire \in BOOLEAN
  BY <1>0, <1>2 DEF Gate, Voiced
<1>4. /\ after \in Analysis /\ after.active = wire /\ after.silence = heard.silence
  BY <1>2, <1>3 DEF Analysis
<1>5. Analyze(v, energy).vad = after /\ Analyze(v, energy).wire = wire
  BY DEF Analyze
<1>6. wire => \/ heard.silence = 0 /\ energy # "quiet"
              \/ v.active /\ heard.silence = v.silence + 1 /\ heard.silence <= Pad
  BY <1>0, <1>1, <1>2 DEF Gate, LongerSilence
<1> HIDE DEF heard, wire, after
<1>7. PadIsKept(after)
  BY <1>0, <1>4, <1>6 DEF PadIsKept
<1>8. (IF wire THEN 1 ELSE 0) + PadLeft(after)
        <= PadLeft(v) + (IF energy = "quiet" THEN 0 ELSE Pad + 1)
  BY <1>0, <1>3, <1>4, <1>6 DEF PadLeft, PadIsKept
<1>9. QED
  BY <1>3, <1>4, <1>5, <1>7, <1>8

\* One frame more is its length more.
LEMMA OneMore == ASSUME NEW k \in Nat, NEW n \in Nat PROVE (k + 1) * n = k * n + n
OBVIOUS

-----------------------------------------------------------------------------
(* The audio *)

\* The frames that wait follow the last one sent, in order, up to the last one
\* the gate let pass.
InOrder(low, s, high) ==
  /\ low <= high
  /\ \A i \in 1 .. Len(s) : low < s[i] /\ s[i] <= high
  /\ \A i, j \in 1 .. Len(s) : i < j => s[i] < s[j]

Ordered == InOrder(frames.last, buffer, frames.approved)

\* The next frame joins them at their end.
LEMMA NextIsInOrder ==
  ASSUME NEW s \in Seq(Nat), NEW low \in Nat, NEW high \in Nat, InOrder(low, s, high)
  PROVE  InOrder(low, Append(s, high + 1), high + 1)
<1> DEFINE longer == Append(s, high + 1)
<1>1. Len(s) \in Nat /\ \A i \in 1 .. Len(s) : s[i] \in Nat
  OBVIOUS
<1>2. /\ Len(longer) = Len(s) + 1 /\ longer[Len(s) + 1] = high + 1
      /\ \A i \in 1 .. Len(s) : longer[i] = s[i]
  BY AppendProperties
<1> HIDE DEF longer
<1>3. \A i \in 1 .. Len(longer) :
        \/ i \in 1 .. Len(s) /\ longer[i] = s[i] /\ longer[i] <= high
        \/ i = Len(s) + 1 /\ longer[i] = high + 1
  BY <1>1, <1>2 DEF InOrder
<1>4. QED
  BY <1>1, <1>3 DEF InOrder, longer

\* They stay in order as the first of them leaves, sent or lost.
LEMMA TailIsInOrder ==
  ASSUME NEW s \in Seq(Nat), NEW low \in Nat, NEW high \in Nat, InOrder(low, s, high),
         s # <<>>
  PROVE  InOrder(low, Tail(s), high) /\ InOrder(Head(s), Tail(s), high)
<1> DEFINE rest == Tail(s)
<1>1. Len(s) \in Nat \ {0} /\ (\A i \in 1 .. Len(s) : s[i] \in Nat) /\ Head(s) = s[1]
  BY EmptySeq
<1>2. Len(rest) = Len(s) - 1 /\ \A i \in 1 .. Len(rest) : rest[i] = s[i + 1]
  BY HeadTailProperties
<1> HIDE DEF rest
<1>3. \A i \in 1 .. Len(rest) : i + 1 \in 1 .. Len(s) /\ 1 < i + 1 /\ rest[i] = s[i + 1]
  BY <1>1, <1>2
<1>4. 1 \in 1 .. Len(s) /\ \A i, j \in 1 .. Len(rest) : i < j => i + 1 < j + 1
  BY <1>1, <1>2
<1>5. \A i \in 1 .. Len(rest) : low < rest[i] /\ s[1] < rest[i] /\ rest[i] <= high
  BY <1>3, <1>4 DEF InOrder
<1>6. \A i, j \in 1 .. Len(rest) : i < j => rest[i] < rest[j]
  BY <1>3, <1>4 DEF InOrder
<1>7. low <= high /\ s[1] <= high
  BY <1>4 DEF InOrder
<1>8. QED
  BY <1>1, <1>5, <1>6, <1>7 DEF InOrder, rest

\* With the last frame sent before them and the next one behind, they rise.
LEMMA InOrderRises ==
  ASSUME NEW s \in Seq(Nat), NEW low \in Nat, NEW high \in Nat, InOrder(low, s, high)
  PROVE  Rising(<<low>> \o s \o <<high + 1>>)
<1> DEFINE all == <<low>> \o s \o <<high + 1>>
           n == Len(s)
<1>1. n \in Nat /\ \A i \in 1 .. n : s[i] \in Nat
  OBVIOUS
<1>2. /\ Len(all) = n + 2
      /\ \A i \in 1 .. n + 2 :
           all[i] = IF i = n + 2 THEN high + 1 ELSE IF i = 1 THEN low ELSE s[i - 1]
  BY SMTT(30)
<1>3. low <= high /\ \A i \in 1 .. n : low < s[i] /\ s[i] <= high
  BY DEF InOrder
<1>4. \A i \in 1 .. n : i + 1 <= n => s[i] < s[i + 1]
  BY <1>1 DEF InOrder
<1> HIDE DEF all, n
<1>5. ASSUME NEW i \in 1 .. n + 1
      PROVE  all[i] < all[i + 1]
  <2>1. i \in 1 .. n + 2 /\ i + 1 \in 1 .. n + 2 /\ i + 1 # 1 /\ (i + 1) - 1 = i /\ i # n + 2
    BY <1>1
  <2>2. all[i + 1] = IF i + 1 = n + 2 THEN high + 1 ELSE s[i]
    BY <1>2, <2>1
  <2>3. all[i] = IF i = 1 THEN low ELSE s[i - 1]
    BY <1>2, <2>1
  <2>4. CASE i = 1
    BY <1>1, <1>3, <2>2, <2>3, <2>4
  <2>5. CASE i # 1
    <3>1. i - 1 \in 1 .. n /\ (i - 1) + 1 = i
      BY <1>1, <2>5
    <3>2. s[i - 1] <= high /\ (i <= n => s[i - 1] < s[i])
      BY <1>3, <1>4, <3>1
    <3>3. QED
      BY <1>1, <2>2, <2>3, <2>5, <3>1, <3>2
  <2>6. QED
    BY <2>4, <2>5
<1>6. QED
  BY <1>1, <1>2, <1>5, SMTT(30) DEF Rising, all

Tallied == frames.sent + frames.missing + Len(buffer) = frames.approved

\* The buffer is empty until the session has been offline, and whenever it is
\* online again: the flush that ends an offline time empties it.
Online == pc \in {"mic", "connect", "opening", "loop"}
Bounded == Len(buffer) <= BufferFrames /\ (Online => buffer = <<>>)

Paid == PadIsKept(vad) /\ frames.approved + PadLeft(vad) <= voiced * (Pad + 1)

AudioInv == AudioType /\ Ordered /\ Tallied /\ Bounded /\ Paid

\* A captured frame keeps the account of what may travel.
LEMMA CapturesPay ==
  ASSUME AudioType, Paid, NEW energy \in Energy, Captures(energy),
         \/ frames'.approved = frames.approved
         \/ Analyze(vad, energy).wire /\ frames'.approved = frames.approved + 1
  PROVE  vad' \in Analysis /\ voiced' \in Nat /\ Paid'
<1> DEFINE heard == Analyze(vad, energy)
<1>1. /\ vad \in Analysis /\ voiced \in Nat /\ frames.approved \in Nat
      /\ Pad \in Nat /\ PadIsKept(vad)
  BY VadAssumption DEF AudioType, Frames, Paid
<1>2. /\ heard.vad \in Analysis /\ heard.wire \in BOOLEAN /\ PadIsKept(heard.vad)
      /\ (IF heard.wire THEN 1 ELSE 0) + PadLeft(heard.vad)
           <= PadLeft(vad) + (IF energy = "quiet" THEN 0 ELSE Pad + 1)
  BY <1>1, FrameIsPaid
<1>3. /\ vad' = heard.vad
      /\ voiced' = IF energy = "quiet" THEN voiced ELSE voiced + 1
  BY DEF Captures
<1>4. PadLeft(vad) \in Int /\ PadLeft(heard.vad) \in Int
  BY <1>1, <1>2 DEF PadLeft, Analysis
<1>5. (voiced + 1) * (Pad + 1) = voiced * (Pad + 1) + (Pad + 1)
  BY <1>1, OneMore
<1>6. voiced * (Pad + 1) \in Nat /\ frames.approved + PadLeft(vad) <= voiced * (Pad + 1)
  BY <1>1 DEF Paid
<1>7. frames'.approved <= frames.approved + (IF heard.wire THEN 1 ELSE 0)
  BY <1>1, <1>2
<1> HIDE DEF heard
<1>8. frames'.approved + PadLeft(heard.vad) <= voiced' * (Pad + 1)
  <2> DEFINE product == voiced * (Pad + 1)
             left == PadLeft(vad)
             leftAfter == PadLeft(heard.vad)
  <2>1. voiced' * (Pad + 1) = product + (IF energy = "quiet" THEN 0 ELSE Pad + 1)
    BY <1>1, <1>3, <1>5
  <2>2. frames'.approved \in Nat
    BY <1>1
  <2>3. /\ product \in Nat /\ left \in Int /\ leftAfter \in Int
        /\ frames.approved + left <= product
        /\ (IF heard.wire THEN 1 ELSE 0) + leftAfter
             <= left + (IF energy = "quiet" THEN 0 ELSE Pad + 1)
    BY <1>2, <1>4, <1>6
  <2> HIDE DEF product, left, leftAfter
  <2>4. frames'.approved + leftAfter <= product + (IF energy = "quiet" THEN 0 ELSE Pad + 1)
    BY <1>1, <1>2, <1>7, <2>2, <2>3
  <2>5. QED
    BY <2>1, <2>4 DEF leftAfter
<1>9. QED
  BY <1>1, <1>2, <1>3, <1>8 DEF Paid

\* Steps that touch no audio: they go online only with an empty buffer.
LEMMA OthersKeepAudio ==
  ASSUME AudioInv, UNCHANGED audio, Online' => Online \/ buffer = <<>>
  PROVE  AudioInv'
BY DEF AudioInv, AudioType, Ordered, Tallied, Bounded, Paid, audio

\* The counters of the frames, as a frame passes, is lost or is sent.
LEMMA PassedCounts ==
  ASSUME frames \in Frames
  PROVE  /\ Passed \in Frames /\ Passed.approved = frames.approved + 1
         /\ Passed.sent = frames.sent /\ Passed.missing = frames.missing
         /\ Passed.last = frames.last
BY DEF Frames, Passed

\* A frame that is not sent counts as missing.
LEMMA MissedCounts ==
  ASSUME NEW f \in Frames
  PROVE  /\ Missed(f) \in Frames /\ Missed(f).approved = f.approved
         /\ Missed(f).sent = f.sent /\ Missed(f).missing = f.missing + 1
         /\ Missed(f).last = f.last
BY DEF Frames, Missed

\* A frame that is sent counts as sent, under its number.
LEMMA SentCounts ==
  ASSUME NEW f \in Frames, NEW id \in Nat
  PROVE  /\ Sent(f, id) \in Frames /\ Sent(f, id).approved = f.approved
         /\ Sent(f, id).sent = f.sent + 1 /\ Sent(f, id).missing = f.missing
         /\ Sent(f, id).last = id
<1> DEFINE g == [f EXCEPT !.sent = f.sent + 1]
<1>1. /\ g \in Frames /\ g.approved = f.approved /\ g.sent = f.sent + 1
      /\ g.missing = f.missing
  BY DEF Frames
<1>2. Sent(f, id) = [g EXCEPT !.last = id]
  BY DEF Sent
<1> HIDE DEF g
<1>3. QED
  BY <1>1, <1>2 DEF Frames

\* A frame heard while the connection is up goes on the wire at once, or is
\* lost with it.
LEMMA FrameAccounted ==
  ASSUME AudioInv, NEW energy \in Energy, Frame(energy) \/ MicOnlyFrame(energy)
  PROVE  AudioInv'
<1>0. /\ frames \in Frames /\ frames.approved \in Nat /\ frames.sent \in Nat
      /\ frames.missing \in Nat /\ frames.last \in Nat
  BY DEF AudioInv, AudioType, Frames
<1>1. buffer = <<>> /\ buffer' = buffer /\ Captures(energy) /\ Len(buffer) = 0
  BY DEF Frame, MicOnlyFrame, AudioInv, Bounded, Online
<1>2. CASE UNCHANGED frames
  <2>1. vad' \in Analysis /\ voiced' \in Nat /\ Paid'
    BY <1>1, <1>2, CapturesPay DEF AudioInv
  <2>2. QED
    BY <1>1, <1>2, <2>1 DEF AudioInv, AudioType, Ordered, Tallied, Bounded
<1>3. CASE /\ Analyze(vad, energy).wire
           /\ frames' = Sent(Passed, Passed.approved) \/ frames' = Missed(Passed)
  <2>1. /\ frames' \in Frames /\ frames'.approved = frames.approved + 1
        /\ frames'.last = frames.last \/ frames'.last = frames.approved + 1
        /\ frames'.sent + frames'.missing = frames.sent + frames.missing + 1
    <3>1. /\ Passed \in Frames /\ Passed.approved = frames.approved + 1
          /\ Passed.sent = frames.sent /\ Passed.missing = frames.missing
          /\ Passed.last = frames.last /\ Passed.approved \in Nat
      BY <1>0, PassedCounts
    <3>2. CASE frames' = Missed(Passed)
      BY <1>0, <3>1, <3>2, MissedCounts
    <3>3. CASE frames' = Sent(Passed, Passed.approved)
      <4>1. /\ frames' \in Frames /\ frames'.approved = Passed.approved
            /\ frames'.sent = Passed.sent + 1 /\ frames'.missing = Passed.missing
            /\ frames'.last = Passed.approved
        BY <3>1, <3>3, SentCounts
      <4>2. QED
        BY <1>0, <3>1, <4>1
    <3>4. QED
      BY <1>3, <3>2, <3>3
  <2>2. vad' \in Analysis /\ voiced' \in Nat /\ Paid'
    BY <1>1, <1>3, <2>1, CapturesPay DEF AudioInv
  <2>3. Ordered' /\ Tallied'
    BY <1>0, <1>1, <2>1 DEF AudioInv, Ordered, InOrder, Tallied, Frames
  <2>4. QED
    BY <1>1, <2>1, <2>2, <2>3 DEF AudioInv, AudioType, Bounded
<1>4. QED
  BY <1>2, <1>3 DEF Frame, MicOnlyFrame

\* A frame heard offline waits behind the others; the oldest makes room.
LEMMA OfflineAccounted ==
  ASSUME AudioInv, NEW energy \in Energy, OfflineFrame(energy)
  PROVE  AudioInv'
<1>0. /\ frames \in Frames /\ frames.approved \in Nat /\ frames.sent \in Nat
      /\ frames.missing \in Nat /\ frames.last \in Nat
      /\ buffer \in Seq(Nat) /\ Len(buffer) \in Nat /\ BufferFrames \in Nat \ {0}
  BY PumpAssumption DEF AudioInv, AudioType, Frames
<1>1. /\ frames.approved \in Nat /\ frames.sent \in Nat /\ frames.missing \in Nat
      /\ Len(buffer) \in Nat
  BY <1>0
<1>2. Captures(energy) /\ ~Online' /\ pc = "retry"
  BY DEF OfflineFrame, Leaves, Online
<1>3. CASE UNCHANGED <<frames, buffer>>
  <2>1. vad' \in Analysis /\ voiced' \in Nat /\ Paid'
    BY <1>2, <1>3, CapturesPay DEF AudioInv
  <2>2. QED
    BY <1>2, <1>3, <2>1 DEF AudioInv, AudioType, Ordered, Tallied, Bounded
<1>4. CASE /\ Analyze(vad, energy).wire /\ buffer' = Kept(Passed.approved)
           /\ frames' = IF Len(buffer) = BufferFrames THEN Missed(Passed) ELSE Passed
  <2> DEFINE id == frames.approved + 1
  <2>1. /\ frames' \in Frames /\ frames'.approved = id /\ frames'.last = frames.last
        /\ frames'.sent = frames.sent
        /\ frames'.missing = frames.missing + (IF Len(buffer) = BufferFrames THEN 1 ELSE 0)
    <3>1. /\ Passed \in Frames /\ Passed.approved = frames.approved + 1
          /\ Passed.sent = frames.sent /\ Passed.missing = frames.missing
          /\ Passed.last = frames.last
      BY <1>0, PassedCounts
    <3>2. CASE Len(buffer) = BufferFrames
      BY <1>0, <1>4, <3>1, <3>2, MissedCounts
    <3>3. CASE Len(buffer) # BufferFrames
      BY <1>0, <1>4, <3>1, <3>3
    <3>4. QED
      BY <3>2, <3>3
  <2>2. vad' \in Analysis /\ voiced' \in Nat /\ Paid'
    BY <1>2, <1>4, <2>1, CapturesPay DEF AudioInv
  <2>3. Passed.approved = id /\ id \in Nat
    BY <1>0, PassedCounts
  <2>4. /\ InOrder(frames.last, buffer, frames.approved)
        /\ frames.sent + frames.missing + Len(buffer) = frames.approved
        /\ Len(buffer) <= BufferFrames
    BY DEF AudioInv, Ordered, Tallied, Bounded
  <2>5. CASE Len(buffer) = BufferFrames
    <3>1. buffer' = Append(Tail(buffer), id) /\ buffer # <<>>
      BY <1>0, <1>4, <2>3, <2>5, EmptySeq DEF Kept
    <3>2. Tail(buffer) \in Seq(Nat) /\ Len(Tail(buffer)) = Len(buffer) - 1
      BY <1>0, <3>1, HeadTailProperties
    <3>3. buffer' \in Seq(Nat) /\ Len(buffer') = Len(buffer)
      BY <1>0, <2>3, <3>1, <3>2, AppendProperties
    <3>4. Ordered'
      BY <1>0, <2>1, <2>4, <3>1, <3>2, TailIsInOrder, NextIsInOrder DEF Ordered
    <3>5. frames'.missing = frames.missing + 1
      BY <2>1, <2>5
    <3>6. Tallied'
      <4>1. /\ frames'.sent = frames.sent /\ Len(buffer') = Len(buffer)
            /\ frames'.approved = frames.approved + 1
        BY <2>1, <3>3 DEF id
      <4>2. frames.sent + frames.missing + Len(buffer) = frames.approved
        BY <2>4
      <4>3. QED
        BY <1>1, <3>5, <4>1, <4>2 DEF Tallied
    <3>7. QED
      BY <1>2, <2>1, <2>2, <2>4, <3>3, <3>4, <3>6 DEF AudioInv, AudioType, Bounded
  <2>6. CASE Len(buffer) # BufferFrames
    <3>1. buffer' = Append(buffer, id)
      BY <1>4, <2>3, <2>6 DEF Kept
    <3>2. buffer' \in Seq(Nat) /\ Len(buffer') = Len(buffer) + 1
      BY <1>0, <2>3, <3>1, AppendProperties
    <3>3. Ordered'
      BY <1>0, <2>1, <2>4, <3>1, NextIsInOrder DEF Ordered
    <3>4. frames'.missing = frames.missing
      BY <1>0, <2>1, <2>6
    <3>5. Tallied'
      <4>1. /\ frames'.sent = frames.sent /\ Len(buffer') = Len(buffer) + 1
            /\ frames'.approved = frames.approved + 1
        BY <2>1, <3>2 DEF id
      <4>2. frames.sent + frames.missing + Len(buffer) = frames.approved
        BY <2>4
      <4>3. QED
        BY <1>1, <3>4, <4>1, <4>2 DEF Tallied
    <3>6. Len(buffer') <= BufferFrames
      BY <1>0, <2>4, <2>6, <3>2
    <3>7. QED
      BY <1>2, <2>1, <2>2, <3>2, <3>3, <3>5, <3>6 DEF AudioInv, AudioType, Bounded
  <2>7. QED
    BY <2>5, <2>6
<1>5. QED
  BY <1>3, <1>4 DEF OfflineFrame

\* A frame of the buffer is taken out before its send, and is sent or lost.
LEMMA FlushAccounted ==
  ASSUME AudioInv, Flushes
  PROVE  AudioInv'
<1>0. /\ frames \in Frames /\ frames.approved \in Nat /\ frames.sent \in Nat
      /\ frames.missing \in Nat /\ frames.last \in Nat
      /\ buffer \in Seq(Nat) /\ Len(buffer) \in Nat /\ BufferFrames \in Nat
  BY PumpAssumption DEF AudioInv, AudioType, Frames
<1>1. /\ buffer # <<>> /\ buffer' = Tail(buffer) /\ UNCHANGED <<vad, voiced>>
      /\ frames' = Sent(frames, Head(buffer)) \/ frames' = Missed(frames)
  BY DEF Flushes
<1>2. /\ Head(buffer) \in Nat /\ buffer' \in Seq(Nat) /\ Len(buffer') = Len(buffer) - 1
  BY <1>0, <1>1, HeadTailProperties
<1>3. /\ InOrder(frames.last, buffer, frames.approved)
      /\ frames.sent + frames.missing + Len(buffer) = frames.approved
      /\ Len(buffer) <= BufferFrames
  BY DEF AudioInv, Ordered, Tallied, Bounded
<1>4. /\ InOrder(frames.last, buffer', frames.approved)
      /\ InOrder(Head(buffer), buffer', frames.approved)
  BY <1>0, <1>1, <1>3, TailIsInOrder
<1>5. /\ frames' \in Frames /\ frames'.approved = frames.approved
      /\ frames'.last = frames.last \/ frames'.last = Head(buffer)
      /\ \/ frames'.sent = frames.sent + 1 /\ frames'.missing = frames.missing
         \/ frames'.sent = frames.sent /\ frames'.missing = frames.missing + 1
  <2>1. CASE frames' = Missed(frames)
    BY <1>0, <2>1, MissedCounts
  <2>2. CASE frames' = Sent(frames, Head(buffer))
    BY <1>0, <1>2, <2>2, SentCounts
  <2>3. QED
    BY <1>1, <2>1, <2>2
<1>7. Ordered'
  BY <1>4, <1>5 DEF Ordered
<1>8. Tallied'
  <2>1. frames.sent + frames.missing + Len(buffer) = frames.approved
    BY <1>3
  <2>2. /\ frames.approved \in Nat /\ frames.sent \in Nat /\ frames.missing \in Nat
        /\ Len(buffer) \in Nat
    BY <1>0
  <2>3. /\ (frames.sent + 1) + frames.missing + (Len(buffer) - 1) = frames.approved
        /\ frames.sent + (frames.missing + 1) + (Len(buffer) - 1) = frames.approved
    BY <2>1, <2>2
  <2>4. QED
    BY <1>2, <1>5, <2>3 DEF Tallied
<1>9. Bounded'
  <2>1. ~Online'
    BY DEF Flushes, Reconnects, Leaves, Online
  <2>2. QED
    BY <1>0, <1>2, <1>3, <2>1 DEF Bounded
<1>10. QED
  BY <1>1, <1>2, <1>5, <1>7, <1>8, <1>9 DEF AudioInv, AudioType, Paid

\* Every step keeps the account of the audio.
LEMMA AudioKept ==
  ASSUME AudioInv, [Next]_vars
  PROVE  AudioInv'
<1>1. CASE UNCHANGED vars
  BY <1>1, OthersKeepAudio DEF vars, Online, audio
<1>2. CASE DeviceOpens \/ OpenFails \/ DeviceOpensLate \/ AnswerUnheard \/ DeviceFails
           \/ BridgeEnds \/ DeviceStops \/ EngineLeaves
  <2>1. UNCHANGED audio /\ (Online' => Online)
    BY <1>2
    DEF DeviceOpens, OpenFails, DeviceOpensLate, AnswerUnheard, DeviceFails, BridgeEnds,
        DeviceStops, EngineLeaves, Online
  <2>2. QED
    BY <2>1, OthersKeepAudio
<1>3. CASE Connect \/ Opens
  <2>1. UNCHANGED audio /\ (Online' => Online)
    BY <1>3
    DEF Connect, Connects, ConnectFails, Opens, Reconnects, Leaves, Online
  <2>2. QED
    BY <2>1, OthersKeepAudio
<1>4. CASE SourceEnds \/ Receives \/ Loses \/ KeepaliveFails \/ OfflineSourceEnds
           \/ Finishes \/ Drains \/ DrainEnds
  <2>1. UNCHANGED audio /\ (Online' => Online)
    BY <1>4
    DEF SourceEnds, Receives, Loses, KeepaliveFails, OfflineSourceEnds, Finishes, Drains,
        DrainEnds, Reconnects, Leaves, Online
  <2>2. QED
    BY <2>1, OthersKeepAudio
<1>5. CASE Attempt \/ Greets \/ Flushed
  <2>1. UNCHANGED audio /\ (Online' => Online \/ buffer = <<>>)
    BY <1>5
    DEF Attempt, Answers, Handshake, AttemptFails, AttemptRefused, AttemptConnects, Greets,
        Flushed, Reconnects, Leaves, Online
  <2>2. QED
    BY <2>1, OthersKeepAudio
<1>6. CASE Hears
  BY <1>6, FrameAccounted, OfflineAccounted DEF Hears
<1>7. CASE Flushes
  BY <1>7, FlushAccounted
<1>8. QED
  BY <1>1, <1>2, <1>3, <1>4, <1>5, <1>6, <1>7 DEF Next, Offline

\* The account is settled at first.
LEMMA AudioStarts == Init => AudioInv
<1> SUFFICES ASSUME Init
             PROVE  AudioInv
  OBVIOUS
<1>1. vad \in Analysis /\ ~vad.active /\ voiced = 0 /\ Pad \in Nat /\ BufferFrames \in Nat
  BY VadAssumption, PumpAssumption DEF Init, Fresh, Analysis
<1>2. frames \in Frames /\ frames.approved = 0 /\ frames.sent = 0 /\ frames.missing = 0
      /\ frames.last = 0
  BY DEF Init, Frames
<1>3. buffer = <<>> /\ buffer \in Seq(Nat) /\ Len(buffer) = 0
  BY EmptySeq DEF Init
<1>4. 0 * (Pad + 1) = 0
  BY <1>1
<1>5. Paid
  BY <1>1, <1>2, <1>4 DEF Paid, PadIsKept, PadLeft
<1>6. Ordered /\ Tallied
  BY <1>2, <1>3 DEF Ordered, InOrder, Tallied
<1>7. QED
  BY <1>1, <1>2, <1>3, <1>5, <1>6 DEF AudioInv, AudioType, Bounded

\* Every frame the gate lets pass is on the wire, waiting or counted as lost,
\* the wire carries them in the order they were spoken and none twice, the
\* buffer keeps its bound and is empty online, and quiet frames travel only in
\* the pad behind a voiced one.
THEOREM AudioIsAccounted == Spec => []AudioAccounted
<1>1. AudioInv => AudioAccounted
  <2> SUFFICES ASSUME AudioInv
               PROVE  AudioAccounted
    OBVIOUS
  <2>1. frames.approved <= voiced * (Pad + 1)
    <3>1. /\ frames.approved \in Nat /\ Pad \in Nat /\ voiced * (Pad + 1) \in Nat
      BY VadAssumption DEF AudioInv, AudioType, Frames
    <3>2. PadLeft(vad) \in Nat
      BY <3>1 DEF AudioInv, AudioType, Analysis, Paid, PadIsKept, PadLeft
    <3>3. frames.approved + PadLeft(vad) <= voiced * (Pad + 1)
      BY DEF AudioInv, Paid
    <3>4. QED
      BY <3>1, <3>2, <3>3
  <2>2. Rising(<<frames.last>> \o buffer \o <<frames.approved + 1>>)
    <3>1. frames.last \in Nat /\ frames.approved \in Nat /\ buffer \in Seq(Nat)
      BY DEF AudioInv, AudioType, Frames
    <3>2. QED
      BY <3>1, InOrderRises DEF AudioInv, Ordered
  <2>3. QED
    BY <2>1, <2>2 DEF AudioInv, AudioAccounted, Tallied, Bounded, Online
<1>2. QED
  BY <1>1, AudioStarts, AudioKept, PTL DEF Spec

-----------------------------------------------------------------------------
(* What the server says, and what the engine is told *)

\* The larger of two numbers.
LEMMA MaxOfTwo ==
  ASSUME NEW a \in Nat, NEW b \in Nat
  PROVE  Max({a, b}) = IF a >= b THEN a ELSE b
<1> DEFINE m == IF a >= b THEN a ELSE b
<1>1. m \in {a, b} /\ \A y \in {a, b} : m >= y
  OBVIOUS
<1>2. \A x \in {a, b} : (\A y \in {a, b} : x >= y) => x = m
  OBVIOUS
<1> HIDE DEF m
<1>3. Max({a, b}) \in {a, b} /\ \A y \in {a, b} : Max({a, b}) >= y
  BY <1>1 DEF Max
<1>4. QED
  BY <1>2, <1>3 DEF m

\* The dialects of text take the messages of their own, and no other frame.
LEMMA TextMessages ==
  ASSUME NEW d \in {"aliyun", "tencent"}, NEW settled, NEW m \in Receivable(d, settled)
  PROVE  /\ d = "aliyun" => m.kind \in AliyunMessages \cup {"error", "chatter"}
         /\ d = "tencent" => m.kind \in TencentMessages \cup {"error", "chatter"}
BY DEF Receivable, Taken, Messages, Strangers, Carries, TextWire, TencentWire, Message

\* However a Seed-ASR frame is packed, cut or torn, its payload is the one it
\* was made with.
LEMMA SeedPayload ==
  ASSUME NEW type, NEW payload,
         NEW m \in Unusual(SeedFrame(type, payload)) \cup Damaged(SeedFrame(type, payload))
                     \cup {SeedFrame(type, payload)}
  PROVE  m.payload = payload
<1> DEFINE f == SeedFrame(type, payload)
           Framed == [carrier : {"binary"}, header : Nat, stated : Nat, length : Nat,
                      type : {type, "other"}, packed : BOOLEAN, unpacks : BOOLEAN,
                      utf8 : BOOLEAN, payload : {payload}]
<1>1. f \in Framed
  BY DEF SeedFrame
<1> HIDE DEF f
<1>2. \A g \in Framed, n \in Nat :
        [g EXCEPT !.header = n] \in Framed /\ [g EXCEPT !.length = n] \in Framed
  OBVIOUS
<1>3. /\ [f EXCEPT !.header = 0] \in Framed
      /\ [f EXCEPT !.length = 7] \in Framed /\ [f EXCEPT !.length = 9] \in Framed
      /\ [f EXCEPT !.unpacks = FALSE] \in Framed /\ [f EXCEPT !.utf8 = FALSE] \in Framed
      /\ [f EXCEPT !.type = "other"] \in Framed
  BY <1>1
<1>4. [f EXCEPT !.packed = FALSE, !.unpacks = FALSE] \in Framed
  <2> DEFINE g == [f EXCEPT !.packed = FALSE]
  <2>1. g \in Framed
    BY <1>1
  <2>2. [g EXCEPT !.unpacks = FALSE] \in Framed
    BY <2>1
  <2>3. QED
    BY <2>2
<1>5. /\ [f EXCEPT !.header = 2, !.length = 14] \in Framed
      /\ [f EXCEPT !.header = 2, !.length = 11] \in Framed
  <2> DEFINE g == [f EXCEPT !.header = 2]
  <2>1. g \in Framed
    BY <1>1
  <2>2. [g EXCEPT !.length = 14] \in Framed /\ [g EXCEPT !.length = 11] \in Framed
    BY <2>1
  <2>3. QED
    BY <2>2
<1>6. m \in Framed
  BY <1>1, <1>3, <1>4, <1>5 DEF Unusual, Damaged, f
<1>7. QED
  BY <1>6

Seeds(settled) == {Listed(settled, tail) : tail \in BOOLEAN} \cup {Unlisted(text) : text \in BOOLEAN}

\* A list of utterances tells how many the server had settled as it spoke.
LEMMA SeedMessages ==
  ASSUME NEW settled \in Nat, NEW m \in Receivable("volcengine", settled)
  PROVE  /\ m.payload.tail \in BOOLEAN
         /\ m.payload.listed => m.payload.settled = settled
<1>1. m \in VolcengineMessages(settled)
  BY DEF Receivable, Taken, Messages, Strangers, Carries, BytesWire
<1>2. \A tail \in BOOLEAN : Listed(settled, tail) \in Seeds(settled) /\ Unlisted(tail) \in Seeds(settled)
  BY DEF Seeds
<1>3. PICK type, payload :
        /\ payload \in Seeds(settled)
        /\ m \in Unusual(SeedFrame(type, payload)) \cup Damaged(SeedFrame(type, payload))
                   \cup {SeedFrame(type, payload)}
  <2>1. CASE m \in Unusual(SeedFrame("response", Listed(settled, TRUE)))
               \cup Damaged(SeedFrame("response", Listed(settled, TRUE)))
    BY <1>2, <2>1
  <2>2. CASE m \in Responses(settled)
    <3>1. PICK tail \in BOOLEAN : \/ m = SeedFrame("response", Listed(settled, tail))
                                  \/ m = SeedFrame("response", Unlisted(tail))
      BY <2>2 DEF Responses
    <3>2. QED
      BY <1>2, <3>1
  <2>3. CASE m \in {SeedFrame(type, Unlisted(FALSE)) : type \in {"error", "keepalive"}}
    BY <1>2, <2>3
  <2>4. QED
    BY <1>1, <2>1, <2>2, <2>3 DEF VolcengineMessages
<1>4. m.payload = payload
  BY <1>3, SeedPayload
<1>5. QED
  BY <1>3, <1>4 DEF Seeds, Listed, Unlisted

\* A message makes finals of the utterances it newly settles: of no more than
\* those, and of each while the positions told agree with the server's.
LEMMA MessageSettles ==
  ASSUME NEW d \in Vendors, NEW before \in Nat, NEW e \in Nat,
         NEW settled \in before .. before + 1, NEW m \in Receivable(d, settled)
  PROVE  LET parsed == Parse(d, e, m)
             after  == SettledBy(d, m, before)
         IN  /\ parsed \in Parsed /\ after \in Nat /\ after >= before
             /\ d = "volcengine" /\ e >= before =>
                  parsed.emitted >= after /\ parsed.finals <= after - before
             /\ d = "volcengine" /\ e = before =>
                  parsed.emitted = after /\ parsed.finals = after - before
             /\ d # "volcengine" => parsed.finals = after - before
<1>1. /\ Nothing(e) \in Parsed /\ Nothing(e).finals = 0 /\ Nothing(e).emitted = e
      /\ Failure(e) \in Parsed /\ Failure(e).finals = 0 /\ Failure(e).emitted = e
      /\ APartial(e) \in Parsed /\ APartial(e).finals = 0 /\ APartial(e).emitted = e
      /\ AFinal(e) \in Parsed /\ AFinal(e).finals = 1 /\ AFinal(e).emitted = e
  BY DEF Nothing, Failure, APartial, AFinal, Parsed
<1>2. CASE d = "aliyun"
  <2>1. Parse(d, e, m) = AliyunEvent(e, m)
    BY <1>2 DEF Parse
  <2>2. m.kind \in AliyunMessages \cup {"error", "chatter"}
    BY <1>2, TextMessages
  <2>3. SettledBy(d, m, before) = IF m.kind = "transcription.completed" THEN before + 1 ELSE before
    <3>1. m.kind # "stable"
      BY <2>2 DEF AliyunMessages
    <3>2. QED
      BY <1>2, <3>1 DEF SettledBy
  <2>4. QED
    BY <1>1, <1>2, <2>1, <2>3 DEF AliyunEvent
<1>3. CASE d = "tencent"
  <2>1. Parse(d, e, m) = TencentEvents(e, m)
    BY <1>3 DEF Parse
  <2>2. m.kind \in TencentMessages \cup {"error", "chatter"}
    BY <1>3, TextMessages
  <2>3. SettledBy(d, m, before) = IF m.kind = "stable" THEN before + 1 ELSE before
    <3>1. m.kind # "transcription.completed"
      BY <2>2 DEF TencentMessages
    <3>2. QED
      BY <1>3, <3>1 DEF SettledBy
  <2>4. QED
    BY <1>1, <1>3, <2>1, <2>3 DEF TencentEvents
<1>4. CASE d = "volcengine"
  <2>1. Parse(d, e, m) = VolcengineEvents(e, m)
    BY <1>4 DEF Parse
  <2>2. CASE Decode(m) = "response" /\ m.payload.listed
    <3>1. /\ m.payload.settled = settled /\ m.payload.tail \in BOOLEAN
          /\ settled \in Nat /\ settled >= before
      BY <1>4, <2>2, SeedMessages
    <3>2. SettledBy(d, m, before) = settled
      BY <1>4, <2>2, <3>1 DEF SettledBy
    <3> DEFINE most   == IF settled >= e THEN settled ELSE e
               parsed == Parse(d, e, m)
    <3>3. Max({settled, e}) = most /\ Emitted(e, settled) = most
      BY <3>1, MaxOfTwo DEF Emitted
    <3>4. parsed = [finals |-> most - e, partial |-> m.payload.tail, failed |-> FALSE,
                    emitted |-> most]
      BY <2>1, <2>2, <3>1, <3>3 DEF VolcengineEvents, ParseResponse, Nothing
    <3>5. most \in Nat /\ most - e \in Nat
      BY <3>1
    <3>6. parsed \in Parsed /\ parsed.finals = most - e /\ parsed.emitted = most
      BY <3>1, <3>4, <3>5 DEF Parsed
    <3> HIDE DEF parsed
    <3>7. QED
      BY <1>4, <3>1, <3>2, <3>6 DEF parsed
  <2>3. CASE Decode(m) = "response" /\ ~m.payload.listed
    <3>1. m.payload.tail \in BOOLEAN
      BY <1>4, SeedMessages
    <3>2. SettledBy(d, m, before) = before
      BY <1>4, <2>3 DEF SettledBy
    <3>3. Parse(d, e, m) = [Nothing(e) EXCEPT !.partial = m.payload.tail]
      BY <2>1, <2>3 DEF VolcengineEvents, ParseResponse
    <3>4. /\ Parse(d, e, m) \in Parsed /\ Parse(d, e, m).finals = 0
          /\ Parse(d, e, m).emitted = e
      BY <1>1, <3>1, <3>3 DEF Parsed
    <3>5. QED
      BY <1>4, <3>2, <3>4
  <2>4. CASE Decode(m) # "response"
    <3>1. SettledBy(d, m, before) = before
      BY <1>4, <2>4 DEF SettledBy
    <3>2. Parse(d, e, m) \in {Nothing(e), Failure(e)}
      BY <2>1, <2>4 DEF VolcengineEvents
    <3>3. QED
      BY <1>1, <1>4, <3>1, <3>2
  <2>5. QED
    BY <2>2, <2>3, <2>4
<1>5. QED
  BY <1>2, <1>3, <1>4 DEF Vendors

Over == {"finish", "drain", "ended"}
Unopened == {"mic", "connect"}

\* The microphone-only session knows no connection; the others have used one
\* once they are past the first connect.
Stage ==
  /\ dialect = "mic" => pc \in {"mic", "loop", "ended", "refused"}
  /\ pc \in Unopened => server.links = 0
  /\ dialect # "mic" /\ pc \notin Unopened \cup {"refused"} => server.links >= 1

\* The positions the Seed-ASR dialect has emitted cover those settled on the
\* connection in use, and are just those on the first one.
Positions ==
  dialect = "volcengine" => emitted >= link /\ (server.links <= 1 => emitted = link)

\* What the engine has been told never exceeds what the server has settled,
\* and is all of it on the first connection.
Finals ==
  ~gone => told.finals <= server.settled /\ (server.links <= 1 => told.finals = server.settled)

Reasoned == pc \in Over /\ told.failed = 0 => gone \/ mic = "gone" \/ server.over

TalkInv == PumpType /\ Stage /\ Positions /\ Finals /\ Reasoned

\* A step that hears nothing of the server: it may fail, end or leave, never
\* without the engine being told or being the reason.
LEMMA TalkStays ==
  ASSUME TalkInv, UNCHANGED <<dialect, link, emitted, server>>,
         told' \in Tolds, told'.finals = told.finals, told'.failed >= told.failed,
         budget' \in Nat, gone' \in BOOLEAN, gone => gone',
         mic' \in {"live", "erred", "gone"}, mic = "gone" => mic' = "gone",
         pc' \in Stages, pc' \in Unopened => pc \in Unopened,
         pc \in Unopened => pc' \in Unopened \cup {"refused"} \/ dialect = "mic",
         pc = "refused" => pc' = "refused",
         dialect = "mic" => pc' \in {"mic", "loop", "ended", "refused"},
         pc' \in Over => pc \in Over \/ told'.failed # 0 \/ gone' \/ mic' = "gone"
  PROVE  TalkInv'
<1>1. PumpType'
  BY DEF TalkInv, PumpType
<1>2. Stage' /\ Positions' /\ Finals'
  BY DEF TalkInv, Stage, Positions, Finals
<1>3. Reasoned'
  <2>1. told'.failed = 0 => told.failed = 0
    BY DEF TalkInv, PumpType, Tolds
  <2>2. QED
    BY <2>1 DEF TalkInv, Reasoned
<1>4. QED
  BY <1>1, <1>2, <1>3 DEF TalkInv

\* A failure that is told adds to those told, and to nothing else.
LEMMA FailureIsTold ==
  ASSUME told \in Tolds
  PROVE  LET after == [told EXCEPT !.failed = @ + 1]
         IN  /\ after \in Tolds /\ after.finals = told.finals
             /\ after.failed >= told.failed /\ after.failed # 0
BY DEF Tolds

\* A pump that reconnects has told the engine nothing it would have to tell again.
LEMMA ReconnectsStays ==
  ASSUME TalkInv, Reconnects, dialect # "mic", pc \notin Unopened \cup {"refused"},
         UNCHANGED <<dialect, link, emitted, server, mic, gone>>
  PROVE  TalkInv'
<1>0. told \in Tolds /\ budget \in Nat /\ gone \in BOOLEAN /\ mic \in {"live", "erred", "gone"}
  BY DEF TalkInv, PumpType
<1>1. CASE budget > 0
  BY <1>0, <1>1, TalkStays DEF Reconnects, Stages, Over, Unopened, Tolds
<1>2. CASE ~(budget > 0)
  <2>1. told' = [told EXCEPT !.failed = @ + 1] /\ budget' = budget /\ pc' \in {"finish", "ended"}
    BY <1>2 DEF Reconnects, Leaves
  <2>2. QED
    BY <1>0, <2>1, FailureIsTold, TalkStays DEF Stages, Over, Unopened
<1>3. QED
  BY <1>1, <1>2

\* The device, the open and the frames hear nothing of the server.
LEMMA SilentSteps ==
  ASSUME TalkInv,
         \/ DeviceOpens \/ OpenFails \/ DeviceOpensLate \/ AnswerUnheard \/ DeviceFails
         \/ BridgeEnds \/ DeviceStops \/ EngineLeaves \/ ConnectFails \/ Opens
         \/ Hears \/ SourceEnds \/ OfflineSourceEnds
         \/ Loses \/ KeepaliveFails \/ Attempt \/ Greets \/ Flushes \/ Finishes \/ DrainEnds
  PROVE  TalkInv'
<1>0. /\ told \in Tolds /\ budget \in Nat /\ gone \in BOOLEAN
      /\ mic \in {"live", "erred", "gone"} /\ pc \in Stages /\ told.failed >= told.failed
      /\ dialect = "mic" => pc \in {"mic", "loop", "ended", "refused"}
  BY DEF TalkInv, PumpType, Stage, Tolds
<1>1. CASE DeviceOpens
  BY <1>0, <1>1, TalkStays DEF DeviceOpens, Stages, Over, Unopened
<1>2. CASE OpenFails \/ ConnectFails
  BY <1>0, <1>2, TalkStays DEF OpenFails, ConnectFails, session, Stages, Over, Unopened
<1>3. CASE DeviceOpensLate \/ AnswerUnheard \/ BridgeEnds \/ DeviceStops
  BY <1>0, <1>3, TalkStays DEF DeviceOpensLate, AnswerUnheard, BridgeEnds, DeviceStops, Stages, Over, Unopened
<1>4. CASE DeviceFails
  BY <1>0, <1>4, TalkStays DEF DeviceFails, Over, Unopened
<1>5. CASE EngineLeaves
  BY <1>0, <1>5, TalkStays DEF EngineLeaves, session, Over, Unopened
<1>6. CASE Opens
  BY <1>0, <1>6, TalkStays, ReconnectsStays DEF Opens, Stages, Over, Unopened
<1>7. ASSUME NEW energy \in Energy, Frame(energy)
      PROVE  TalkInv'
  <2>1. /\ pc = "loop" /\ dialect # "mic"
        /\ UNCHANGED <<dialect, mic, link, emitted, server, gone>>
        /\ \/ gone /\ pc' = "finish" /\ UNCHANGED <<budget, told>>
           \/ UNCHANGED <<pc, budget, told>>
           \/ Reconnects
    BY <1>7 DEF Frame, Unheard, session
  <2>2. CASE Reconnects
    BY <2>1, <2>2, ReconnectsStays DEF Unopened
  <2>3. CASE \/ gone /\ pc' = "finish" /\ UNCHANGED <<budget, told>>
             \/ UNCHANGED <<pc, budget, told>>
    BY <1>0, <2>1, <2>3, TalkStays DEF Stages, Over, Unopened
  <2>4. QED
    BY <2>1, <2>2, <2>3
<1>8. ASSUME NEW energy \in Energy, MicOnlyFrame(energy)
      PROVE  TalkInv'
  <2>1. /\ pc = "loop" /\ (pc' = "loop" \/ (pc' = "ended" /\ gone))
        /\ UNCHANGED <<dialect, mic, link, budget, emitted, told, server, gone>>
    BY <1>8 DEF MicOnlyFrame, Unheard, session
  <2>2. QED
    BY <1>0, <2>1, TalkStays DEF Stages, Over, Unopened
<1>9. ASSUME NEW energy \in Energy, OfflineFrame(energy)
      PROVE  TalkInv'
  <2>1. /\ pc = "retry" /\ (pc' = "retry" \/ (pc' \in {"finish", "ended"} /\ gone))
        /\ UNCHANGED <<dialect, mic, link, budget, emitted, told, server, gone>>
    BY <1>9 DEF OfflineFrame, Unheard, Leaves, session
  <2>2. QED
    BY <1>0, <2>1, TalkStays DEF Stages, Over, Unopened
<1>10. CASE SourceEnds \/ OfflineSourceEnds
  <2>1. /\ mic' = "gone" /\ told' \in Tolds /\ told'.finals = told.finals
        /\ told'.failed >= told.failed
        /\ pc \in {"loop", "retry"} /\ pc' \in {"finish", "loop", "ended"}
        /\ dialect = "mic" => pc' \in {"loop", "ended"}
        /\ UNCHANGED <<dialect, link, budget, emitted, server, gone>>
    BY <1>0, <1>10, FailureIsTold DEF SourceEnds, OfflineSourceEnds, Leaves
  <2>2. QED
    BY <1>0, <2>1, TalkStays DEF Stages, Over, Unopened
<1>11. CASE Loses \/ KeepaliveFails \/ Greets
  <2>1. /\ pc \in {"loop", "greet"} /\ dialect # "mic"
        /\ UNCHANGED <<dialect, mic, link, emitted, server, gone>>
        /\ Reconnects \/ (pc' = "flush" /\ UNCHANGED <<budget, told>>)
    BY <1>0, <1>11 DEF Loses, KeepaliveFails, HasKeepalive, Greets, session
  <2>2. CASE Reconnects
    BY <2>1, <2>2, ReconnectsStays DEF Unopened
  <2>3. CASE pc' = "flush" /\ UNCHANGED <<budget, told>>
    BY <1>0, <2>1, <2>3, TalkStays DEF Stages, Over, Unopened
  <2>4. QED
    BY <2>1, <2>2, <2>3
<1>12. CASE Attempt
  <2>1. AttemptConnects \/ AttemptRefused \/ AttemptFails
    BY <1>12 DEF Attempt, Answers, Handshake
  <2>2. pc = "retry" /\ dialect # "mic" /\ UNCHANGED <<dialect, mic, link, emitted, server, gone>>
    BY <1>0, <2>1 DEF AttemptConnects, AttemptRefused, AttemptFails, session
  <2>3. CASE AttemptFails
    BY <2>2, <2>3, ReconnectsStays DEF AttemptFails, Unopened
  <2>4. CASE AttemptRefused
    <3>1. /\ told' = [told EXCEPT !.failed = @ + 1] /\ budget' = budget
          /\ pc' \in {"finish", "ended"}
      BY <2>4 DEF AttemptRefused, Leaves
    <3>2. QED
      BY <1>0, <2>2, <3>1, FailureIsTold, TalkStays DEF Stages, Over, Unopened
  <2>5. CASE AttemptConnects
    BY <1>0, <2>2, <2>5, TalkStays DEF AttemptConnects, Stages, Over, Unopened
  <2>6. QED
    BY <2>1, <2>3, <2>4, <2>5
<1>13. CASE Flushes
  <2>1. /\ pc = "flush" /\ dialect # "mic" /\ UNCHANGED <<dialect, mic, link, emitted, server, gone>>
        /\ Reconnects \/ UNCHANGED <<pc, budget, told>>
    BY <1>0, <1>13 DEF Flushes, session
  <2>2. QED
    BY <1>0, <2>1, TalkStays, ReconnectsStays DEF Over, Unopened
<1>14. CASE Finishes \/ DrainEnds
  BY <1>0, <1>14, TalkStays DEF Finishes, DrainEnds, session, Stages, Over, Unopened
<1>15. QED
  BY <1>1, <1>2, <1>3, <1>4, <1>5, <1>6, <1>7, <1>8, <1>9, <1>10, <1>11, <1>12, <1>13, <1>14
  DEF Hears

\* A message of the server is told as its dialect reads it.
LEMMA MessageHeard ==
  ASSUME TalkInv, pc \in {"loop", "drain"}, dialect # "mic", NEW m \in Said,
         Tells(Parse(dialect, emitted, m)), server' = Heard(m), Settles(m),
         UNCHANGED <<dialect, mic, gone>>, budget' \in Nat,
         pc' \in {"loop", "finish", "drain", "ended"}, pc = "drain" => pc' \in Over,
         pc' \in Over => pc = "drain" \/ gone \/ Parse(dialect, emitted, m).failed
  PROVE  TalkInv'
<1> DEFINE parsed == Parse(dialect, emitted, m)
           after  == SettledBy(dialect, m, link)
<1>0. /\ dialect \in Vendors /\ link \in Nat /\ emitted \in Nat
      /\ told \in Tolds /\ server \in Servers /\ gone \in BOOLEAN
  BY DEF TalkInv, PumpType
<1>1. PICK settled \in link .. link + 1 : m \in Receivable(dialect, settled)
  BY DEF Said
<1>2. /\ parsed \in Parsed /\ after \in Nat /\ after >= link
      /\ dialect = "volcengine" /\ emitted >= link =>
           parsed.emitted >= after /\ parsed.finals <= after - link
      /\ dialect = "volcengine" /\ emitted = link =>
           parsed.emitted = after /\ parsed.finals = after - link
      /\ dialect # "volcengine" => parsed.finals = after - link
  BY <1>0, <1>1, MessageSettles
<1>3. /\ link' = after /\ emitted' = parsed.emitted
      /\ told' = [failed |-> told.failed + (IF parsed.failed THEN 1 ELSE 0),
                  finals |-> told.finals + (IF gone THEN 0 ELSE parsed.finals)]
      /\ server' = [server EXCEPT !.said = @ + 1, !.settled = @ + (after - link)]
  BY DEF Tells, Settles, Heard
<1>4. /\ server' \in Servers /\ server'.links = server.links /\ server'.over = server.over
      /\ server'.settled = server.settled + (after - link)
  <2> DEFINE heard == [server EXCEPT !.said = server.said + 1]
  <2>1. heard \in Servers /\ heard.links = server.links /\ heard.over = server.over
        /\ heard.settled = server.settled /\ server.settled \in Nat
    BY <1>0 DEF Servers
  <2>2. server' = [heard EXCEPT !.settled = server.settled + (after - link)]
    BY <1>0, <1>3 DEF Servers
  <2> HIDE DEF heard, after
  <2>3. server.settled + (after - link) \in Nat
    BY <1>0, <1>2, <2>1
  <2>4. QED
    BY <2>1, <2>2, <2>3 DEF Servers
<1> HIDE DEF parsed, after
<1>5. /\ told' \in Tolds
      /\ told'.failed = told.failed + (IF parsed.failed THEN 1 ELSE 0)
      /\ ~gone => told'.finals = told.finals + parsed.finals
  BY <1>0, <1>2, <1>3 DEF Tolds, Parsed
<1>6. PumpType'
  BY <1>0, <1>2, <1>3, <1>4, <1>5 DEF TalkInv, PumpType, Parsed, Stages
<1>7. Stage'
  BY <1>4 DEF TalkInv, Stage, Unopened
<1>8. Positions'
  BY <1>2, <1>3, <1>4 DEF TalkInv, Positions
<1>9. Finals'
  <2>1. parsed.finals <= after - link /\ (server.links <= 1 => parsed.finals = after - link)
    BY <1>0, <1>2 DEF TalkInv, Positions, Parsed
  <2>2. parsed.finals \in Nat /\ after - link \in Nat /\ told.finals \in Nat /\ server.settled \in Nat
    BY <1>0, <1>2 DEF Parsed, Tolds, Servers
  <2>3. ~gone => told.finals <= server.settled /\ (server.links <= 1 => told.finals = server.settled)
    BY DEF TalkInv, Finals
  <2>4. QED
    BY <1>4, <1>5, <2>1, <2>2, <2>3 DEF Finals
<1>10. Reasoned'
  <2>1. told'.failed = 0 => told.failed = 0 /\ ~parsed.failed
    BY <1>0, <1>5 DEF Tolds
  <2>2. QED
    BY <1>4, <2>1 DEF TalkInv, Reasoned, Over, parsed
<1>11. QED
  BY <1>6, <1>7, <1>8, <1>9, <1>10 DEF TalkInv

\* Every step keeps the account of what was told.
LEMMA TalkKept ==
  ASSUME TalkInv, [Next]_vars
  PROVE  TalkInv'
<1>0. /\ dialect \in Vendors \cup {"mic"} /\ link \in Nat /\ emitted \in Nat /\ budget \in Nat
      /\ told \in Tolds /\ server \in Servers /\ gone \in BOOLEAN /\ MaxReconnects \in Nat
      /\ mic \in {"live", "erred", "gone"} /\ pc \in Stages
      /\ dialect = "mic" => pc \in {"mic", "loop", "ended", "refused"}
  BY PumpAssumption DEF TalkInv, PumpType, Stage
<1>1. CASE UNCHANGED vars
  BY <1>1 DEF vars, session, TalkInv, PumpType, Stage, Positions, Finals, Reasoned
<1>2. CASE Connects
  <2>1. /\ pc = "connect" /\ pc' \in {"opening", "loop"} /\ server.links = 0
        /\ server' \in Servers /\ server'.links = 1 /\ server'.settled = server.settled
        /\ server'.over = server.over
        /\ UNCHANGED <<dialect, mic, link, budget, emitted, told, gone>>
    BY <1>0, <1>2 DEF Connects, TalkInv, Stage, Unopened, Servers
  <2>2. QED
    BY <1>0, <2>1
    DEF TalkInv, PumpType, Stage, Stages, Unopened, Positions, Finals, Reasoned, Over
<1>3. CASE Flushed
  <2>1. /\ pc = "flush" /\ pc' = "loop" /\ link' = 0 /\ dialect # "mic" /\ server.links >= 1
        /\ server' \in Servers /\ server'.links = server.links + 1
        /\ server'.settled = server.settled /\ server'.over = server.over
        /\ UNCHANGED <<dialect, mic, budget, emitted, told, gone>>
    BY <1>0, <1>3 DEF Flushed, TalkInv, Stage, Unopened, Servers
  <2>2. server.links \in Nat /\ ~(server'.links <= 1)
    BY <1>0, <2>1 DEF Servers
  <2>3. QED
    BY <1>0, <2>1, <2>2
    DEF TalkInv, PumpType, Stage, Stages, Unopened, Positions, Finals, Reasoned, Over
<1>4. CASE Receives
  <2>1. PICK m \in Said :
          IF SessionOver(dialect, m)
          THEN /\ pc' = "finish" /\ server' = [server EXCEPT !.said = @ + 1, !.over = TRUE]
               /\ UNCHANGED <<budget, emitted, told, link>>
          ELSE LET parsed == Parse(dialect, emitted, m) IN
               /\ budget' = MaxReconnects /\ Tells(parsed) /\ server' = Heard(m) /\ Settles(m)
               /\ pc' = IF (gone /\ ~Silent(parsed)) \/ parsed.failed THEN "finish" ELSE "loop"
    BY <1>4 DEF Receives
  <2>2. pc = "loop" /\ dialect # "mic" /\ UNCHANGED <<dialect, mic, gone>>
    BY <1>4 DEF Receives, session
  <2>3. CASE SessionOver(dialect, m)
    <3>1. /\ pc' = "finish" /\ server' = [server EXCEPT !.said = @ + 1, !.over = TRUE]
          /\ UNCHANGED <<budget, emitted, told, link>>
      BY <2>1, <2>3
    <3>2. /\ server' \in Servers /\ server'.links = server.links /\ server'.over
          /\ server'.settled = server.settled
      <4> DEFINE heard == [server EXCEPT !.said = server.said + 1]
      <4>1. heard \in Servers /\ heard.links = server.links /\ heard.settled = server.settled
        BY <1>0 DEF Servers
      <4>2. server' = [heard EXCEPT !.over = TRUE]
        BY <3>1
      <4> HIDE DEF heard
      <4>3. QED
        BY <4>1, <4>2 DEF Servers
    <3>3. QED
      BY <1>0, <2>2, <3>1, <3>2
      DEF TalkInv, PumpType, Stage, Stages, Unopened, Positions, Finals, Reasoned, Over
  <2>4. CASE ~SessionOver(dialect, m)
    BY <1>0, <2>1, <2>2, <2>4, MessageHeard DEF Over
  <2>5. QED
    BY <2>3, <2>4
<1>5. CASE Drains
  <2>1. PICK m \in Said :
          IF SessionOver(dialect, m)
          THEN pc' = "ended" /\ UNCHANGED <<emitted, told, server, link>>
          ELSE LET parsed == Parse(dialect, emitted, m) IN
               /\ Tells(parsed) /\ server' = Heard(m) /\ Settles(m)
               /\ pc' = IF (gone /\ ~Silent(parsed)) \/ parsed.failed THEN "ended" ELSE "drain"
    BY <1>5 DEF Drains
  <2>2. pc = "drain" /\ dialect # "mic" /\ UNCHANGED <<dialect, mic, gone, budget>>
    BY <1>0, <1>5 DEF Drains, session
  <2>3. CASE SessionOver(dialect, m)
    BY <1>0, <2>1, <2>2, <2>3, TalkStays DEF Stages, Over, Unopened, Tolds
  <2>4. CASE ~SessionOver(dialect, m)
    BY <1>0, <2>1, <2>2, <2>4, MessageHeard DEF Over
  <2>5. QED
    BY <2>3, <2>4
<1>6. CASE Connect /\ ~Connects
  BY <1>6, SilentSteps DEF Connect
<1>7. QED
  BY <1>1, <1>2, <1>3, <1>4, <1>5, <1>6, SilentSteps DEF Next, Offline

\* No utterance the server settles reaches the engine as a final twice, and on
\* the first connection each one the pump reads does; a stream ends without a
\* failure only for a reason the engine can do without.
THEOREM SettledOnce == Spec => []EachSettledOnce
<1>1. Init => TalkInv
  <2> SUFFICES ASSUME Init
               PROVE  TalkInv
    OBVIOUS
  <2>1. /\ told \in Tolds /\ told.finals = 0 /\ server \in Servers /\ server.links = 0
        /\ server.settled = 0
    BY DEF Init, Tolds, Servers
  <2>2. /\ dialect \in Vendors \cup {"mic"} /\ pc = "mic" /\ mic = "live" /\ gone = FALSE
        /\ link = 0 /\ budget \in Nat /\ emitted = 0
    BY PumpAssumption DEF Init
  <2>3. PumpType
    BY <2>1, <2>2 DEF PumpType, Stages
  <2>4. Stage /\ Reasoned
    BY <2>1, <2>2 DEF Stage, Unopened, Reasoned, Over
  <2>5. Positions /\ Finals
    BY <2>1, <2>2 DEF Positions, Finals
  <2>6. QED
    BY <2>3, <2>4, <2>5 DEF TalkInv
<1>2. TalkInv => EachSettledOnce
  <2> SUFFICES ASSUME TalkInv
               PROVE  EachSettledOnce
    OBVIOUS
  <2>1. server.links = 1 => server.links <= 1
    OBVIOUS
  <2>2. QED
    BY <2>1 DEF TalkInv, Finals, Reasoned, Over, EachSettledOnce
<1>3. QED
  BY <1>1, <1>2, TalkKept, PTL DEF Spec

=============================================================================
