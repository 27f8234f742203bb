------------------------- MODULE SlotDocumentProofs -------------------------
(***************************************************************************)
(* Theorems of SlotDocument, for any placeholders, texts, values and marks *)
(* and a history of any length: the two stacks of a preview are one line   *)
(* of states, walked one edit at a time, and the rows a confirm hands over *)
(* fill the body to the text it inserts.                                   *)
(***************************************************************************)
EXTENDS SlotDocument, FiniteSetTheorems, SequenceTheorems, WellFoundedInduction, TLAPS

Snaps == [skeleton : Skeletons \cup {<<>>},
          values : UNION {[ids -> Values] : ids \in SUBSET Ids}, mark : Marks]

DocumentType ==
  /\ skeleton \in Skeletons \cup {<<>>}
  /\ values \in UNION {[ids -> Values] : ids \in SUBSET Ids}
  /\ undo \in Seq(Snaps) /\ redo \in Seq(Snaps)

-----------------------------------------------------------------------------
(* The line the two stacks make *)

Line(u, c, r) == Append(Contents(u), c) \o Reverse(Contents(r))
LineMarks(u, r) == MarksOf(u) \o Reverse(MarksOf(r))

\* A snapshot's content is a document, its mark a mark.
LEMMA StackIs ==
  ASSUME NEW s \in Seq(Snaps)
  PROVE  /\ Contents(s) \in Seq(Documents) /\ Len(Contents(s)) = Len(s)
         /\ \A k \in 1 .. Len(s) : Contents(s)[k] = Content(s[k])
         /\ MarksOf(s) \in Seq(Marks) /\ Len(MarksOf(s)) = Len(s)
         /\ \A k \in 1 .. Len(s) : MarksOf(s)[k] = s[k].mark
<1>1. Len(s) \in Nat /\ DOMAIN s = 1 .. Len(s) /\ \A k \in 1 .. Len(s) : s[k] \in Snaps
  BY LenProperties, ElementOfSeq
<1>2. \A k \in 1 .. Len(s) : Content(s[k]) \in Documents /\ s[k].mark \in Marks
  BY <1>1 DEF Snaps, Documents, Content
<1>3. Contents(s) \in [1 .. Len(s) -> Documents] /\ MarksOf(s) \in [1 .. Len(s) -> Marks]
  BY <1>1, <1>2 DEF Contents, MarksOf
<1>4. QED
  BY <1>1, <1>3 DEF Contents, MarksOf

\* The last comes first.
LEMMA ReverseIs ==
  ASSUME NEW S, NEW s \in Seq(S)
  PROVE  /\ Reverse(s) \in Seq(S) /\ Len(Reverse(s)) = Len(s)
         /\ \A k \in 1 .. Len(s) : Reverse(s)[k] = s[Len(s) - k + 1]
<1>1. Len(s) \in Nat /\ \A k \in 1 .. Len(s) : s[k] \in S
  BY LenProperties, ElementOfSeq
<1>2. \A k \in 1 .. Len(s) : Len(s) - k + 1 \in 1 .. Len(s)
  BY <1>1
<1>3. Reverse(s) \in [1 .. Len(s) -> S]
  BY <1>1, <1>2 DEF Reverse
<1>4. QED
  BY <1>1, <1>3 DEF Reverse

\* What can be undone comes first, oldest first, then the document, then what
\* can be redone, nearest first.
LEMMA LineIs ==
  ASSUME NEW u \in Seq(Snaps), NEW c \in Documents, NEW r \in Seq(Snaps)
  PROVE  /\ Line(u, c, r) \in Seq(Documents)
         /\ Len(u) \in Nat /\ Len(r) \in Nat
         /\ Len(Line(u, c, r)) = Len(u) + 1 + Len(r)
         /\ \A k \in 1 .. Len(u) : Line(u, c, r)[k] = Content(u[k])
         /\ Line(u, c, r)[Len(u) + 1] = c
         /\ \A k \in 1 .. Len(r) : Line(u, c, r)[Len(u) + 1 + k] = Content(r[Len(r) - k + 1])
<1> DEFINE past   == Append(Contents(u), c)
           future == Reverse(Contents(r))
<1>1. Len(u) \in Nat /\ Len(r) \in Nat
  BY LenProperties
<1>2. /\ past \in Seq(Documents) /\ Len(past) = Len(u) + 1
      /\ \A k \in 1 .. Len(u) : past[k] = Content(u[k])
      /\ past[Len(u) + 1] = c
  BY <1>1, StackIs, AppendProperties
<1>3. /\ future \in Seq(Documents) /\ Len(future) = Len(r)
      /\ \A k \in 1 .. Len(r) : future[k] = Contents(r)[Len(r) - k + 1]
  BY StackIs, ReverseIs
<1>4. \A k \in 1 .. Len(r) : future[k] = Content(r[Len(r) - k + 1])
  <2>1. \A k \in 1 .. Len(r) : Len(r) - k + 1 \in 1 .. Len(r)
    BY <1>1
  <2>2. QED
    BY <1>3, <2>1, StackIs
<1> HIDE DEF past, future
<1>5. /\ past \o future \in Seq(Documents)
      /\ Len(past \o future) = Len(u) + 1 + Len(r)
      /\ \A k \in 1 .. Len(u) + 1 + Len(r) :
           (past \o future)[k] = IF k <= Len(u) + 1 THEN past[k] ELSE future[k - (Len(u) + 1)]
  <2>0. past \in Seq(Documents) /\ future \in Seq(Documents)
    BY <1>2, <1>3
  <2>1. /\ past \o future \in Seq(Documents)
        /\ Len(past \o future) = Len(past) + Len(future)
        /\ \A k \in 1 .. Len(past) + Len(future) :
             (past \o future)[k] = IF k <= Len(past) THEN past[k] ELSE future[k - Len(past)]
    BY <2>0, ConcatProperties
  <2>2. Len(past) = Len(u) + 1 /\ Len(future) = Len(r)
    BY <1>2, <1>3
  <2>3. QED
    BY <2>1, <2>2
<1>6. \A k \in 1 .. Len(u) + 1 : (past \o future)[k] = past[k]
  BY <1>1, <1>5
<1>7. \A k \in 1 .. Len(r) : (past \o future)[Len(u) + 1 + k] = future[k]
  <2> SUFFICES ASSUME NEW k \in 1 .. Len(r)
               PROVE  (past \o future)[Len(u) + 1 + k] = future[k]
    OBVIOUS
  <2>1. /\ Len(u) + 1 + k \in 1 .. Len(u) + 1 + Len(r) /\ ~(Len(u) + 1 + k <= Len(u) + 1)
        /\ Len(u) + 1 + k - (Len(u) + 1) = k
    BY <1>1
  <2>2. QED
    BY <1>5, <2>1
<1>8. Line(u, c, r) = past \o future
  BY DEF Line, past, future
<1>9. QED
  BY <1>1, <1>2, <1>4, <1>5, <1>6, <1>7, <1>8

\* What the line holds up to the document.
LEMMA LinePast ==
  ASSUME NEW u \in Seq(Snaps), NEW c \in Documents, NEW r \in Seq(Snaps)
  PROVE  /\ \A k \in 1 .. Len(u) : Line(u, c, r)[k] = Content(u[k])
         /\ Line(u, c, r)[Len(u) + 1] = c
BY LineIs

\* So do their marks.
LEMMA LineMarksAre ==
  ASSUME NEW u \in Seq(Snaps), NEW r \in Seq(Snaps)
  PROVE  /\ LineMarks(u, r) \in Seq(Marks) /\ Len(LineMarks(u, r)) = Len(u) + Len(r)
         /\ \A k \in 1 .. Len(u) : LineMarks(u, r)[k] = u[k].mark
         /\ \A k \in 1 .. Len(r) : LineMarks(u, r)[Len(u) + k] = r[Len(r) - k + 1].mark
<1> DEFINE past   == MarksOf(u)
           future == Reverse(MarksOf(r))
<1>1. Len(u) \in Nat /\ Len(r) \in Nat
  BY LenProperties
<1>2. /\ past \in Seq(Marks) /\ Len(past) = Len(u)
      /\ \A k \in 1 .. Len(u) : past[k] = u[k].mark
  BY StackIs
<1>3. /\ future \in Seq(Marks) /\ Len(future) = Len(r)
      /\ \A k \in 1 .. Len(r) : future[k] = MarksOf(r)[Len(r) - k + 1]
  BY StackIs, ReverseIs
<1>4. \A k \in 1 .. Len(r) : future[k] = r[Len(r) - k + 1].mark
  <2>1. \A k \in 1 .. Len(r) : Len(r) - k + 1 \in 1 .. Len(r)
    BY <1>1
  <2>2. QED
    BY <1>3, <2>1, StackIs
<1> HIDE DEF past, future
<1>5. /\ past \o future \in Seq(Marks)
      /\ Len(past \o future) = Len(u) + Len(r)
      /\ \A k \in 1 .. Len(u) + Len(r) :
           (past \o future)[k] = IF k <= Len(u) THEN past[k] ELSE future[k - Len(u)]
  BY <1>1, <1>2, <1>3, ConcatProperties
<1>6. \A k \in 1 .. Len(u) : (past \o future)[k] = past[k]
  BY <1>1, <1>5
<1>7. \A k \in 1 .. Len(r) : (past \o future)[Len(u) + k] = future[k]
  <2> SUFFICES ASSUME NEW k \in 1 .. Len(r)
               PROVE  (past \o future)[Len(u) + k] = future[k]
    OBVIOUS
  <2>1. /\ Len(u) + k \in 1 .. Len(u) + Len(r) /\ ~(Len(u) + k <= Len(u))
        /\ Len(u) + k - Len(u) = k
    BY <1>1
  <2>2. QED
    BY <1>5, <2>1
<1>8. LineMarks(u, r) = past \o future
  BY DEF LineMarks, past, future
<1>9. QED
  BY <1>2, <1>4, <1>5, <1>6, <1>7, <1>8

-----------------------------------------------------------------------------
(* What a step does to the line *)

\* The last of a stack and those before it.
LEMMA Top ==
  ASSUME NEW S, NEW s \in Seq(S), s # <<>>
  PROVE  /\ Len(s) \in Nat \ {0} /\ Last(s) = s[Len(s)] /\ Last(s) \in S
         /\ Front(s) \in Seq(S) /\ Len(Front(s)) = Len(s) - 1
         /\ \A k \in 1 .. Len(s) - 1 : Front(s)[k] = s[k]
         /\ Append(Front(s), Last(s)) = s
<1>1. Len(s) \in Nat \ {0} /\ \A k \in 1 .. Len(s) : s[k] \in S
  BY EmptySeq, LenProperties, ElementOfSeq
<1>2. Last(s) = s[Len(s)] /\ Last(s) \in S
  BY <1>1 DEF Last
<1>3. /\ Front(s) \in Seq(S) /\ Len(Front(s)) = Len(s) - 1
      /\ \A k \in 1 .. Len(s) - 1 : Front(s)[k] = s[k]
  <2> DEFINE n == Len(s) - 1
  <2>1. n \in Int /\ 1 \in Int /\ \A k \in 1 .. n : s[k] \in S
    BY <1>1
  <2>2. /\ SubSeq(s, 1, n) \in Seq(S)
        /\ Len(SubSeq(s, 1, n)) = IF 1 <= n THEN n - 1 + 1 ELSE 0
        /\ \A k \in 1 .. n - 1 + 1 : SubSeq(s, 1, n)[k] = s[1 + k - 1]
    <3> HIDE DEF n
    <3>1. QED
      BY <2>1, SubSeqProperties
  <2>3. Front(s) = SubSeq(s, 1, n)
    BY DEF Front
  <2>4. Len(SubSeq(s, 1, n)) = n
    <3>1. n \in Nat
      BY <1>1
    <3> HIDE DEF n
    <3>2. QED
      BY <2>2, <3>1
  <2>5. ASSUME NEW k \in 1 .. n
        PROVE  SubSeq(s, 1, n)[k] = s[k]
    <3>1. n - 1 + 1 = n /\ 1 + k - 1 = k
      BY <1>1
    <3>2. QED
      BY <2>2, <3>1
  <2>6. QED
    BY <2>2, <2>3, <2>4, <2>5
<1>4. /\ Append(Front(s), Last(s)) \in Seq(S)
      /\ Len(Append(Front(s), Last(s))) = Len(Front(s)) + 1
      /\ \A k \in 1 .. Len(Front(s)) : Append(Front(s), Last(s))[k] = Front(s)[k]
      /\ Append(Front(s), Last(s))[Len(Front(s)) + 1] = Last(s)
  BY <1>2, <1>3, AppendProperties
<1>5. /\ Len(Append(Front(s), Last(s))) = Len(s)
      /\ \A k \in 1 .. Len(s) : Append(Front(s), Last(s))[k] = s[k]
  BY <1>1, <1>2, <1>3, <1>4
<1>6. QED
  BY <1>1, <1>2, <1>3, <1>4, <1>5, SeqEqual

\* A step back or forward leaves the line as it is: the state it leaves goes
\* to the other stack under the mark of the edit it crosses.
LEMMA Crosses ==
  ASSUME NEW u \in Seq(Snaps), u # <<>>, NEW r \in Seq(Snaps),
         NEW s \in Snaps, s.mark = Last(u).mark
  PROVE  /\ Line(Front(u), Content(Last(u)), Append(r, s)) = Line(u, Content(s), r)
         /\ LineMarks(Front(u), Append(r, s)) = LineMarks(u, r)
<1> DEFINE f == Front(u)
           t == Append(r, s)
           c == Content(Last(u))
           d == Content(s)
<1>1. /\ Len(u) \in Nat \ {0} /\ Last(u) = u[Len(u)] /\ Last(u) \in Snaps
      /\ f \in Seq(Snaps) /\ Len(f) = Len(u) - 1
      /\ \A k \in 1 .. Len(u) - 1 : f[k] = u[k]
  BY Top
<1>2. /\ Len(r) \in Nat /\ t \in Seq(Snaps) /\ Len(t) = Len(r) + 1
      /\ \A k \in 1 .. Len(r) : t[k] = r[k]
      /\ t[Len(r) + 1] = s
  BY LenProperties, AppendProperties
<1>3. c \in Documents /\ d \in Documents
  BY <1>1 DEF Content, Snaps, Documents
<1> HIDE DEF f, t, c, d
<1>4. Line(f, c, t) = Line(u, d, r)
  <2> DEFINE a == Line(f, c, t)
             b == Line(u, d, r)
             m == Len(u)
             n == Len(r)
  <2>1. /\ a \in Seq(Documents) /\ Len(a) = m + 1 + n
        /\ \A k \in 1 .. m - 1 : a[k] = Content(u[k])
        /\ a[m] = c /\ \A k \in 1 .. n + 1 : a[m + k] = Content(t[n + 1 - k + 1])
    <3>0. f \in Seq(Snaps) /\ c \in Documents /\ t \in Seq(Snaps)
      BY <1>1, <1>2, <1>3
    <3>a. /\ a \in Seq(Documents)
          /\ Len(a) = Len(f) + 1 + Len(t)
      BY <3>0, LineIs
    <3>b. \A k \in 1 .. Len(f) : a[k] = Content(f[k])
      BY <3>0, LineIs
    <3>c. a[Len(f) + 1] = c
      BY <3>0, LineIs
    <3>1. \A k \in 1 .. Len(t) : a[Len(f) + 1 + k] = Content(t[Len(t) - k + 1])
      BY <3>0, LineIs
    <3> HIDE DEF a
    <3>2. Len(f) + 1 = m /\ Len(f) = m - 1 /\ Len(t) = n + 1 /\ m \in Nat /\ n \in Nat
      BY <1>1, <1>2
    <3>3. \A k \in 1 .. n + 1 : a[m + k] = Content(t[n + 1 - k + 1])
      BY <3>1, <3>2
    <3>4. \A k \in 1 .. m - 1 : a[k] = Content(u[k])
      BY <1>1, <3>b, <3>2
    <3>5. Len(a) = m + 1 + n
      BY <3>a, <3>2
    <3>6. QED
      BY <3>a, <3>c, <3>2, <3>3, <3>4, <3>5
  <2>2. /\ b \in Seq(Documents) /\ Len(b) = m + 1 + n
        /\ \A k \in 1 .. m : b[k] = Content(u[k])
        /\ b[m + 1] = d /\ \A k \in 1 .. n : b[m + 1 + k] = Content(r[n - k + 1])
    BY <1>3, LineIs, ZenonT(30)
  <2> HIDE DEF a, b
  <2>3. m \in Nat \ {0} /\ n \in Nat
    BY <1>1, <1>2
  <2>4. a[m] = b[m]
    BY <1>1, <2>1, <2>2, <2>3 DEF c
  <2>5. a[m + 1] = b[m + 1]
    <3>1. 1 \in 1 .. n + 1 /\ n + 1 - 1 + 1 = n + 1
      BY <2>3
    <3>2. a[m + 1] = Content(t[n + 1])
      BY <2>1, <3>1
    <3>3. QED
      BY <1>2, <2>2, <3>2 DEF d
  <2>6. ASSUME NEW k \in 1 .. n
        PROVE  a[m + 1 + k] = b[m + 1 + k]
    <3>1. /\ k + 1 \in 1 .. n + 1 /\ m + (k + 1) = m + 1 + k
          /\ n + 1 - (k + 1) + 1 = n - k + 1 /\ n - k + 1 \in 1 .. n
      BY <2>3
    <3>2. a[m + 1 + k] = Content(t[n - k + 1])
      BY <2>1, <3>1
    <3>3. QED
      BY <1>2, <2>2, <3>1, <3>2
  <2>7. ASSUME NEW k \in 1 .. m + 1 + n
        PROVE  a[k] = b[k]
    <3>1. CASE k < m
      <4>1. k \in 1 .. m - 1 /\ k \in 1 .. m
        BY <2>3, <3>1
      <4>2. QED
        BY <2>1, <2>2, <4>1
    <3>2. CASE k = m \/ k = m + 1
      BY <2>4, <2>5, <3>2
    <3>3. CASE k > m + 1
      <4>1. k - (m + 1) \in 1 .. n /\ m + 1 + (k - (m + 1)) = k
        BY <2>3, <3>3
      <4>2. QED
        BY <2>6, <4>1
    <3>4. QED
      BY <2>3, <3>1, <3>2, <3>3
  <2>8. a = b
    BY <2>1, <2>2, <2>7, SeqEqual
  <2>9. QED
    BY <2>8 DEF a, b
<1>5. LineMarks(f, t) = LineMarks(u, r)
  <2> DEFINE a == LineMarks(f, t)
             b == LineMarks(u, r)
             m == Len(u)
             n == Len(r)
  <2>1. /\ a \in Seq(Marks) /\ Len(a) = m + n
        /\ \A k \in 1 .. m - 1 : a[k] = u[k].mark
        /\ \A k \in 1 .. n + 1 : a[m - 1 + k] = t[n + 1 - k + 1].mark
    <3>1. /\ a \in Seq(Marks)
          /\ Len(a) = Len(f) + Len(t)
          /\ \A k \in 1 .. Len(f) : a[k] = f[k].mark
          /\ \A k \in 1 .. Len(t) : a[Len(f) + k] = t[Len(t) - k + 1].mark
      BY <1>1, <1>2, LineMarksAre
    <3> HIDE DEF a
    <3>2. Len(f) = m - 1 /\ Len(t) = n + 1 /\ m \in Nat /\ n \in Nat
      BY <1>1, <1>2
    <3>3. \A k \in 1 .. n + 1 : a[m - 1 + k] = t[n + 1 - k + 1].mark
      BY <3>1, <3>2
    <3>4. \A k \in 1 .. m - 1 : a[k] = u[k].mark
      BY <1>1, <3>1, <3>2
    <3>5. Len(a) = m + n
      BY <3>1, <3>2
    <3>6. QED
      BY <3>1, <3>3, <3>4, <3>5
  <2>2. /\ b \in Seq(Marks) /\ Len(b) = m + n
        /\ \A k \in 1 .. m : b[k] = u[k].mark
        /\ \A k \in 1 .. n : b[m + k] = r[n - k + 1].mark
    BY LineMarksAre
  <2> HIDE DEF a, b
  <2>3. m \in Nat \ {0} /\ n \in Nat
    BY <1>1, <1>2
  <2>4. a[m] = b[m]
    <3>1. 1 \in 1 .. n + 1 /\ n + 1 - 1 + 1 = n + 1 /\ m - 1 + 1 = m /\ m \in 1 .. m
      BY <2>3
    <3>2. a[m] = t[n + 1].mark
      BY <2>1, <3>1
    <3>3. QED
      BY <1>1, <1>2, <2>2, <3>1, <3>2
  <2>5. ASSUME NEW k \in 1 .. n
        PROVE  a[m + k] = b[m + k]
    <3>1. /\ k + 1 \in 1 .. n + 1 /\ m - 1 + (k + 1) = m + k
          /\ n + 1 - (k + 1) + 1 = n - k + 1 /\ n - k + 1 \in 1 .. n
      BY <2>3
    <3>2. a[m + k] = t[n - k + 1].mark
      BY <2>1, <3>1
    <3>3. QED
      BY <1>2, <2>2, <3>1, <3>2
  <2>6. ASSUME NEW k \in 1 .. m + n
        PROVE  a[k] = b[k]
    <3>1. CASE k < m
      <4>1. k \in 1 .. m - 1 /\ k \in 1 .. m
        BY <2>3, <3>1
      <4>2. QED
        BY <2>1, <2>2, <4>1
    <3>2. CASE k = m
      BY <2>4, <3>2
    <3>3. CASE k > m
      <4>1. k - m \in 1 .. n /\ m + (k - m) = k
        BY <2>3, <3>3
      <4>2. QED
        BY <2>5, <4>1
    <3>4. QED
      BY <2>3, <3>1, <3>2, <3>3
  <2>7. a = b
    BY <2>1, <2>2, <2>6, SeqEqual
  <2>8. QED
    BY <2>7 DEF a, b
<1>6. QED
  BY <1>4, <1>5 DEF f, t, c, d

\* A new round is a line of one state.
LEMMA LineStarts ==
  ASSUME NEW c \in Documents
  PROVE  Line(<<>>, c, <<>>) = <<c>> /\ LineMarks(<<>>, <<>>) = <<>>
<1>1. <<>> \in Seq(Snaps) /\ Len(<<>>) = 0
  BY EmptySeq
<1>2. /\ Line(<<>>, c, <<>>) \in Seq(Documents) /\ Len(Line(<<>>, c, <<>>)) = 1
      /\ Line(<<>>, c, <<>>)[1] = c
  <2> PICK e : e = <<>>
    OBVIOUS
  <2> PICK f : f = <<>>
    OBVIOUS
  <2>0. e \in Seq(Snaps) /\ f \in Seq(Snaps)
    BY <1>1
  <2>1. Len(e) = 0 /\ Len(f) = 0
    BY <1>1
  <2>2. /\ Line(e, c, f) \in Seq(Documents) /\ Len(Line(e, c, f)) = Len(e) + 1 + Len(f)
    BY <2>0, LineIs
  <2>3. Line(e, c, f)[Len(e) + 1] = c
    BY <2>0, LineIs, ZenonT(30)
  <2>4. QED
    BY <2>1, <2>2, <2>3
<1>3. LineMarks(<<>>, <<>>) \in Seq(Marks) /\ Len(LineMarks(<<>>, <<>>)) = 0
  <2>1. Len(LineMarks(<<>>, <<>>)) = Len(<<>>) + Len(<<>>)
    BY <1>1, LineMarksAre
  <2>2. LineMarks(<<>>, <<>>) \in Seq(Marks)
    BY <1>1, LineMarksAre
  <2>3. QED
    BY <1>1, <2>1, <2>2
<1>4. <<c>> \in Seq(Documents) /\ Len(<<c>>) = 1 /\ <<c>>[1] = c
  OBVIOUS
<1>5. Line(<<>>, c, <<>>) = <<c>>
  BY <1>2, <1>4, SeqEqual
<1>6. LineMarks(<<>>, <<>>) = <<>>
  BY <1>3, EmptySeq
<1>7. QED
  BY <1>5, <1>6

\* The first entries of a sequence, and one more.
LEMMA Cut ==
  ASSUME NEW S, NEW s \in Seq(S), NEW n \in 0 .. Len(s), NEW e \in S
  PROVE  /\ Append(SubSeq(s, 1, n), e) \in Seq(S)
         /\ Len(Append(SubSeq(s, 1, n), e)) = n + 1
         /\ \A k \in 1 .. n : Append(SubSeq(s, 1, n), e)[k] = s[k]
         /\ Append(SubSeq(s, 1, n), e)[n + 1] = e
<1> DEFINE t == SubSeq(s, 1, n)
<1>1. n \in Nat /\ Len(s) \in Nat /\ 1 \in Int /\ n \in Int /\ \A k \in 1 .. n : s[k] \in S
  BY LenProperties, ElementOfSeq
<1>2. /\ t \in Seq(S) /\ Len(t) = IF 1 <= n THEN n - 1 + 1 ELSE 0
      /\ \A k \in 1 .. n - 1 + 1 : t[k] = s[1 + k - 1]
  BY <1>1, SubSeqProperties
<1> HIDE DEF t
<1>3. Len(t) = n
  BY <1>1, <1>2
<1>4. ASSUME NEW k \in 1 .. n
      PROVE  t[k] = s[k]
  <2>1. n - 1 + 1 = n /\ 1 + k - 1 = k
    BY <1>1
  <2>2. QED
    BY <1>2, <2>1
<1>5. /\ Append(t, e) \in Seq(S) /\ Len(Append(t, e)) = Len(t) + 1
      /\ \A k \in 1 .. Len(t) : Append(t, e)[k] = t[k]
      /\ Append(t, e)[Len(t) + 1] = e
  BY <1>2, AppendProperties
<1>6. QED
  BY <1>3, <1>4, <1>5 DEF t

\* An edit cuts off what lies ahead of the document, and adds to what is left.
LEMMA EditCuts ==
  ASSUME NEW u \in Seq(Snaps), NEW r \in Seq(Snaps), NEW s \in Snaps, NEW c \in Documents
  PROVE  /\ Line(Append(u, s), c, <<>>) = Append(SubSeq(Line(u, Content(s), r), 1, Len(u) + 1), c)
         /\ LineMarks(Append(u, s), <<>>) = Append(SubSeq(LineMarks(u, r), 1, Len(u)), s.mark)
<1> DEFINE v == Append(u, s)
           d == Content(s)
           m == Len(u)
           e == <<>>
<1>1. e \in Seq(Snaps) /\ Len(e) = 0
  BY EmptySeq
<1>2. /\ m \in Nat /\ Len(r) \in Nat /\ v \in Seq(Snaps) /\ Len(v) = m + 1
      /\ \A k \in 1 .. m : v[k] = u[k]
      /\ v[m + 1] = s
  BY LenProperties, AppendProperties
<1>3. d \in Documents /\ s.mark \in Marks
  BY DEF Content, Snaps, Documents
<1> HIDE DEF v, d, e
<1>4. Line(v, c, e) = Append(SubSeq(Line(u, d, r), 1, m + 1), c)
  <2> DEFINE a == Line(v, c, e)
             b == Line(u, d, r)
             g == Append(SubSeq(b, 1, m + 1), c)
  <2>0. v \in Seq(Snaps) /\ e \in Seq(Snaps)
    BY <1>1, <1>2
  <2>1. a \in Seq(Documents) /\ Len(a) = Len(v) + 1 + Len(e)
    BY <2>0, LineIs
  <2>a. /\ \A k \in 1 .. Len(v) : Line(v, c, e)[k] = Content(v[k])
        /\ Line(v, c, e)[Len(v) + 1] = c
    BY <2>0, LinePast
  <2>2. a[Len(v) + 1] = c
    BY <2>a
  <2>3. \A k \in 1 .. Len(v) : a[k] = Content(v[k])
    BY <2>a
  <2>4. b \in Seq(Documents) /\ Len(b) = m + 1 + Len(r) /\ b[m + 1] = d
    BY <1>3, LineIs
  <2>5. \A k \in 1 .. m : b[k] = Content(u[k])
    BY <1>3, LineIs
  <2> HIDE DEF a, b
  <2>6. m + 1 \in 0 .. Len(b)
    BY <1>2, <2>4
  <2>7. /\ g \in Seq(Documents) /\ Len(g) = m + 1 + 1
        /\ \A k \in 1 .. m + 1 : g[k] = b[k]
        /\ g[m + 1 + 1] = c
    <3> DEFINE n == m + 1
    <3>1. n \in 0 .. Len(b)
      BY <2>6
    <3> HIDE DEF m, n
    <3>2. /\ Append(SubSeq(b, 1, n), c) \in Seq(Documents)
          /\ Len(Append(SubSeq(b, 1, n), c)) = n + 1
          /\ \A k \in 1 .. n : Append(SubSeq(b, 1, n), c)[k] = b[k]
          /\ Append(SubSeq(b, 1, n), c)[n + 1] = c
      BY <2>4, <3>1, Cut
    <3>3. QED
      BY <3>2 DEF n
  <2> HIDE DEF g
  <2>8. Len(a) = m + 1 + 1
    BY <1>1, <1>2, <2>1
  <2>9. ASSUME NEW k \in 1 .. m + 1 + 1
        PROVE  a[k] = g[k]
    <3>1. CASE k <= m
      <4>1. k \in 1 .. m /\ k \in 1 .. m + 1
        BY <1>2, <3>1
      <4>2. QED
        BY <1>2, <2>3, <2>5, <2>7, <4>1
    <3>2. CASE k = m + 1
      <4>1. k \in 1 .. m + 1
        BY <1>2, <3>2
      <4>2. a[k] = Content(s) /\ g[k] = d
        BY <1>2, <2>3, <2>4, <2>7, <3>2, <4>1
      <4>3. QED
        BY <4>2 DEF d
    <3>3. CASE k = m + 1 + 1
      BY <1>2, <2>2, <2>7, <3>3
    <3>4. QED
      BY <1>2, <3>1, <3>2, <3>3
  <2>10. a = g
    BY <2>1, <2>7, <2>8, <2>9, SeqEqual
  <2>11. QED
    BY <2>10 DEF a, b, g
<1>5. LineMarks(v, e) = Append(SubSeq(LineMarks(u, r), 1, m), s.mark)
  <2> DEFINE a == LineMarks(v, e)
             b == LineMarks(u, r)
             g == Append(SubSeq(b, 1, m), s.mark)
  <2>1. a \in Seq(Marks) /\ Len(a) = Len(v) + Len(e)
    BY <1>1, <1>2, LineMarksAre
  <2>2. \A k \in 1 .. Len(v) : a[k] = v[k].mark
    BY <1>1, <1>2, LineMarksAre
  <2>3. b \in Seq(Marks) /\ Len(b) = m + Len(r) /\ \A k \in 1 .. m : b[k] = u[k].mark
    BY LineMarksAre
  <2> HIDE DEF a, b
  <2>4. m \in 0 .. Len(b)
    BY <1>2, <2>3
  <2>5. /\ g \in Seq(Marks) /\ Len(g) = m + 1
        /\ \A k \in 1 .. m : g[k] = b[k]
        /\ g[m + 1] = s.mark
    BY <1>3, <2>3, <2>4, Cut
  <2> HIDE DEF g
  <2>6. Len(a) = m + 1
    BY <1>1, <1>2, <2>1
  <2>7. ASSUME NEW k \in 1 .. m + 1
        PROVE  a[k] = g[k]
    <3>1. CASE k <= m
      <4>1. k \in 1 .. m /\ k \in 1 .. m + 1
        BY <1>2, <3>1
      <4>2. QED
        BY <1>2, <2>2, <2>3, <2>5, <4>1
    <3>2. CASE k = m + 1
      BY <1>2, <2>2, <2>5, <3>2
    <3>3. QED
      BY <1>2, <3>1, <3>2
  <2>8. a = g
    BY <2>1, <2>5, <2>6, <2>7, SeqEqual
  <2>9. QED
    BY <2>8 DEF a, b, g
<1>6. QED
  BY <1>4, <1>5 DEF v, d, e

-----------------------------------------------------------------------------
(* The refinement *)

Here == Content(Snapshot(NoMark))

\* Every step keeps the stacks stacks of documents.
LEMMA TypeKept ==
  ASSUME DocumentType, [Next]_vars
  PROVE  DocumentType'
<1>0. Minted \subseteq Ids /\ values \in [Minted -> Values]
  BY DEF DocumentType, Minted
<1>1. CASE UNCHANGED vars
  BY <1>1 DEF vars, DocumentType
<1>2. ASSUME NEW text \in Skeletons, NEW table \in Tables, Arrive(text, table)
      PROVE  DocumentType'
  <2> DEFINE fresh == [id \in IdsIn(text) |->
                         IF id \in DOMAIN table THEN table[id] ELSE Empty]
             all == Minted \cup visible'
  <2>1. /\ visible' = IdsIn(text) /\ skeleton' = text /\ undo' = <<>> /\ redo' = <<>>
        /\ values' = [id \in all |-> IF id \in visible' /\ ~Modified(id) THEN fresh[id]
                                     ELSE values[id]]
    BY <1>2 DEF Arrive
  <2>2. all \subseteq Ids
    BY <1>0, <2>1 DEF IdsIn
  <2>3. \A id \in IdsIn(text) : fresh[id] \in Values
    BY SlotAssumption DEF Tables
  <2>4. \A id \in all : (IF id \in visible' /\ ~Modified(id) THEN fresh[id]
                         ELSE values[id]) \in Values
    <3> SUFFICES ASSUME NEW id \in all
                 PROVE  (IF id \in visible' /\ ~Modified(id) THEN fresh[id]
                         ELSE values[id]) \in Values
      OBVIOUS
    <3>1. CASE id \in visible' /\ ~Modified(id)
      BY <2>1, <2>3, <3>1
    <3>2. CASE ~(id \in visible' /\ ~Modified(id))
      <4>1. id \in Minted
        BY <3>2 DEF Modified
      <4>2. QED
        BY <1>0, <3>2, <4>1
    <3>3. QED
      BY <3>1, <3>2
  <2>5. values' \in [all -> Values]
    <3> HIDE DEF fresh, all
    <3>1. QED
      BY <2>1, <2>4
  <2>6. <<>> \in Seq(Snaps)
    BY EmptySeq
  <2> HIDE DEF fresh, all
  <2>7. QED
    BY <2>1, <2>2, <2>5, <2>6 DEF DocumentType
<1>3. ASSUME NEW text \in Skeletons \cup {skeleton}, NEW typed \in Tables, NEW mark \in Marks,
             Edit(text, typed, mark)
      PROVE  DocumentType'
  <2> DEFINE next == [id \in Minted |-> IF id \in DOMAIN typed THEN typed[id] ELSE values[id]]
  <2>1. /\ undo' = Append(undo, Snapshot(mark)) /\ redo' = <<>>
        /\ skeleton' = text /\ values' = next
    BY <1>3 DEF Edit
  <2>2. next \in [Minted -> Values]
    BY <1>0 DEF Tables
  <2>3. Snapshot(mark) \in Snaps
    BY DEF Snapshot, Snaps, DocumentType
  <2> HIDE DEF next
  <2>4. undo' \in Seq(Snaps) /\ redo' \in Seq(Snaps)
    BY <2>1, <2>3, EmptySeq, AppendProperties DEF DocumentType
  <2>5. skeleton' \in Skeletons \cup {<<>>}
    BY <2>1 DEF DocumentType
  <2>6. QED
    BY <1>0, <2>1, <2>2, <2>4, <2>5 DEF DocumentType
<1>4. ASSUME NEW from \in Seq(Snaps), NEW onto \in Seq(Snaps), from # <<>>,
             Restores(Last(from))
      PROVE  /\ Append(onto, Snapshot(Last(from).mark)) \in Seq(Snaps) /\ Front(from) \in Seq(Snaps)
             /\ skeleton' \in Skeletons \cup {<<>>}
             /\ values' \in UNION {[ids -> Values] : ids \in SUBSET Ids}
  <2>1. Last(from) \in Snaps /\ Front(from) \in Seq(Snaps)
    BY <1>4, Top
  <2>2. Snapshot(Last(from).mark) \in Snaps
    BY <2>1 DEF Snapshot, Snaps, DocumentType
  <2>3. QED
    BY <1>4, <2>1, <2>2, AppendProperties DEF Restores, Snaps
<1>5. CASE Undo
  BY <1>4, <1>5 DEF Undo, DocumentType
<1>6. CASE Redo
  BY <1>4, <1>6 DEF Redo, DocumentType
<1>7. QED
  BY <1>1, <1>2, <1>3, <1>5, <1>6 DEF Next

\* The line the refinement maps to is the line of the two stacks.
LEMMA Mapped ==
  /\ Append(Contents(undo), Content(Snapshot(NoMark))) \o Reverse(Contents(redo))
       = Line(undo, Here, redo)
  /\ MarksOf(undo) \o Reverse(MarksOf(redo)) = LineMarks(undo, redo)
BY DEF Line, LineMarks, Here

\* The document is a document, under whatever mark it is left.
LEMMA HereIs ==
  ASSUME DocumentType
  PROVE  /\ Here \in Documents
         /\ \A mark \in Marks : Snapshot(mark) \in Snaps /\ Content(Snapshot(mark)) = Here
                               /\ Snapshot(mark).mark = mark
BY DEF DocumentType, Here, Snapshot, Snaps, Content, Documents

\* A round starts a line, at its only state.
LEMMA ArriveStarts ==
  ASSUME DocumentType', NEW text \in Skeletons, NEW table \in Tables, Arrive(text, table)
  PROVE  History!Round
<1>1. undo' = <<>> /\ redo' = <<>> /\ restored' = NoMark
  BY DEF Arrive
<1>2. Here' \in Documents
  BY DEF DocumentType, Here, Snapshot, Content, Documents
<1> PICK c \in Documents : c = Here'
  BY <1>2
<1>3. Line(<<>>, c, <<>>) = <<c>> /\ LineMarks(<<>>, <<>>) = <<>>
  BY LineStarts
<1>4. Line(undo', c, redo') = <<c>> /\ LineMarks(undo', redo') = <<>>
  BY <1>1, <1>3
<1>5. (Append(Contents(undo), Content(Snapshot(NoMark))) \o Reverse(Contents(redo)))' = <<c>>
  BY <1>4 DEF Line, Here
<1>6. (MarksOf(undo) \o Reverse(MarksOf(redo)))' = <<>>
  BY <1>4 DEF LineMarks
<1>7. (Len(undo) + 1)' = 1
  BY <1>1, EmptySeq
<1>8. QED
  BY <1>1, <1>5, <1>6, <1>7 DEF History!Round

\* An edit goes on from where the document is.
LEMMA EditGoesOn ==
  ASSUME DocumentType, DocumentType',
         NEW text \in Skeletons \cup {skeleton}, NEW typed \in Tables, NEW mark \in Marks,
         Edit(text, typed, mark)
  PROVE  History!Edit
<1> PICK s \in Snaps : s = Snapshot(mark)
  BY HereIs
<1>1. undo' = Append(undo, s) /\ redo' = <<>> /\ restored' = NoMark
  BY DEF Edit
<1>2. Here \in Documents /\ Here' \in Documents /\ Content(s) = Here /\ s.mark = mark
  <2>1. Here' \in Documents
    BY DEF DocumentType, Here, Snapshot, Content, Documents
  <2>2. QED
    BY <2>1, HereIs
<1> PICK c \in Documents : c = Here'
  BY <1>2
<1>3. undo \in Seq(Snaps) /\ redo \in Seq(Snaps)
  BY DEF DocumentType
<1>4. c # Here
  BY DEF Edit, Here, Content, Snapshot
<1>5. /\ Line(Append(undo, s), c, <<>>)
           = Append(SubSeq(Line(undo, Content(s), redo), 1, Len(undo) + 1), c)
      /\ LineMarks(Append(undo, s), <<>>)
           = Append(SubSeq(LineMarks(undo, redo), 1, Len(undo)), s.mark)
  BY <1>3, EditCuts
<1>6. /\ Line(undo', c, redo') = Append(SubSeq(Line(undo, Here, redo), 1, Len(undo) + 1), c)
      /\ LineMarks(undo', redo') = Append(SubSeq(LineMarks(undo, redo), 1, Len(undo)), mark)
  BY <1>1, <1>2, <1>5
<1>7. Line(undo, Here, redo)[Len(undo) + 1] = Here
  BY <1>2, <1>3, LineIs
<1>8. Len(undo') = Len(undo) + 1 /\ (Len(undo) + 1) - 1 = Len(undo)
  <2>1. Len(Append(undo, s)) = Len(undo) + 1 /\ Len(undo) \in Nat
    BY <1>3, AppendProperties, LenProperties
  <2>2. QED
    BY <1>1, <2>1
<1>9. (Append(Contents(undo), Content(Snapshot(NoMark))) \o Reverse(Contents(redo)))'
        = Append(SubSeq(Line(undo, Here, redo), 1, Len(undo) + 1), c)
  BY <1>6 DEF Line, Here
<1>10. (MarksOf(undo) \o Reverse(MarksOf(redo)))'
         = Append(SubSeq(LineMarks(undo, redo), 1, (Len(undo) + 1) - 1), mark)
  BY <1>6, <1>8 DEF LineMarks
<1>11. (Len(undo) + 1)' = Len(undo) + 1 + 1
  BY <1>8
<1>12. /\ c # (Append(Contents(undo), Content(Snapshot(NoMark))) \o Reverse(Contents(redo)))
                [Len(undo) + 1]
       /\ (Append(Contents(undo), Content(Snapshot(NoMark))) \o Reverse(Contents(redo)))'
            = Append(SubSeq(Append(Contents(undo), Content(Snapshot(NoMark)))
                              \o Reverse(Contents(redo)), 1, Len(undo) + 1), c)
       /\ (MarksOf(undo) \o Reverse(MarksOf(redo)))'
            = Append(SubSeq(MarksOf(undo) \o Reverse(MarksOf(redo)), 1, (Len(undo) + 1) - 1), mark)
  BY <1>4, <1>7, <1>9, <1>10, Mapped
<1>13. QED
  BY <1>1, <1>11, <1>12, Zenon DEF History!Edit

\* A step back crosses the edit before, and hands out its mark.
LEMMA UndoWalksBack ==
  ASSUME DocumentType, Undo
  PROVE  History!Undo
<1> PICK top : top = Last(undo)
  OBVIOUS
<1>1. undo \in Seq(Snaps) /\ redo \in Seq(Snaps) /\ undo # <<>>
  BY DEF DocumentType, Undo
<1>2. /\ Len(undo) \in Nat \ {0} /\ top = undo[Len(undo)] /\ top \in Snaps
      /\ Front(undo) \in Seq(Snaps) /\ Len(Front(undo)) = Len(undo) - 1
  BY <1>1, Top
<1>3. top.mark \in Marks
  BY <1>2 DEF Snaps
<1> PICK s \in Snaps : s = Snapshot(top.mark)
  BY <1>3, HereIs
<1>4. Content(s) = Here /\ s.mark = top.mark
  BY <1>3, HereIs
<1>5. undo' = Front(undo) /\ redo' = Append(redo, s) /\ restored' = top.mark
  BY DEF Undo, Restores
<1>6. Here' = Content(top)
  BY DEF Undo, Restores, Here, Content, Snapshot
<1>7. /\ Line(Front(undo), Content(Last(undo)), Append(redo, s)) = Line(undo, Content(s), redo)
      /\ LineMarks(Front(undo), Append(redo, s)) = LineMarks(undo, redo)
  BY <1>1, <1>4, Crosses
<1>8. /\ Line(undo', Here', redo') = Line(undo, Here, redo)
      /\ LineMarks(undo', redo') = LineMarks(undo, redo)
  BY <1>4, <1>5, <1>6, <1>7
<1>9. LineMarks(undo, redo)[Len(undo)] = top.mark
  <2>1. Len(undo) \in 1 .. Len(undo)
    BY <1>2
  <2>2. \A k \in 1 .. Len(undo) : LineMarks(undo, redo)[k] = undo[k].mark
    BY <1>1, LineMarksAre
  <2>3. QED
    BY <1>2, <2>1, <2>2
<1>10. /\ (Append(Contents(undo), Content(Snapshot(NoMark))) \o Reverse(Contents(redo)))'
            = Line(undo', Here', redo')
       /\ (MarksOf(undo) \o Reverse(MarksOf(redo)))' = LineMarks(undo', redo')
  BY DEF Line, LineMarks, Here
<1>11. /\ Len(undo) + 1 > 1 /\ (Len(undo) + 1) - 1 = Len(undo)
       /\ (Len(undo) + 1)' = (Len(undo) + 1) - 1
  BY <1>2, <1>5
<1>12. LineMarks(undo, redo)[(Len(undo) + 1) - 1] = top.mark
  BY <1>9, <1>11
<1>13. QED
  BY <1>2, <1>5, <1>8, <1>10, <1>11, <1>12, Mapped DEF History!Undo

\* A step forward is a step back the other way round.
LEMMA RedoWalksOn ==
  ASSUME DocumentType, Redo
  PROVE  History!Redo
<1> PICK top : top = Last(redo)
  OBVIOUS
<1>1. undo \in Seq(Snaps) /\ redo \in Seq(Snaps) /\ redo # <<>>
  BY DEF DocumentType, Redo
<1>2. /\ Len(redo) \in Nat \ {0} /\ top = redo[Len(redo)] /\ top \in Snaps
      /\ Front(redo) \in Seq(Snaps) /\ Append(Front(redo), top) = redo
  BY <1>1, Top
<1>3. top.mark \in Marks
  BY <1>2 DEF Snaps
<1> PICK s \in Snaps : s = Snapshot(top.mark)
  BY <1>3, HereIs
<1>4. Content(s) = Here /\ s.mark = top.mark
  BY <1>3, HereIs
<1> DEFINE u == Append(undo, s)
<1>5. undo' = u /\ redo' = Front(redo) /\ restored' = top.mark
  BY DEF Redo, Restores
<1>6. Here' = Content(top)
  BY DEF Redo, Restores, Here, Content, Snapshot
<1>7. u \in Seq(Snaps) /\ Len(u) = Len(undo) + 1 /\ u[Len(undo) + 1] = s
      /\ \A k \in 1 .. Len(undo) : u[k] = undo[k]
  BY <1>1, AppendProperties
<1>8. Len(undo) \in Nat
  BY <1>1, LenProperties
<1> HIDE DEF u
<1>9. u # <<>>
  BY <1>7, <1>8, EmptySeq
<1>10. Last(u) = s /\ Front(u) = undo
  <2>1. /\ Last(u) = u[Len(u)] /\ Front(u) \in Seq(Snaps) /\ Len(Front(u)) = Len(u) - 1
        /\ \A k \in 1 .. Len(u) - 1 : Front(u)[k] = u[k]
    <3>1. u \in Seq(Snaps)
      BY <1>7
    <3>2. QED
      BY <1>9, <3>1, Top
  <2>2. Len(u) - 1 = Len(undo)
    BY <1>7, <1>8
  <2>3. Front(u) = undo
    <3>1. \A k \in 1 .. Len(undo) : Front(u)[k] = undo[k]
      BY <1>7, <2>1, <2>2
    <3>2. QED
      BY <1>1, <2>1, <2>2, <3>1, SeqEqual
  <2>4. QED
    BY <1>7, <2>1, <2>3
<1>11. /\ Line(Front(u), Content(Last(u)), Append(Front(redo), top)) = Line(u, Content(top), Front(redo))
       /\ LineMarks(Front(u), Append(Front(redo), top)) = LineMarks(u, Front(redo))
  <2>1. top.mark = Last(u).mark
    BY <1>4, <1>10
  <2>2. QED
    BY <1>2, <1>7, <1>9, <2>1, Crosses
<1>12. /\ Line(undo, Here, redo) = Line(undo', Here', redo')
       /\ LineMarks(undo, redo) = LineMarks(undo', redo')
  BY <1>2, <1>4, <1>5, <1>6, <1>10, <1>11
<1>13. LineMarks(undo, redo)[Len(undo) + 1] = top.mark
  <2>1. 1 \in 1 .. Len(redo) /\ Len(redo) - 1 + 1 = Len(redo)
    BY <1>2
  <2>2. \A k \in 1 .. Len(redo) : LineMarks(undo, redo)[Len(undo) + k] = redo[Len(redo) - k + 1].mark
    BY <1>1, LineMarksAre
  <2>3. LineMarks(undo, redo)[Len(undo) + 1] = redo[Len(redo) - 1 + 1].mark
    BY <2>1, <2>2
  <2>4. QED
    BY <1>2, <2>1, <2>3
<1>14. Len(undo) + 1 < Len(Line(undo, Here, redo))
  <2>1. Here \in Documents
    BY HereIs
  <2>2. Len(Line(undo, Here, redo)) = Len(undo) + 1 + Len(redo)
    BY <1>1, <2>1, LineIs
  <2>3. QED
    BY <1>2, <1>8, <2>2
<1>15. /\ (Append(Contents(undo), Content(Snapshot(NoMark))) \o Reverse(Contents(redo)))'
            = Line(undo', Here', redo')
       /\ (MarksOf(undo) \o Reverse(MarksOf(redo)))' = LineMarks(undo', redo')
  BY DEF Line, LineMarks, Here
<1>16. (Len(undo) + 1)' = Len(undo) + 1 + 1
  BY <1>5, <1>7
<1>17. QED
  BY <1>5, <1>12, <1>13, <1>14, <1>15, <1>16, Mapped DEF History!Redo

\* A preview opens on a line of one state, the empty document.
LEMMA Opens ==
  ASSUME Init
  PROVE  DocumentType /\ History!Init
<1>1. skeleton = <<>> /\ values = <<>> /\ undo = <<>> /\ redo = <<>> /\ restored = NoMark
  BY DEF Init
<1>2. <<>> \in [{} -> Values]
  OBVIOUS
<1>3. DocumentType
  BY <1>1, <1>2, EmptySeq DEF DocumentType
<1> PICK c \in Documents : c = Here
  BY <1>3, HereIs
<1>4. Line(<<>>, c, <<>>) = <<c>> /\ LineMarks(<<>>, <<>>) = <<>>
  BY LineStarts
<1>5. Line(undo, Here, redo) = <<c>> /\ LineMarks(undo, redo) = <<>>
  BY <1>1, <1>4
<1>6. Len(undo) + 1 = 1
  BY <1>1, EmptySeq
<1>7. QED
  BY <1>1, <1>3, <1>5, <1>6, Mapped DEF History!Init

\* The undo and redo stacks of slot_document.dart are one history, for any
\* placeholders, texts and values, and stacks of any depth: a step back and a
\* step forward walk one line of states, each one edit from the next, under
\* the mark of the edit they cross, an edit drops what lay ahead and a round
\* starts over.
THEOREM OneHistory == Spec => IsOneHistory
<1>1. Init => DocumentType /\ History!Init
  BY Opens
<1>2. DocumentType /\ [Next]_vars => DocumentType'
  BY TypeKept
<1>3. DocumentType /\ DocumentType' /\ [Next]_vars => [History!Next]_(History!vars)
  <2> SUFFICES ASSUME DocumentType, DocumentType', [Next]_vars
               PROVE  [History!Next]_(History!vars)
    OBVIOUS
  <2>1. CASE UNCHANGED vars
    BY <2>1 DEF vars, History!vars, Content, Contents, MarksOf, Snapshot, Reverse
  <2>2. ASSUME NEW text \in Skeletons, NEW table \in Tables, Arrive(text, table)
        PROVE  History!Next
    BY <2>2, ArriveStarts DEF History!Next
  <2>3. ASSUME NEW text \in Skeletons \cup {skeleton}, NEW typed \in Tables,
               NEW mark \in Marks, Edit(text, typed, mark)
        PROVE  History!Next
    BY <2>3, EditGoesOn DEF History!Next
  <2>4. CASE Undo
    BY <2>4, UndoWalksBack DEF History!Next
  <2>5. CASE Redo
    BY <2>5, RedoWalksOn DEF History!Next
  <2>6. QED
    BY <2>1, <2>2, <2>3, <2>4, <2>5 DEF Next
<1>4. QED
  BY <1>1, <1>2, <1>3, PTL DEF Spec, IsOneHistory, History!Spec

-----------------------------------------------------------------------------
(* The folds of a document: the library folds a sequence with a recursive  *)
(* function on sets of its indices, whose value on the first k of them is  *)
(* what the loop has after k steps.                                        *)

\* The greatest of some indices.
LEMMA Greatest ==
  ASSUME NEW n \in Nat, NEW s \in SUBSET (1 .. n), s # {}
  PROVE  Max(s) \in s /\ \A i \in s : Max(s) >= i
<1> DEFINE all == 1 .. n
<1>0. IsFiniteSet(all) /\ s \in SUBSET all /\ all \in SUBSET Nat
  BY FS_Interval
<1> HIDE DEF all
<1>1. IsFiniteSet(s) /\ s \in SUBSET Nat
  BY <1>0, FS_Subset
<1> DEFINE Bigger == {m \in Nat : \A i \in s : m >= i}
<1>2. s \subseteq 1 .. n /\ s # {}
  BY DEF Bigger
<1>3. n \in Bigger
  BY <1>2
<1>4. PICK m \in Bigger : \A j \in Bigger : ~(<<j, m>> \in OpToRel(<, Nat))
  <2>1. Bigger # {} /\ Bigger \subseteq Nat
    BY <1>3
  <2> HIDE DEF Bigger
  <2>2. QED
    BY <2>1, NatLessThanWellFounded, WFMin
<1>5. m \in Nat /\ (\A i \in s : m >= i) /\ \A j \in Bigger : ~(j < m)
  BY <1>4 DEF OpToRel
<1>6. m \in s
  <2> SUFFICES ASSUME m \notin s
               PROVE  FALSE
    OBVIOUS
  <2>1. PICK i \in s : i \in 1 .. n
    BY <1>2
  <2>2. m >= 1 /\ \A j \in s : m - 1 >= j
    BY <1>2, <1>5, <2>1
  <2>3. m - 1 \in Bigger /\ m - 1 < m
    BY <1>5, <2>2
  <2>4. QED
    BY <1>5, <2>3
<1>7. QED
  BY <1>5, <1>6 DEF Max

\* A recursive function on sets of indices, each value from that without the
\* greatest: `step' takes an accumulator and an index.
Recurs(f, n, base, step) ==
  f = [s \in SUBSET (1 .. n) |-> IF s = {} THEN base ELSE step[Max(s)][f[s \ {Max(s)}]]]

\* There is one for any number of indices: one for n gives one for n + 1, so no
\* number is the least without.
LEMMA RecursExists ==
  ASSUME NEW A, NEW n \in Nat, NEW base \in A, NEW step,
         \A a \in A, i \in 1 .. n : step[i][a] \in A
  PROVE  \E f \in [SUBSET (1 .. n) -> A] : Recurs(f, n, base, step)
<1> DEFINE Has(k) == k <= n => \E f \in [SUBSET (1 .. k) -> A] : Recurs(f, k, base, step)
           Bad    == {k \in Nat : ~Has(k)}
<1>0. n <= n
  OBVIOUS
<1> SUFFICES ASSUME ~Has(n)
             PROVE  FALSE
  BY <1>0
<1>1. n \in Bad
  OBVIOUS
<1>2. PICK k \in Bad : \A j \in Bad : ~(<<j, k>> \in OpToRel(<, Nat))
  <2> HIDE DEF Has
  <2>1. Bad # {} /\ Bad \subseteq Nat
    BY <1>1
  <2> HIDE DEF Bad
  <2>2. QED
    BY <2>1, NatLessThanWellFounded, WFMin
<1>3. k \in Nat /\ \A j \in Nat : j < k => Has(j)
  <2> HIDE DEF Has
  <2>1. QED
    BY <1>2 DEF OpToRel
<1>4. ~Has(k) /\ k <= n
  OBVIOUS
<1>5. k # 0
  <2> SUFFICES ASSUME k = 0
               PROVE  Has(0)
    BY <1>4
  <2> DEFINE f == [s \in SUBSET (1 .. 0) |-> base]
  <2>1. SUBSET (1 .. 0) = {{}}
    OBVIOUS
  <2>2. Recurs(f, 0, base, step)
    BY <2>1 DEF Recurs
  <2>3. f \in [SUBSET (1 .. 0) -> A]
    OBVIOUS
  <2> HIDE DEF f
  <2>4. QED
    BY <2>2, <2>3
<1>6. k - 1 \in Nat /\ k - 1 < k
  BY <1>3, <1>5
<1>61. k - 1 <= n /\ Has(k - 1)
  <2>1. k - 1 <= n
    BY <1>3, <1>4
  <2> HIDE DEF Has
  <2>2. QED
    BY <1>3, <1>6, <2>1
<1>62. \A s \in SUBSET (1 .. k) :
         s \ {k} \in SUBSET (1 .. (k - 1)) /\ (k \notin s => s \in SUBSET (1 .. (k - 1)))
  BY <1>3
<1>7. PICK f \in [SUBSET (1 .. (k - 1)) -> A] : Recurs(f, k - 1, base, step)
  BY <1>61
<1> DEFINE below == 1 .. (k - 1)
           h == [s \in SUBSET below |->
                   IF s = {} THEN base ELSE step[Max(s)][f[s \ {Max(s)}]]]
           g == [s \in SUBSET (1 .. k) |->
                   IF k \in s THEN step[k][f[s \ {k}]] ELSE f[s]]
<1>71. f = h
  BY <1>7 DEF Recurs
<1>72. \A s \in SUBSET below :
         h[s] = IF s = {} THEN base ELSE step[Max(s)][f[s \ {Max(s)}]]
  OBVIOUS
<1> HIDE DEF h
<1>8. ASSUME NEW s \in SUBSET (1 .. k)
      PROVE  g[s] = IF s = {} THEN base ELSE step[Max(s)][g[s \ {Max(s)}]]
  <2>1. s \ {k} \in SUBSET below /\ (k \notin s => s \in SUBSET below)
    BY <1>62
  <2>2. CASE k \in s
    <3>1. Max(s) \in s /\ \A i \in s : Max(s) >= i
      BY <1>3, <2>2, Greatest
    <3>2. Max(s) = k
      <4> PICK m : m = Max(s)
        OBVIOUS
      <4>1. m \in 1 .. k /\ m >= k
        BY <2>2, <3>1
      <4>2. QED
        BY <1>3, <4>1
    <3>3. g[s \ {k}] = f[s \ {k}]
      OBVIOUS
    <3>4. QED
      BY <2>2, <3>2, <3>3
  <2>3. CASE k \notin s
    <3>1. s \in SUBSET below /\ g[s] = f[s]
      BY <2>1, <2>3
    <3>2. f[s] = IF s = {} THEN base ELSE step[Max(s)][f[s \ {Max(s)}]]
      BY <1>71, <1>72, <3>1
    <3>3. s \ {Max(s)} \in SUBSET (1 .. k) /\ k \notin s \ {Max(s)}
      BY <2>3
    <3>4. g[s \ {Max(s)}] = f[s \ {Max(s)}]
      BY <3>3
    <3> HIDE DEF g
    <3>5. QED
      BY <3>1, <3>2, <3>4
  <2>4. QED
    BY <2>2, <2>3
<1>9. Recurs(g, k, base, step)
  <2>1. g = [s \in SUBSET (1 .. k) |-> g[s]]
    OBVIOUS
  <2> HIDE DEF g
  <2>2. QED
    BY <1>8, <2>1 DEF Recurs
<1>10. g \in [SUBSET (1 .. k) -> A]
  <2>2. k \in 1 .. n
    BY <1>3, <1>4, <1>5
  <2>3. \A s \in SUBSET (1 .. k) : g[s] \in A
    BY <1>62, <2>2
  <2>4. QED
    BY <2>3
<1> HIDE DEF g
<1>11. QED
  BY <1>4, <1>9, <1>10

\* The greatest of the first k + 1 indices.
LEMMA FirstOnes ==
  ASSUME NEW n \in Nat, NEW k \in 0 .. n - 1
  PROVE  /\ 1 .. (k + 1) \in SUBSET (1 .. n) /\ 1 .. (k + 1) # {}
         /\ Max(1 .. (k + 1)) = k + 1
         /\ (1 .. (k + 1)) \ {k + 1} = 1 .. k
<1> DEFINE s == 1 .. (k + 1)
<1>1. s \in SUBSET (1 .. n) /\ s # {} /\ k + 1 \in s /\ \A i \in s : k + 1 >= i
  OBVIOUS
<1>2. s \ {k + 1} = 1 .. k
  OBVIOUS
<1> HIDE DEF s
<1>3. Max(s) \in s /\ \A i \in s : Max(s) >= i
  BY <1>1, Greatest
<1>4. Max(s) = k + 1
  <2> PICK m : m = Max(s)
    OBVIOUS
  <2>1. k + 1 >= m /\ m >= k + 1 /\ m \in 1 .. n
    BY <1>1, <1>3
  <2>2. QED
    BY <2>1
<1>5. QED
  BY <1>1, <1>2, <1>4 DEF s

\* A function whose value on some indices is a step's, on none the base.
Walks(it, n, base, w) ==
  \A s \in SUBSET (1 .. n) : it[s] = IF s = {} THEN base ELSE w[s]

\* What such a function has after k steps: it starts with the base, and each
\* step takes the next index.
LEMMA RecursSteps ==
  ASSUME NEW n \in Nat, NEW base, NEW it, NEW w,
         Walks(it, n, base, w)
  PROVE  /\ it[1 .. 0] = base
         /\ \A k \in 0 .. n - 1 : /\ it[1 .. (k + 1)] = w[1 .. (k + 1)]
                                  /\ Max(1 .. (k + 1)) = k + 1
                                  /\ (1 .. (k + 1)) \ {k + 1} = 1 .. k
<1>2. it[1 .. 0] = base
  <2>1. 1 .. 0 = {} /\ {} \in SUBSET (1 .. n)
    OBVIOUS
  <2>2. QED
    BY <2>1 DEF Walks
<1> SUFFICES ASSUME NEW k \in 0 .. n - 1
             PROVE  /\ it[1 .. (k + 1)] = w[1 .. (k + 1)]
                    /\ Max(1 .. (k + 1)) = k + 1
                    /\ (1 .. (k + 1)) \ {k + 1} = 1 .. k
  BY <1>2
<1>3. 1 .. (k + 1) \in SUBSET (1 .. n) /\ 1 .. (k + 1) # {}
  BY FirstOnes
<1>4. QED
  BY <1>3, FirstOnes DEF Walks

-----------------------------------------------------------------------------
(* The slots of a body *)

\* One occurrence after the other: those of minted identities, in order.
LEMMA SlotsInSteps ==
  ASSUME NEW S, skeleton \in Seq(S)
  PROVE  \E acc : /\ acc[0] = <<>>
                  /\ \A k \in 0 .. Len(skeleton) - 1 :
                       acc[k + 1] = IF skeleton[k + 1] \in Minted
                                    THEN Append(acc[k], skeleton[k + 1]) ELSE acc[k]
                  /\ FillSlots = acc[Len(skeleton)]
<1> DEFINE n    == Len(skeleton)
           Op(a, c) == IF c \in Minted THEN Append(a, c) ELSE a
           it   == CHOOSE f : f = [s \in SUBSET DOMAIN skeleton |->
                                     IF s = {} THEN <<>>
                                     ELSE Op(f[s \ {Max(s)}], skeleton[Max(s)])]
           A    == Seq(S)
           step == [i \in 1 .. n |-> [a \in A |-> Op(a, skeleton[i])]]
           acc  == [k \in 0 .. n |-> it[1 .. k]]
<1>1. FillSlots = it[DOMAIN skeleton]
  BY DEF FillSlots, FoldLeft, MapThenFoldSet
<1>2. n \in Nat /\ DOMAIN skeleton = 1 .. n /\ \A i \in 1 .. n : skeleton[i] \in S
  BY LenProperties, ElementOfSeq
<1>3. <<>> \in A /\ \A a \in A, i \in 1 .. n : step[i][a] \in A
  BY <1>2, AppendProperties
<1>4. PICK f \in [SUBSET (1 .. n) -> A] : Recurs(f, n, <<>>, step)
  <2> HIDE DEF A, step, n
  <2>1. QED
    BY <1>2, <1>3, RecursExists
<1>5. f = [s \in SUBSET (1 .. n) |->
             IF s = {} THEN <<>> ELSE Op(f[s \ {Max(s)}], skeleton[Max(s)])]
  <2>1. ASSUME NEW s \in SUBSET (1 .. n), s # {}
        PROVE  step[Max(s)][f[s \ {Max(s)}]] = Op(f[s \ {Max(s)}], skeleton[Max(s)])
    <3>1. Max(s) \in 1 .. n
      BY <1>2, <2>1, Greatest
    <3>2. f[s \ {Max(s)}] \in A
      BY <1>4
    <3> HIDE DEF A, n
    <3>3. QED
      BY <3>1, <3>2
  <2> HIDE DEF step, Op, n
  <2>2. QED
    BY <1>4, <2>1 DEF Recurs
<1> DEFINE w == [s \in SUBSET (1 .. n) |-> Op(it[s \ {Max(s)}], skeleton[Max(s)])]
<1>6. it = [s \in SUBSET (1 .. n) |->
             IF s = {} THEN <<>> ELSE Op(it[s \ {Max(s)}], skeleton[Max(s)])]
  <2> HIDE DEF Op, n
  <2>1. QED
    BY <1>2, <1>5
<1> DEFINE h == [s \in SUBSET (1 .. n) |->
                   IF s = {} THEN <<>> ELSE Op(it[s \ {Max(s)}], skeleton[Max(s)])]
<1>61. it = h
  BY <1>6
<1> HIDE DEF it, Op, n
<1>7. Walks(it, n, <<>>, w)
  <2>1. \A s \in SUBSET (1 .. n) : h[s] = IF s = {} THEN <<>> ELSE w[s]
    OBVIOUS
  <2> HIDE DEF h, w
  <2>2. QED
    BY <1>61, <2>1 DEF Walks
<1> HIDE DEF h
<1>71. \A s \in SUBSET (1 .. n) : w[s] = Op(it[s \ {Max(s)}], skeleton[Max(s)])
  OBVIOUS
<1> HIDE DEF w
<1>8. /\ it[1 .. 0] = <<>>
      /\ \A k \in 0 .. n - 1 : /\ it[1 .. (k + 1)] = w[1 .. (k + 1)]
                               /\ Max(1 .. (k + 1)) = k + 1
                               /\ (1 .. (k + 1)) \ {k + 1} = 1 .. k
  BY <1>2, <1>7, RecursSteps
<1>9. \A k \in 0 .. n - 1 : it[1 .. (k + 1)] = Op(it[1 .. k], skeleton[k + 1])
  <2> SUFFICES ASSUME NEW k \in 0 .. n - 1
               PROVE  it[1 .. (k + 1)] = Op(it[1 .. k], skeleton[k + 1])
    OBVIOUS
  <2>1. 1 .. (k + 1) \in SUBSET (1 .. n)
    BY <1>2
  <2>2. QED
    BY <1>71, <1>8, <2>1
<1>10. /\ acc[0] = <<>> /\ acc[n] = it[1 .. n]
       /\ \A k \in 0 .. n - 1 : acc[k + 1] = Op(acc[k], skeleton[k + 1])
  BY <1>2, <1>8, <1>9
<1> HIDE DEF acc
<1>11. QED
  BY <1>1, <1>2, <1>10 DEF n, Op

\* The first of some numbers.
LEMMA LeastOne ==
  ASSUME NEW B, B \subseteq Nat, B # {}
  PROVE  \E k \in B : \A j \in Nat : j < k => j \notin B
<1>1. PICK k \in B : \A j \in B : ~(<<j, k>> \in OpToRel(<, Nat))
  BY NatLessThanWellFounded, WFMin
<1>2. QED
  BY <1>1 DEF OpToRel

\* Nothing but one more at the end.
LEMMA OneMore ==
  ASSUME NEW S, NEW s \in Seq(S), NEW x \in S
  PROVE  /\ Append(s, x) \in Seq(S) /\ Len(Append(s, x)) = Len(s) + 1
         /\ \A i \in 1 .. Len(s) : Append(s, x)[i] = s[i]
         /\ Append(s, x)[Len(s) + 1] = x
         /\ Range(Append(s, x)) = Range(s) \cup {x}
<1>1. /\ Append(s, x) \in Seq(S) /\ Len(Append(s, x)) = Len(s) + 1
      /\ \A i \in 1 .. Len(s) : Append(s, x)[i] = s[i]
      /\ Append(s, x)[Len(s) + 1] = x
  BY AppendProperties
<1>2. Len(s) \in Nat /\ DOMAIN s = 1 .. Len(s) /\ DOMAIN Append(s, x) = 1 .. (Len(s) + 1)
  BY <1>1, LenProperties
<1> DEFINE t == Append(s, x)
           n == Len(s)
<1>3. /\ n \in Nat /\ DOMAIN s = 1 .. n /\ DOMAIN t = 1 .. (n + 1)
      /\ \A i \in 1 .. n : t[i] = s[i]
      /\ t[n + 1] = x
  BY <1>1, <1>2
<1> HIDE DEF t, n
<1>4. Range(t) = Range(s) \cup {x}
  BY <1>3 DEF Range
<1>5. QED
  BY <1>1, <1>4 DEF t

\* The slots are what is minted among the characters of the body.
LEMMA SlotsAre ==
  ASSUME NEW S, skeleton \in Seq(S)
  PROVE  FillSlots \in Seq(Minted) /\ Range(FillSlots) = Range(skeleton) \cap Minted
<1> DEFINE n == Len(skeleton)
           Good(a, k) == /\ a \in Seq(Minted)
                         /\ Range(a) = {skeleton[i] : i \in 1 .. k} \cap Minted
<1>1. n \in Nat /\ DOMAIN skeleton = 1 .. n
  BY LenProperties
<1>2. PICK acc : /\ acc[0] = <<>>
                 /\ \A k \in 0 .. n - 1 :
                      acc[k + 1] = IF skeleton[k + 1] \in Minted
                                   THEN Append(acc[k], skeleton[k + 1]) ELSE acc[k]
                 /\ FillSlots = acc[n]
  BY SlotsInSteps
<1> HIDE DEF n
<1> DEFINE Bad == {k \in 0 .. n : ~Good(acc[k], k)}
<1>3. Bad = {}
  <2> SUFFICES ASSUME Bad # {}
               PROVE  FALSE
    OBVIOUS
  <2>1. PICK k \in Bad : \A j \in Nat : j < k => j \notin Bad
    <3>1. Bad \subseteq Nat
      BY <1>1
    <3> HIDE DEF Bad
    <3>2. QED
      BY <3>1, LeastOne
  <2>2. k \in 0 .. n /\ ~Good(acc[k], k)
    OBVIOUS
  <2>3. k # 0
    <3>1. Range(<<>>) = {} /\ {skeleton[i] : i \in 1 .. 0} = {}
      BY DEF Range
    <3>2. Good(<<>>, 0)
      BY <3>1
    <3> HIDE DEF Good
    <3>3. QED
      BY <1>2, <2>2, <3>2
  <2> DEFINE m == k - 1
  <2>4. m \in 0 .. n - 1 /\ m \in Nat /\ m < k /\ k = m + 1 /\ m \in 0 .. n
    BY <1>1, <2>2, <2>3
  <2> HIDE DEF m
  <2>5. Good(acc[m], m)
    <3> HIDE DEF Good
    <3>1. QED
      BY <2>1, <2>4
  <2>6. {skeleton[i] : i \in 1 .. (m + 1)} = {skeleton[i] : i \in 1 .. m} \cup {skeleton[m + 1]}
    BY <2>4
  <2> DEFINE c == skeleton[m + 1]
             a == acc[m]
             b == acc[m + 1]
  <2>7. b = IF c \in Minted THEN Append(a, c) ELSE a
    BY <1>2, <2>4
  <2> HIDE DEF a, b, c
  <2>8. CASE c \in Minted
    <3>1. a \in Seq(Minted) /\ Range(a) = {skeleton[i] : i \in 1 .. m} \cap Minted
      BY <2>5 DEF a
    <3>2. Append(a, c) \in Seq(Minted) /\ Range(Append(a, c)) = Range(a) \cup {c}
      BY <2>8, <3>1, OneMore
    <3>3. Good(b, m + 1)
      BY <2>6, <2>7, <2>8, <3>1, <3>2 DEF c
    <3> HIDE DEF Good
    <3>4. QED
      BY <2>2, <2>4, <3>3 DEF b
  <2>9. CASE c \notin Minted
    <3>1. a \in Seq(Minted) /\ Range(a) = {skeleton[i] : i \in 1 .. m} \cap Minted
      BY <2>5 DEF a
    <3>2. Good(b, m + 1)
      BY <2>6, <2>7, <2>9, <3>1 DEF c
    <3> HIDE DEF Good
    <3>3. QED
      BY <2>2, <2>4, <3>2 DEF b
  <2>10. QED
    BY <2>8, <2>9
<1>4. n \in 0 .. n
  BY <1>1
<1>5. Good(FillSlots, n)
  <2> HIDE DEF Good
  <2>1. QED
    BY <1>2, <1>3, <1>4
<1>6. {skeleton[i] : i \in 1 .. n} = Range(skeleton)
  BY <1>1 DEF Range
<1>7. QED
  BY <1>5, <1>6

\* The identities of some slots, each at its first.
Firsts(slots) ==
  FoldLeft(LAMBDA ids, id : IF Contains(ids, id) THEN ids ELSE Append(ids, id), <<>>, slots)

\* One slot after the other: those whose identity has not come yet.
LEMMA FirstsInSteps ==
  ASSUME NEW S, NEW slots \in Seq(S)
  PROVE  \E acc : /\ acc[0] = <<>>
                  /\ \A k \in 0 .. Len(slots) - 1 :
                       acc[k + 1] = IF Contains(acc[k], slots[k + 1]) THEN acc[k]
                                    ELSE Append(acc[k], slots[k + 1])
                  /\ Firsts(slots) = acc[Len(slots)]
<1> DEFINE n    == Len(slots)
           Op(a, c) == IF Contains(a, c) THEN a ELSE Append(a, c)
           it   == CHOOSE f : f = [s \in SUBSET DOMAIN slots |->
                                     IF s = {} THEN <<>>
                                     ELSE Op(f[s \ {Max(s)}], slots[Max(s)])]
           A    == Seq(S)
           step == [i \in 1 .. n |-> [a \in A |-> Op(a, slots[i])]]
           acc  == [k \in 0 .. n |-> it[1 .. k]]
<1>1. Firsts(slots) = it[DOMAIN slots]
  BY DEF Firsts, FoldLeft, MapThenFoldSet
<1>2. n \in Nat /\ DOMAIN slots = 1 .. n /\ \A i \in 1 .. n : slots[i] \in S
  BY LenProperties, ElementOfSeq
<1>3. <<>> \in A /\ \A a \in A, i \in 1 .. n : step[i][a] \in A
  BY <1>2, AppendProperties
<1>4. PICK f \in [SUBSET (1 .. n) -> A] : Recurs(f, n, <<>>, step)
  <2> HIDE DEF A, step, n
  <2>1. QED
    BY <1>2, <1>3, RecursExists
<1>5. f = [s \in SUBSET (1 .. n) |->
             IF s = {} THEN <<>> ELSE Op(f[s \ {Max(s)}], slots[Max(s)])]
  <2>1. ASSUME NEW s \in SUBSET (1 .. n), s # {}
        PROVE  step[Max(s)][f[s \ {Max(s)}]] = Op(f[s \ {Max(s)}], slots[Max(s)])
    <3>1. Max(s) \in 1 .. n
      BY <1>2, <2>1, Greatest
    <3>2. f[s \ {Max(s)}] \in A
      BY <1>4
    <3> HIDE DEF A, n
    <3>3. QED
      BY <3>1, <3>2
  <2> HIDE DEF step, Op, n
  <2>2. QED
    BY <1>4, <2>1 DEF Recurs
<1> DEFINE w == [s \in SUBSET (1 .. n) |-> Op(it[s \ {Max(s)}], slots[Max(s)])]
           h == [s \in SUBSET (1 .. n) |->
                   IF s = {} THEN <<>> ELSE Op(it[s \ {Max(s)}], slots[Max(s)])]
<1>6. it = h
  <2> HIDE DEF Op, n
  <2>1. QED
    BY <1>2, <1>5
<1> HIDE DEF it, Op, n
<1>7. Walks(it, n, <<>>, w)
  <2>1. \A s \in SUBSET (1 .. n) : h[s] = IF s = {} THEN <<>> ELSE w[s]
    OBVIOUS
  <2> HIDE DEF h, w
  <2>2. QED
    BY <1>6, <2>1 DEF Walks
<1> HIDE DEF h
<1>8. \A s \in SUBSET (1 .. n) : w[s] = Op(it[s \ {Max(s)}], slots[Max(s)])
  OBVIOUS
<1> HIDE DEF w
<1>9. /\ it[1 .. 0] = <<>>
      /\ \A k \in 0 .. n - 1 : /\ it[1 .. (k + 1)] = w[1 .. (k + 1)]
                               /\ Max(1 .. (k + 1)) = k + 1
                               /\ (1 .. (k + 1)) \ {k + 1} = 1 .. k
  BY <1>2, <1>7, RecursSteps
<1>10. \A k \in 0 .. n - 1 : it[1 .. (k + 1)] = Op(it[1 .. k], slots[k + 1])
  <2> SUFFICES ASSUME NEW k \in 0 .. n - 1
               PROVE  it[1 .. (k + 1)] = Op(it[1 .. k], slots[k + 1])
    OBVIOUS
  <2>1. 1 .. (k + 1) \in SUBSET (1 .. n)
    BY <1>2
  <2>2. QED
    BY <1>8, <1>9, <2>1
<1>11. /\ acc[0] = <<>> /\ acc[n] = it[1 .. n]
       /\ \A k \in 0 .. n - 1 : acc[k + 1] = Op(acc[k], slots[k + 1])
  BY <1>2, <1>9, <1>10
<1> HIDE DEF acc
<1>12. QED
  BY <1>1, <1>2, <1>11 DEF n, Op

\* They are the identities of all the slots, none twice.
LEMMA FirstsAre ==
  ASSUME NEW S, NEW slots \in Seq(S)
  PROVE  /\ Firsts(slots) \in Seq(S)
         /\ Range(Firsts(slots)) = Range(slots)
         /\ \A i, j \in 1 .. Len(Firsts(slots)) : Firsts(slots)[i] = Firsts(slots)[j] => i = j
<1> DEFINE n == Len(slots)
           Good(a, k) == /\ a \in Seq(S)
                         /\ Range(a) = {slots[i] : i \in 1 .. k}
                         /\ \A i, j \in 1 .. Len(a) : a[i] = a[j] => i = j
<1>1. n \in Nat /\ DOMAIN slots = 1 .. n /\ \A i \in 1 .. n : slots[i] \in S
  BY LenProperties, ElementOfSeq
<1>2. PICK acc : /\ acc[0] = <<>>
                 /\ \A k \in 0 .. n - 1 :
                      acc[k + 1] = IF Contains(acc[k], slots[k + 1]) THEN acc[k]
                                   ELSE Append(acc[k], slots[k + 1])
                 /\ Firsts(slots) = acc[n]
  BY FirstsInSteps
<1> HIDE DEF n
<1> DEFINE Bad == {k \in 0 .. n : ~Good(acc[k], k)}
<1>3. Bad = {}
  <2> SUFFICES ASSUME Bad # {}
               PROVE  FALSE
    OBVIOUS
  <2>1. PICK k \in Bad : \A j \in Nat : j < k => j \notin Bad
    <3>1. Bad \subseteq Nat
      BY <1>1
    <3> HIDE DEF Bad
    <3>2. QED
      BY <3>1, LeastOne
  <2>2. k \in 0 .. n /\ ~Good(acc[k], k)
    OBVIOUS
  <2>3. k # 0
    <3>1. Range(<<>>) = {} /\ {slots[i] : i \in 1 .. 0} = {} /\ <<>> \in Seq(S) /\ Len(<<>>) = 0
      BY EmptySeq DEF Range
    <3>2. Good(<<>>, 0)
      BY <3>1
    <3> HIDE DEF Good
    <3>3. QED
      BY <1>2, <2>2, <3>2
  <2> DEFINE m == k - 1
  <2>4. m \in 0 .. n - 1 /\ m \in Nat /\ m < k /\ k = m + 1 /\ m \in 0 .. n /\ m + 1 \in 1 .. n
    BY <1>1, <2>2, <2>3
  <2> HIDE DEF m
  <2>5. Good(acc[m], m)
    <3> HIDE DEF Good
    <3>1. QED
      BY <2>1, <2>4
  <2>6. {slots[i] : i \in 1 .. (m + 1)} = {slots[i] : i \in 1 .. m} \cup {slots[m + 1]}
    BY <2>4
  <2> DEFINE c == slots[m + 1]
             a == acc[m]
             b == acc[m + 1]
  <2>7. b = IF Contains(a, c) THEN a ELSE Append(a, c)
    BY <1>2, <2>4
  <2>71. c \in S
    BY <1>1, <2>4
  <2> HIDE DEF a, b, c
  <2>72. /\ a \in Seq(S) /\ Range(a) = {slots[i] : i \in 1 .. m}
         /\ \A i, j \in 1 .. Len(a) : a[i] = a[j] => i = j
    BY <2>5 DEF a
  <2>73. Contains(a, c) <=> c \in Range(a)
    BY <2>72, LenProperties DEF Contains, Range
  <2>8. CASE ~Contains(a, c)
    <3>1. /\ Append(a, c) \in Seq(S) /\ Len(Append(a, c)) = Len(a) + 1
          /\ \A i \in 1 .. Len(a) : Append(a, c)[i] = a[i]
          /\ Append(a, c)[Len(a) + 1] = c
          /\ Range(Append(a, c)) = Range(a) \cup {c}
      BY <2>71, <2>72, OneMore
    <3>2. Len(a) \in Nat /\ \A i \in 1 .. Len(a) : a[i] # c
      BY <2>72, <2>8, LenProperties DEF Contains
    <3>3. \A i, j \in 1 .. (Len(a) + 1) : Append(a, c)[i] = Append(a, c)[j] => i = j
      <4>1. \A i \in 1 .. (Len(a) + 1) : i \in 1 .. Len(a) \/ i = Len(a) + 1
        BY <3>2
      <4>2. QED
        BY <2>72, <3>1, <3>2, <4>1
    <3>4. Good(b, m + 1)
      BY <2>6, <2>7, <2>8, <2>72, <3>1, <3>3 DEF c
    <3> HIDE DEF Good
    <3>5. QED
      BY <2>2, <2>4, <3>4 DEF b
  <2>9. CASE Contains(a, c)
    <3>1. Good(b, m + 1)
      BY <2>6, <2>7, <2>9, <2>72, <2>73 DEF c
    <3> HIDE DEF Good
    <3>2. QED
      BY <2>2, <2>4, <3>1 DEF b
  <2>10. QED
    BY <2>8, <2>9
<1>4. n \in 0 .. n
  BY <1>1
<1>5. Good(Firsts(slots), n)
  <2> HIDE DEF Good
  <2>1. QED
    BY <1>2, <1>3, <1>4
<1>6. {slots[i] : i \in 1 .. n} = Range(slots)
  BY <1>1 DEF Range
<1>7. QED
  BY <1>5, <1>6

-----------------------------------------------------------------------------
(* The rows of a confirm *)

\* A row for every identity in the body, and for none twice.
LEMMA RowsAre ==
  ASSUME NEW S, skeleton \in Seq(S)
  PROVE  LET rows == ConfirmRows IN
         /\ \A k \in DOMAIN rows : /\ rows[k].number \in Range(skeleton) \cap Minted
                                   /\ rows[k].value = values[rows[k].number]
         /\ \A c \in Range(skeleton) \cap Minted : \E k \in DOMAIN rows : rows[k].number = c
         /\ \A k, l \in DOMAIN rows : rows[k].number = rows[l].number => k = l
<1> DEFINE row(id) == [number |-> id, prefill |-> prefill[id], value |-> values[id]]
           seen == Firsts(FillSlots)
           rows == ConfirmRows
<1>1. rows = [k \in DOMAIN seen |-> row(seen[k])]
  BY DEF ConfirmRows, Firsts
<1>2. FillSlots \in Seq(Minted) /\ Range(FillSlots) = Range(skeleton) \cap Minted
  BY SlotsAre
<1>3. /\ seen \in Seq(Minted) /\ Range(seen) = Range(skeleton) \cap Minted
      /\ \A i, j \in 1 .. Len(seen) : seen[i] = seen[j] => i = j
  <2> DEFINE slots == FillSlots
  <2>1. slots \in Seq(Minted)
    BY <1>2
  <2> HIDE DEF slots
  <2>2. /\ Firsts(slots) \in Seq(Minted)
        /\ Range(Firsts(slots)) = Range(slots)
        /\ \A i, j \in 1 .. Len(Firsts(slots)) : Firsts(slots)[i] = Firsts(slots)[j] => i = j
    BY <2>1, FirstsAre
  <2>3. QED
    BY <1>2, <2>2 DEF slots
<1>4. DOMAIN seen = 1 .. Len(seen)
  BY <1>3, LenProperties
<1> HIDE DEF seen, rows
<1>5. /\ DOMAIN rows = DOMAIN seen
      /\ \A k \in DOMAIN seen : rows[k].number = seen[k] /\ rows[k].value = values[seen[k]]
  BY <1>1
<1>6. \A k \in DOMAIN seen : seen[k] \in Range(skeleton) \cap Minted
  BY <1>3 DEF Range
<1>7. \A c \in Range(skeleton) \cap Minted : \E k \in DOMAIN seen : seen[k] = c
  BY <1>3 DEF Range
<1>8. QED
  BY <1>3, <1>4, <1>5, <1>6, <1>7 DEF rows

\* Filling a body from its rows puts each value where the substitution does.
LEMMA RowsFill ==
  ASSUME DocumentType
  PROVE  RowsFillTheText
<1> DEFINE S == Range(skeleton)
           rows == ConfirmRows
           rowOf(id) == {k \in DOMAIN rows : rows[k].number = id}
           filled == [i \in DOMAIN skeleton |->
                        IF rowOf(skeleton[i]) = {} THEN <<skeleton[i]>>
                        ELSE Landed(rows[CHOOSE k \in rowOf(skeleton[i]) : TRUE].value)]
           put == [i \in DOMAIN skeleton |->
                     IF skeleton[i] \in Minted THEN Landed(values[skeleton[i]])
                     ELSE <<skeleton[i]>>]
<1>1. skeleton \in Seq(S) /\ \A i \in DOMAIN skeleton : skeleton[i] \in Range(skeleton)
  <2>1. skeleton \in Seq(UNION {Range(text) : text \in Skeletons})
    <3>1. CASE skeleton = <<>>
      BY <3>1
    <3>2. CASE skeleton \in Skeletons
      BY <3>2, SlotAssumption DEF SlotAssumption
    <3>3. QED
      BY <3>1, <3>2 DEF DocumentType
  <2>2. \A i \in DOMAIN skeleton : skeleton[i] \in Range(skeleton)
    BY DEF Range
  <2>3. Len(skeleton) \in Nat /\ DOMAIN skeleton = 1 .. Len(skeleton)
    BY <2>1, LenProperties
  <2>4. QED
    BY <2>1, <2>2, <2>3
<1>2. Minted \subseteq Ids
  BY DEF DocumentType, Minted
<1>3. /\ \A k \in DOMAIN rows : /\ rows[k].number \in Range(skeleton) \cap Minted
                                /\ rows[k].value = values[rows[k].number]
      /\ \A c \in Range(skeleton) \cap Minted : \E k \in DOMAIN rows : rows[k].number = c
      /\ \A k, l \in DOMAIN rows : rows[k].number = rows[l].number => k = l
  BY <1>1, RowsAre
<1> HIDE DEF rows
<1>4. ASSUME NEW i \in DOMAIN skeleton
      PROVE  filled[i] = put[i]
  <2>1. CASE skeleton[i] \in Minted
    <3>1. rowOf(skeleton[i]) # {}
      BY <1>1, <1>3, <2>1
    <3> DEFINE k == CHOOSE k \in rowOf(skeleton[i]) : TRUE
    <3>2. k \in rowOf(skeleton[i])
      BY <3>1
    <3>3. rows[k].value = values[skeleton[i]]
      <4> HIDE DEF k
      <4>1. QED
        BY <1>3, <3>2
    <3>4. QED
      BY <2>1, <3>1, <3>3
  <2>2. CASE skeleton[i] \notin Minted
    <3>1. rowOf(skeleton[i]) = {}
      BY <1>3, <2>2
    <3>2. QED
      BY <2>2, <3>1
  <2>3. QED
    BY <2>1, <2>2
<1>5. filled = put
  BY <1>4
<1>6. FlattenSeq(filled) = Substituted
  <2> HIDE DEF filled
  <2>1. QED
    BY <1>5 DEF Substituted
<1>7. {rows[k].number : k \in DOMAIN rows} \subseteq IdsIn(skeleton)
  BY <1>2, <1>3 DEF IdsIn
<1>8. QED
  BY <1>3, <1>6, <1>7 DEF RowsFillTheText, rows

\* What a confirm hands over for the record is what it inserts, for any
\* placeholders, texts and values: the text filled from confirmRows alone is
\* the text confirm substitutes, and every row has a place in it.
THEOREM RowsAlwaysFill == Spec => []RowsFillTheText
<1>1. Init => DocumentType
  BY Opens
<1>2. DocumentType /\ [Next]_vars => DocumentType'
  BY TypeKept
<1>3. DocumentType => RowsFillTheText
  BY RowsFill
<1>4. QED
  BY <1>1, <1>2, <1>3, PTL DEF Spec

=============================================================================
