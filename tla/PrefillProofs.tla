---------------------------- MODULE PrefillProofs ----------------------------
(***************************************************************************)
(* Theorems of Prefill, for a response of any length, cut anywhere: the    *)
(* engine's walk, the grammar and the shell's scanner find the same forms  *)
(* in every text (ScannersAgree), the rows handed over are those of the    *)
(* slots the shell was shown (NothingLost), and no character read as body  *)
(* text becomes part of a placeholder (NoFlash), the last two as long as   *)
(* no delta has ended inside an inline value.                              *)
(*                                                                         *)
(* A fold over a text is first unrolled: there is a sequence of its        *)
(* accumulators, one for each character.  Then two scanners are compared   *)
(* by what their accumulators have in common after k characters, and the   *)
(* walk over a joined text by how far it is one over each part.            *)
(***************************************************************************)
EXTENDS Prefill, FiniteSetTheorems, SequenceTheorems, WellFoundedInduction, TLAPS

-----------------------------------------------------------------------------
(* Folds, step by step *)

\* The greatest of some indices.
LEMMA Greatest ==
  ASSUME NEW n \in Nat, NEW s \in SUBSET (1 .. n), s # {}
  PROVE  Max(s) \in s /\ \A i \in s : Max(s) >= i
<1> DEFINE all == 1 .. n
<1>0. IsFiniteSet(all) /\ s \in SUBSET all /\ all \in SUBSET Nat
  BY FS_Interval
<1> HIDE DEF all
<1>1. IsFiniteSet(s) /\ s \in SUBSET Nat
  BY <1>0, FS_Subset
<1> DEFINE Bigger == {m \in Nat : \A i \in s : m >= i}
<1>2. s \subseteq 1 .. n /\ s # {}
  BY DEF Bigger
<1>3. n \in Bigger
  BY <1>2
<1>4. PICK m \in Bigger : \A j \in Bigger : ~(<<j, m>> \in OpToRel(<, Nat))
  <2>1. Bigger # {} /\ Bigger \subseteq Nat
    BY <1>3
  <2> HIDE DEF Bigger
  <2>2. QED
    BY <2>1, NatLessThanWellFounded, WFMin
<1>5. m \in Nat /\ (\A i \in s : m >= i) /\ \A j \in Bigger : ~(j < m)
  BY <1>4 DEF OpToRel
<1>6. m \in s
  <2> SUFFICES ASSUME m \notin s
               PROVE  FALSE
    OBVIOUS
  <2>1. PICK i \in s : i \in 1 .. n
    BY <1>2
  <2>2. m >= 1 /\ \A j \in s : m - 1 >= j
    BY <1>2, <1>5, <2>1
  <2>3. m - 1 \in Bigger /\ m - 1 < m
    BY <1>5, <2>2
  <2>4. QED
    BY <1>5, <2>3
<1>7. QED
  BY <1>5, <1>6 DEF Max

\* A recursive function on sets of indices, each value from that without the
\* greatest: `step' takes an accumulator and an index.
Recurs(f, n, base, step) ==
  f = [s \in SUBSET (1 .. n) |-> IF s = {} THEN base ELSE step[Max(s)][f[s \ {Max(s)}]]]

\* There is one for any number of indices: one for n gives one for n + 1, so no
\* number is the least without.
LEMMA RecursExists ==
  ASSUME NEW A, NEW n \in Nat, NEW base \in A, NEW step,
         \A a \in A, i \in 1 .. n : step[i][a] \in A
  PROVE  \E f \in [SUBSET (1 .. n) -> A] : Recurs(f, n, base, step)
<1> DEFINE Found(k) == k <= n => \E f \in [SUBSET (1 .. k) -> A] : Recurs(f, k, base, step)
           Bad    == {k \in Nat : ~Found(k)}
<1>0. n <= n
  OBVIOUS
<1> SUFFICES ASSUME ~Found(n)
             PROVE  FALSE
  BY <1>0
<1>1. n \in Bad
  OBVIOUS
<1>2. PICK k \in Bad : \A j \in Bad : ~(<<j, k>> \in OpToRel(<, Nat))
  <2> HIDE DEF Found
  <2>1. Bad # {} /\ Bad \subseteq Nat
    BY <1>1
  <2> HIDE DEF Bad
  <2>2. QED
    BY <2>1, NatLessThanWellFounded, WFMin
<1>3. k \in Nat /\ \A j \in Nat : j < k => Found(j)
  <2> HIDE DEF Found
  <2>1. QED
    BY <1>2 DEF OpToRel
<1>4. ~Found(k) /\ k <= n
  OBVIOUS
<1>5. k # 0
  <2> SUFFICES ASSUME k = 0
               PROVE  Found(0)
    BY <1>4
  <2> DEFINE f == [s \in SUBSET (1 .. 0) |-> base]
  <2>1. SUBSET (1 .. 0) = {{}}
    OBVIOUS
  <2>2. Recurs(f, 0, base, step)
    BY <2>1 DEF Recurs
  <2>3. f \in [SUBSET (1 .. 0) -> A]
    OBVIOUS
  <2> HIDE DEF f
  <2>4. QED
    BY <2>2, <2>3
<1>6. k - 1 \in Nat /\ k - 1 < k
  BY <1>3, <1>5
<1>61. k - 1 <= n /\ Found(k - 1)
  <2>1. k - 1 <= n
    BY <1>3, <1>4
  <2> HIDE DEF Found
  <2>2. QED
    BY <1>3, <1>6, <2>1
<1>62. \A s \in SUBSET (1 .. k) :
         s \ {k} \in SUBSET (1 .. (k - 1)) /\ (k \notin s => s \in SUBSET (1 .. (k - 1)))
  BY <1>3
<1>7. PICK f \in [SUBSET (1 .. (k - 1)) -> A] : Recurs(f, k - 1, base, step)
  BY <1>61
<1> DEFINE below == 1 .. (k - 1)
           h == [s \in SUBSET below |->
                   IF s = {} THEN base ELSE step[Max(s)][f[s \ {Max(s)}]]]
           g == [s \in SUBSET (1 .. k) |->
                   IF k \in s THEN step[k][f[s \ {k}]] ELSE f[s]]
<1>71. f = h
  BY <1>7 DEF Recurs
<1>72. \A s \in SUBSET below :
         h[s] = IF s = {} THEN base ELSE step[Max(s)][f[s \ {Max(s)}]]
  OBVIOUS
<1> HIDE DEF h
<1>8. ASSUME NEW s \in SUBSET (1 .. k)
      PROVE  g[s] = IF s = {} THEN base ELSE step[Max(s)][g[s \ {Max(s)}]]
  <2>1. s \ {k} \in SUBSET below /\ (k \notin s => s \in SUBSET below)
    BY <1>62
  <2>2. CASE k \in s
    <3>1. Max(s) \in s /\ \A i \in s : Max(s) >= i
      BY <1>3, <2>2, Greatest
    <3>2. Max(s) = k
      <4> PICK m : m = Max(s)
        OBVIOUS
      <4>1. m \in 1 .. k /\ m >= k
        BY <2>2, <3>1
      <4>2. QED
        BY <1>3, <4>1
    <3>3. g[s \ {k}] = f[s \ {k}]
      OBVIOUS
    <3>4. QED
      BY <2>2, <3>2, <3>3
  <2>3. CASE k \notin s
    <3>1. s \in SUBSET below /\ g[s] = f[s]
      BY <2>1, <2>3
    <3>2. f[s] = IF s = {} THEN base ELSE step[Max(s)][f[s \ {Max(s)}]]
      BY <1>71, <1>72, <3>1
    <3>3. s \ {Max(s)} \in SUBSET (1 .. k) /\ k \notin s \ {Max(s)}
      BY <2>3
    <3>4. g[s \ {Max(s)}] = f[s \ {Max(s)}]
      BY <3>3
    <3> HIDE DEF g
    <3>5. QED
      BY <3>1, <3>2, <3>4
  <2>4. QED
    BY <2>2, <2>3
<1>9. Recurs(g, k, base, step)
  <2>1. g = [s \in SUBSET (1 .. k) |-> g[s]]
    OBVIOUS
  <2> HIDE DEF g
  <2>2. QED
    BY <1>8, <2>1 DEF Recurs
<1>10. g \in [SUBSET (1 .. k) -> A]
  <2>2. k \in 1 .. n
    BY <1>3, <1>4, <1>5
  <2>3. \A s \in SUBSET (1 .. k) : g[s] \in A
    BY <1>62, <2>2
  <2>4. QED
    BY <2>3
<1> HIDE DEF g
<1>11. QED
  BY <1>4, <1>9, <1>10

\* The greatest of the first k + 1 indices.
LEMMA FirstOnes ==
  ASSUME NEW n \in Nat, NEW k \in 0 .. n - 1
  PROVE  /\ 1 .. (k + 1) \in SUBSET (1 .. n) /\ 1 .. (k + 1) # {}
         /\ Max(1 .. (k + 1)) = k + 1
         /\ (1 .. (k + 1)) \ {k + 1} = 1 .. k
<1> DEFINE s == 1 .. (k + 1)
<1>1. s \in SUBSET (1 .. n) /\ s # {} /\ k + 1 \in s /\ \A i \in s : k + 1 >= i
  OBVIOUS
<1>2. s \ {k + 1} = 1 .. k
  OBVIOUS
<1> HIDE DEF s
<1>3. Max(s) \in s /\ \A i \in s : Max(s) >= i
  BY <1>1, Greatest
<1>4. Max(s) = k + 1
  <2> PICK m : m = Max(s)
    OBVIOUS
  <2>1. k + 1 >= m /\ m >= k + 1 /\ m \in 1 .. n
    BY <1>1, <1>3
  <2>2. QED
    BY <2>1
<1>5. QED
  BY <1>1, <1>2, <1>4 DEF s

\* A function whose value on some indices is a step's, on none the base.
Walks(it, n, base, w) ==
  \A s \in SUBSET (1 .. n) : it[s] = IF s = {} THEN base ELSE w[s]

\* What such a function has after k steps: it starts with the base, and each
\* step takes the next index.
LEMMA RecursSteps ==
  ASSUME NEW n \in Nat, NEW base, NEW it, NEW w,
         Walks(it, n, base, w)
  PROVE  /\ it[1 .. 0] = base
         /\ \A k \in 0 .. n - 1 : /\ it[1 .. (k + 1)] = w[1 .. (k + 1)]
                                  /\ Max(1 .. (k + 1)) = k + 1
                                  /\ (1 .. (k + 1)) \ {k + 1} = 1 .. k
<1>2. it[1 .. 0] = base
  <2>1. 1 .. 0 = {} /\ {} \in SUBSET (1 .. n)
    OBVIOUS
  <2>2. QED
    BY <2>1 DEF Walks
<1> SUFFICES ASSUME NEW k \in 0 .. n - 1
             PROVE  /\ it[1 .. (k + 1)] = w[1 .. (k + 1)]
                    /\ Max(1 .. (k + 1)) = k + 1
                    /\ (1 .. (k + 1)) \ {k + 1} = 1 .. k
  BY <1>2
<1>3. 1 .. (k + 1) \in SUBSET (1 .. n) /\ 1 .. (k + 1) # {}
  BY FirstOnes
<1>4. QED
  BY <1>3, FirstOnes DEF Walks

\* The first of some numbers.
LEMMA LeastOne ==
  ASSUME NEW B, B \subseteq Nat, B # {}
  PROVE  \E k \in B : \A j \in Nat : j < k => j \notin B
<1>1. PICK k \in B : \A j \in B : ~(<<j, k>> \in OpToRel(<, Nat))
  BY NatLessThanWellFounded, WFMin
<1>2. QED
  BY <1>1 DEF OpToRel

\* What holds at the start and goes on with each step holds to the end.
LEMMA Along ==
  ASSUME NEW n \in Nat, NEW G, 0 \in G, \A k \in 0 .. n - 1 : k \in G => k + 1 \in G
  PROVE  \A k \in 0 .. n : k \in G
<1> DEFINE B == {k \in 0 .. n : k \notin G}
<1>1. ASSUME B # {}
      PROVE  FALSE
  <2>1. B \subseteq Nat
    OBVIOUS
  <2>2. PICK k \in B : \A j \in Nat : j < k => j \notin B
    <3> HIDE DEF B
    <3>1. QED
      BY <1>1, <2>1, LeastOne
  <2>3. k \in 0 .. n /\ k \notin G /\ k # 0
    BY <2>2
  <2>4. k - 1 \in 0 .. n - 1 /\ k - 1 \in Nat /\ k - 1 < k /\ (k - 1) + 1 = k /\ k - 1 \in 0 .. n
    BY <2>3
  <2>5. k - 1 \in G
    BY <2>2, <2>4
  <2>6. QED
    BY <2>3, <2>4, <2>5
<1>2. QED
  BY <1>1

-----------------------------------------------------------------------------
(* The engine's walk *)

\* The forms of a text, the numbers and values being of its parts.
NumberOf(text, from, to) == Number(SubSeq(text, from, to))
Part(text, from, to) == SubSeq(text, from, to)
Numbers(text) == {NumberOf(text, i, j) : i \in Nat, j \in Nat}
Inlines(text) == {Part(text, i, j) : i \in Nat, j \in Int} \cup {<<>>}
FormsOf(text) == [start : Nat, end : Nat, number : Numbers(text), value : Inlines(text)]

Walkers(text) ==
  [state : {"Body", "Digits", "Value"}, start : Nat, digitsEnd : Nat, valueStart : Nat,
   found : Seq(FormsOf(text))]
Fresh == [state |-> "Body", start |-> 0, digitsEnd |-> 0, valueStart |-> 0, found |-> <<>>]

\* A form that is kept goes to the end.
LEMMA KeptIs ==
  ASSUME NEW S, NEW forms \in Seq(S), NEW form \in S
  PROVE  Kept(forms, form) \in Seq(S)
BY AppendProperties DEF Kept

\* What a closed run adds is a form of the text.
LEMMA FormIs ==
  ASSUME NEW text, NEW start \in Nat, NEW digitsEnd \in Nat, NEW end \in Nat,
         NEW value \in Inlines(text)
  PROVE  [start |-> start, end |-> end,
          number |-> Number(SubSeq(text, start + 1, digitsEnd)), value |-> value]
           \in FormsOf(text)
<1> DEFINE number == NumberOf(text, start + 1, digitsEnd)
<1>1. number \in Numbers(text)
  BY DEF Numbers
<1>2. number = Number(SubSeq(text, start + 1, digitsEnd))
  BY DEF NumberOf
<1> HIDE DEF number
<1>3. [start |-> start, end |-> end, number |-> number, value |-> value] \in FormsOf(text)
  BY <1>1 DEF FormsOf
<1>4. QED
  BY <1>2, <1>3

\* A part of the text, and nothing, are values.
LEMMA InlineIs ==
  ASSUME NEW text, NEW from \in Nat, NEW to \in Int
  PROVE  SubSeq(text, from, to) \in Inlines(text) /\ <<>> \in Inlines(text)
<1>1. Part(text, from, to) \in Inlines(text) /\ <<>> \in Inlines(text)
  BY DEF Inlines
<1>2. QED
  BY <1>1 DEF Part

\* A step of the walk makes a walker of a walker.
LEMMA StepType ==
  ASSUME NEW text, NEW w \in Walkers(text), NEW i \in Nat
  PROVE  WalkStep(text, w, i) \in Walkers(text)
<1>0. w = [state |-> w.state, start |-> w.start, digitsEnd |-> w.digitsEnd,
            valueStart |-> w.valueStart, found |-> w.found]
  BY DEF Walkers
<1>1. /\ w.state \in {"Body", "Digits", "Value"} /\ w.start \in Nat /\ w.digitsEnd \in Nat
      /\ w.valueStart \in Nat /\ w.found \in Seq(FormsOf(text))
  BY DEF Walkers
<1>2. Opened(w, i) \in Walkers(text)
  BY <1>1 DEF Opened, Walkers
<1>3. [w EXCEPT !.state = "Body"] \in Walkers(text)
  BY <1>1 DEF Walkers
<1>4. ASSUME NEW value \in Inlines(text)
      PROVE  Closed(text, w, i, value) \in Walkers(text)
  <2>1. PICK form \in FormsOf(text) :
          form = [start |-> w.start, end |-> i,
                  number |-> Number(SubSeq(text, w.start + 1, w.digitsEnd)), value |-> value]
    BY <1>1, FormIs
  <2>2. PICK found \in Seq(FormsOf(text)) : found = Kept(w.found, form)
    BY <1>1, KeptIs
  <2>3. Closed(text, w, i, value) = [w EXCEPT !.state = "Body", !.found = found]
    BY <2>1, <2>2 DEF Closed
  <2>4. [w EXCEPT !.state = "Body", !.found = found] \in Walkers(text)
    BY <1>0, <1>1 DEF Walkers
  <2>5. QED
    BY <2>3, <2>4
<1>5. SubSeq(text, w.valueStart, i - 1) \in Inlines(text) /\ <<>> \in Inlines(text)
  BY <1>1, InlineIs
<1>6. /\ [w EXCEPT !.digitsEnd = i] \in Walkers(text)
      /\ [w EXCEPT !.state = "Value", !.valueStart = i + 1] \in Walkers(text)
  <2>1. i \in Nat /\ i + 1 \in Nat
    OBVIOUS
  <2>2. [w EXCEPT !.digitsEnd = i] \in Walkers(text)
    BY <1>0, <1>1, <2>1 DEF Walkers
  <2>3. [w EXCEPT !.state = "Value", !.valueStart = i + 1] \in Walkers(text)
    BY <1>0, <1>1, <2>1 DEF Walkers
  <2>4. QED
    BY <2>2, <2>3
<1>7. /\ Closed(text, w, i, SubSeq(text, w.valueStart, i - 1)) \in Walkers(text)
      /\ Closed(text, w, i, <<>>) \in Walkers(text)
  BY <1>4, <1>5
<1>8. QED
  BY <1>2, <1>3, <1>6, <1>7 DEF WalkStep, Broken

\* The walk, one character after the other.
WalksBy(acc, text) ==
  /\ acc[0] = Fresh
  /\ \A k \in 0 .. Len(text) - 1 : acc[k + 1] = WalkStep(text, acc[k], k + 1)

LEMMA WalkInSteps ==
  ASSUME NEW text \in Seq(Char)
  PROVE  \E acc : WalksBy(acc, text) /\ Walk(text) = acc[Len(text)]
<1> DEFINE n    == Len(text)
           on   == [i \in DOMAIN text |-> i]
           Op(a, c) == WalkStep(text, a, c)
           it   == CHOOSE f : f = [s \in SUBSET DOMAIN on |->
                                     IF s = {} THEN Fresh ELSE Op(f[s \ {Max(s)}], on[Max(s)])]
           A    == Walkers(text)
           step == [i \in 1 .. n |-> [a \in A |-> Op(a, i)]]
           acc  == [k \in 0 .. n |-> it[1 .. k]]
<1>1. Walk(text) = it[DOMAIN on]
  BY DEF Walk, FoldLeftDomain, FoldLeft, MapThenFoldSet, Fresh
<1>2. n \in Nat /\ DOMAIN text = 1 .. n /\ DOMAIN on = 1 .. n /\ \A i \in 1 .. n : on[i] = i
  BY LenProperties
<1>3. Fresh \in A /\ \A a \in A, i \in 1 .. n : step[i][a] \in A
  <2>1. Fresh \in A
    BY DEF Fresh, Walkers
  <2>2. \A a \in A, i \in 1 .. n : Op(a, i) \in A
    BY <1>2, StepType
  <2> HIDE DEF A, Op, n
  <2>3. QED
    BY <2>1, <2>2
<1> HIDE DEF on
<1>4. PICK f \in [SUBSET (1 .. n) -> A] : Recurs(f, n, Fresh, step)
  <2> HIDE DEF A, step, n
  <2>1. QED
    BY <1>2, <1>3, RecursExists
<1>5. f = [s \in SUBSET (1 .. n) |->
             IF s = {} THEN Fresh ELSE Op(f[s \ {Max(s)}], on[Max(s)])]
  <2>1. ASSUME NEW s \in SUBSET (1 .. n), s # {}
        PROVE  step[Max(s)][f[s \ {Max(s)}]] = Op(f[s \ {Max(s)}], on[Max(s)])
    <3>1. Max(s) \in 1 .. n /\ on[Max(s)] = Max(s)
      BY <1>2, <2>1, Greatest
    <3>2. f[s \ {Max(s)}] \in A
      BY <1>4
    <3> HIDE DEF A, n, Op
    <3>3. QED
      BY <3>1, <3>2
  <2> HIDE DEF step, Op, n
  <2>2. QED
    BY <1>4, <2>1 DEF Recurs
<1> DEFINE w == [s \in SUBSET (1 .. n) |-> Op(it[s \ {Max(s)}], on[Max(s)])]
<1>6. it = [s \in SUBSET (1 .. n) |->
             IF s = {} THEN Fresh ELSE Op(it[s \ {Max(s)}], on[Max(s)])]
  <2> HIDE DEF Op, n
  <2>1. QED
    BY <1>2, <1>5
<1> DEFINE h == [s \in SUBSET (1 .. n) |->
                   IF s = {} THEN Fresh ELSE Op(it[s \ {Max(s)}], on[Max(s)])]
<1>7. it = h
  BY <1>6
<1> HIDE DEF it, Op, n
<1>8. Walks(it, n, Fresh, w)
  <2>1. \A s \in SUBSET (1 .. n) : h[s] = IF s = {} THEN Fresh ELSE w[s]
    OBVIOUS
  <2> HIDE DEF h, w
  <2>2. QED
    BY <1>7, <2>1 DEF Walks
<1> HIDE DEF h
<1>9. \A s \in SUBSET (1 .. n) : w[s] = Op(it[s \ {Max(s)}], on[Max(s)])
  OBVIOUS
<1> HIDE DEF w
<1>10. /\ it[1 .. 0] = Fresh
       /\ \A k \in 0 .. n - 1 : /\ it[1 .. (k + 1)] = w[1 .. (k + 1)]
                                /\ Max(1 .. (k + 1)) = k + 1
                                /\ (1 .. (k + 1)) \ {k + 1} = 1 .. k
  BY <1>2, <1>8, RecursSteps
<1>11. \A k \in 0 .. n - 1 : it[1 .. (k + 1)] = Op(it[1 .. k], k + 1)
  <2> SUFFICES ASSUME NEW k \in 0 .. n - 1
               PROVE  it[1 .. (k + 1)] = Op(it[1 .. k], k + 1)
    OBVIOUS
  <2>1. 1 .. (k + 1) \in SUBSET (1 .. n) /\ on[k + 1] = k + 1
    BY <1>2
  <2>2. /\ it[1 .. (k + 1)] = w[1 .. (k + 1)] /\ Max(1 .. (k + 1)) = k + 1
        /\ (1 .. (k + 1)) \ {k + 1} = 1 .. k
    BY <1>10
  <2>3. w[1 .. (k + 1)]
          = Op(it[(1 .. (k + 1)) \ {Max(1 .. (k + 1))}], on[Max(1 .. (k + 1))])
    BY <1>9, <2>1
  <2>4. QED
    BY <2>1, <2>2, <2>3
<1>12. /\ acc[0] = Fresh /\ acc[n] = it[1 .. n]
       /\ \A k \in 0 .. n - 1 : acc[k + 1] = Op(acc[k], k + 1)
  BY <1>2, <1>10, <1>11
<1> HIDE DEF acc
<1>13. QED
  BY <1>1, <1>2, <1>12 DEF n, Op, WalksBy

\* The walk has a walker at each character.
LEMMA WalkTyped ==
  ASSUME NEW text \in Seq(Char), NEW acc, WalksBy(acc, text)
  PROVE  \A k \in 0 .. Len(text) : acc[k] \in Walkers(text)
<1> DEFINE n == Len(text)
           G == {k \in 0 .. n : acc[k] \in Walkers(text)}
<1>1. n \in Nat
  OBVIOUS
<1>2. 0 \in G
  <2>1. Fresh \in Walkers(text)
    BY DEF Fresh, Walkers
  <2>2. QED
    BY <1>1, <2>1 DEF WalksBy
<1>3. ASSUME NEW k \in 0 .. n - 1, k \in G
      PROVE  k + 1 \in G
  <2>1. acc[k + 1] = WalkStep(text, acc[k], k + 1) /\ k + 1 \in 0 .. n /\ k + 1 \in Nat
    BY <1>1 DEF WalksBy
  <2>2. acc[k + 1] \in Walkers(text)
    BY <1>3, <2>1, StepType
  <2>3. QED
    BY <2>1, <2>2
<1> HIDE DEF G, n
<1>4. \A k \in 0 .. n : k \in G
  BY <1>1, <1>2, <1>3, Along
<1>5. QED
  BY <1>4 DEF G, n

-----------------------------------------------------------------------------
(* The shell's scan *)

Shells(text) ==
  [start : Nat, digitsEnd : Nat, valueStart : Nat, forms : Seq(FormsOf(text))]
ShellFresh == [start |-> 0, digitsEnd |-> 0, valueStart |-> 0, forms |-> <<>>]
ShellEnd(text, s) == IF s.valueStart > 0 THEN ShellClose(text, s, Len(text), TRUE) ELSE s.forms

\* What the shell closes is a list of forms.
LEMMA ShellCloseType ==
  ASSUME NEW text, NEW s \in Shells(text), NEW i \in Nat
  PROVE  ShellClose(text, s, i, FALSE) \in Seq(FormsOf(text))
<1>1. /\ s.start \in Nat /\ s.digitsEnd \in Nat /\ s.valueStart \in Nat
      /\ s.forms \in Seq(FormsOf(text))
  BY DEF Shells
<1> DEFINE value == IF s.valueStart > 0 THEN SubSeq(text, s.valueStart, i - 1) ELSE <<>>
<1>2. value \in Inlines(text)
  <2>1. SubSeq(text, s.valueStart, i - 1) \in Inlines(text) /\ <<>> \in Inlines(text)
    BY <1>1, InlineIs
  <2>2. QED
    BY <2>1
<1>3. ShellClose(text, s, i, FALSE) =
        Kept(s.forms, [start |-> s.start, end |-> i,
                       number |-> Number(SubSeq(text, s.start + 1, s.digitsEnd)), value |-> value])
  BY DEF ShellClose
<1> HIDE DEF value
<1>4. PICK form \in FormsOf(text) :
        form = [start |-> s.start, end |-> i,
                number |-> Number(SubSeq(text, s.start + 1, s.digitsEnd)), value |-> value]
  BY <1>1, <1>2, FormIs
<1>5. QED
  BY <1>1, <1>3, <1>4, KeptIs

\* A step of the scan makes a scanner of a scanner.
LEMMA ShellStepType ==
  ASSUME NEW text, NEW s \in Shells(text), NEW i \in Nat
  PROVE  ShellStep(text, s, i) \in Shells(text)
<1>1. /\ s = [start |-> s.start, digitsEnd |-> s.digitsEnd, valueStart |-> s.valueStart,
              forms |-> s.forms]
      /\ s.start \in Nat /\ s.digitsEnd \in Nat /\ s.valueStart \in Nat
      /\ s.forms \in Seq(FormsOf(text)) /\ i + 1 \in Nat
  BY DEF Shells
<1>2. PICK forms \in Seq(FormsOf(text)) : forms = ShellClose(text, s, i, FALSE)
  BY ShellCloseType
<1>3. /\ [s EXCEPT !.start = 0, !.valueStart = 0] \in Shells(text)
      /\ [[s EXCEPT !.start = 0, !.valueStart = 0] EXCEPT !.forms = forms] \in Shells(text)
  BY <1>1 DEF Shells
<1>4. /\ [s EXCEPT !.digitsEnd = i] \in Shells(text)
      /\ [s EXCEPT !.valueStart = i + 1] \in Shells(text)
      /\ [s EXCEPT !.start = i, !.digitsEnd = i] \in Shells(text)
  BY <1>1 DEF Shells
<1>5. QED
  BY <1>2, <1>3, <1>4 DEF ShellStep

\* The scan, one character after the other.
ShellsBy(acc, text) ==
  /\ acc[0] = ShellFresh
  /\ \A k \in 0 .. Len(text) - 1 : acc[k + 1] = ShellStep(text, acc[k], k + 1)

LEMMA ShellInSteps ==
  ASSUME NEW text \in Seq(Char)
  PROVE  \E acc : ShellsBy(acc, text) /\ ShellForms(text) = ShellEnd(text, acc[Len(text)])
<1> DEFINE n    == Len(text)
           on   == [i \in DOMAIN text |-> i]
           Op(a, c) == ShellStep(text, a, c)
           it   == CHOOSE f : f = [s \in SUBSET DOMAIN on |->
                                     IF s = {} THEN ShellFresh ELSE Op(f[s \ {Max(s)}], on[Max(s)])]
           A    == Shells(text)
           step == [i \in 1 .. n |-> [a \in A |-> Op(a, i)]]
           acc  == [k \in 0 .. n |-> it[1 .. k]]
<1>1. ShellForms(text) = ShellEnd(text, it[DOMAIN on])
  BY DEF ShellForms, ShellEnd, FoldLeftDomain, FoldLeft, MapThenFoldSet, ShellFresh
<1>2. n \in Nat /\ DOMAIN text = 1 .. n /\ DOMAIN on = 1 .. n /\ \A i \in 1 .. n : on[i] = i
  BY LenProperties
<1>3. ShellFresh \in A /\ \A a \in A, i \in 1 .. n : step[i][a] \in A
  <2>1. ShellFresh \in A
    BY DEF ShellFresh, Shells
  <2>2. \A a \in A, i \in 1 .. n : Op(a, i) \in A
    BY <1>2, ShellStepType
  <2> HIDE DEF A, Op, n
  <2>3. QED
    BY <2>1, <2>2
<1> HIDE DEF on
<1>4. PICK f \in [SUBSET (1 .. n) -> A] : Recurs(f, n, ShellFresh, step)
  <2> HIDE DEF A, step, n
  <2>1. QED
    BY <1>2, <1>3, RecursExists
<1>5. f = [s \in SUBSET (1 .. n) |->
             IF s = {} THEN ShellFresh ELSE Op(f[s \ {Max(s)}], on[Max(s)])]
  <2>1. ASSUME NEW s \in SUBSET (1 .. n), s # {}
        PROVE  step[Max(s)][f[s \ {Max(s)}]] = Op(f[s \ {Max(s)}], on[Max(s)])
    <3>1. Max(s) \in 1 .. n /\ on[Max(s)] = Max(s)
      BY <1>2, <2>1, Greatest
    <3>2. f[s \ {Max(s)}] \in A
      BY <1>4
    <3> HIDE DEF A, n, Op
    <3>3. QED
      BY <3>1, <3>2
  <2> HIDE DEF step, Op, n
  <2>2. QED
    BY <1>4, <2>1 DEF Recurs
<1> DEFINE w == [s \in SUBSET (1 .. n) |-> Op(it[s \ {Max(s)}], on[Max(s)])]
<1>6. it = [s \in SUBSET (1 .. n) |->
             IF s = {} THEN ShellFresh ELSE Op(it[s \ {Max(s)}], on[Max(s)])]
  <2> HIDE DEF Op, n
  <2>1. QED
    BY <1>2, <1>5
<1> DEFINE h == [s \in SUBSET (1 .. n) |->
                   IF s = {} THEN ShellFresh ELSE Op(it[s \ {Max(s)}], on[Max(s)])]
<1>7. it = h
  BY <1>6
<1> HIDE DEF it, Op, n
<1>8. Walks(it, n, ShellFresh, w)
  <2>1. \A s \in SUBSET (1 .. n) : h[s] = IF s = {} THEN ShellFresh ELSE w[s]
    OBVIOUS
  <2> HIDE DEF h, w
  <2>2. QED
    BY <1>7, <2>1 DEF Walks
<1> HIDE DEF h
<1>9. \A s \in SUBSET (1 .. n) : w[s] = Op(it[s \ {Max(s)}], on[Max(s)])
  OBVIOUS
<1> HIDE DEF w
<1>10. /\ it[1 .. 0] = ShellFresh
       /\ \A k \in 0 .. n - 1 : /\ it[1 .. (k + 1)] = w[1 .. (k + 1)]
                                /\ Max(1 .. (k + 1)) = k + 1
                                /\ (1 .. (k + 1)) \ {k + 1} = 1 .. k
  BY <1>2, <1>8, RecursSteps
<1>11. \A k \in 0 .. n - 1 : it[1 .. (k + 1)] = Op(it[1 .. k], k + 1)
  <2> SUFFICES ASSUME NEW k \in 0 .. n - 1
               PROVE  it[1 .. (k + 1)] = Op(it[1 .. k], k + 1)
    OBVIOUS
  <2>1. 1 .. (k + 1) \in SUBSET (1 .. n) /\ on[k + 1] = k + 1
    BY <1>2
  <2>2. /\ it[1 .. (k + 1)] = w[1 .. (k + 1)] /\ Max(1 .. (k + 1)) = k + 1
        /\ (1 .. (k + 1)) \ {k + 1} = 1 .. k
    BY <1>10
  <2>3. w[1 .. (k + 1)]
          = Op(it[(1 .. (k + 1)) \ {Max(1 .. (k + 1))}], on[Max(1 .. (k + 1))])
    BY <1>9, <2>1
  <2>4. QED
    BY <2>1, <2>2, <2>3
<1>12. /\ acc[0] = ShellFresh /\ acc[n] = it[1 .. n]
       /\ \A k \in 0 .. n - 1 : acc[k + 1] = Op(acc[k], k + 1)
  BY <1>2, <1>10, <1>11
<1> HIDE DEF acc
<1>13. QED
  BY <1>1, <1>2, <1>12 DEF n, Op, ShellsBy

\* The scanner of the shell and the walker of the engine in the same place.
Together(w, s) ==
  /\ s.forms = w.found
  /\ w.state = "Body" => s.start = 0 /\ s.valueStart = 0
  /\ w.state = "Digits" =>
       s.start > 0 /\ s.start = w.start /\ s.digitsEnd = w.digitsEnd /\ s.valueStart = 0
  /\ w.state = "Value" =>
       /\ s.start = w.start /\ s.digitsEnd = w.digitsEnd
       /\ s.valueStart > 0 /\ s.valueStart = w.valueStart

\* They close the same form.
LEMMA ClosesTogether ==
  ASSUME NEW text, NEW w \in Walkers(text), NEW s \in Shells(text), NEW i \in Nat, Together(w, s)
  PROVE  /\ w.state = "Digits" =>
              ShellClose(text, s, i, FALSE) = Closed(text, w, i, <<>>).found
         /\ w.state = "Value" =>
              /\ ShellClose(text, s, i, FALSE) =
                   Closed(text, w, i, SubSeq(text, w.valueStart, i - 1)).found
              /\ ShellClose(text, s, Len(text), TRUE) =
                   Closed(text, w, Len(text), SubSeq(text, w.valueStart, Len(text))).found
<1>1. \A e, v : Closed(text, w, e, v).found =
                  Kept(w.found, [start |-> w.start, end |-> e,
                                 number |-> Number(SubSeq(text, w.start + 1, w.digitsEnd)),
                                 value |-> v])
  BY DEF Closed, Walkers
<1>2. CASE w.state = "Digits"
  <2>1. ~(s.valueStart > 0) /\ s.start = w.start /\ s.digitsEnd = w.digitsEnd /\ s.forms = w.found
    BY <1>2 DEF Together
  <2>2. ShellClose(text, s, i, FALSE) =
          Kept(w.found, [start |-> w.start, end |-> i,
                         number |-> Number(SubSeq(text, w.start + 1, w.digitsEnd)), value |-> <<>>])
    BY <2>1 DEF ShellClose
  <2>3. QED
    BY <1>1, <1>2, <2>2
<1>3. CASE w.state = "Value"
  <2>1. /\ s.valueStart > 0 /\ s.valueStart = w.valueStart
        /\ s.start = w.start /\ s.digitsEnd = w.digitsEnd /\ s.forms = w.found
    BY <1>3 DEF Together
  <2>2. /\ ShellClose(text, s, i, FALSE) =
             Kept(w.found, [start |-> w.start, end |-> i,
                            number |-> Number(SubSeq(text, w.start + 1, w.digitsEnd)),
                            value |-> SubSeq(text, w.valueStart, i - 1)])
        /\ ShellClose(text, s, Len(text), TRUE) =
             Kept(w.found, [start |-> w.start, end |-> Len(text),
                            number |-> Number(SubSeq(text, w.start + 1, w.digitsEnd)),
                            value |-> SubSeq(text, w.valueStart, Len(text))])
    BY <2>1 DEF ShellClose
  <2>3. QED
    BY <1>1, <1>3, <2>2
<1>4. QED
  BY <1>2, <1>3

\* One character takes them to the same place.
LEMMA StepTogether ==
  ASSUME NEW text, NEW w \in Walkers(text), NEW s \in Shells(text), NEW i \in Nat, i > 0,
         Together(w, s)
  PROVE  Together(WalkStep(text, w, i), ShellStep(text, s, i))
<1>0. /\ w.state \in {"Body", "Digits", "Value"}
      /\ w.start \in Nat /\ w.digitsEnd \in Nat /\ s.start \in Nat /\ s.digitsEnd \in Nat
      /\ s.valueStart \in Nat /\ s.forms = w.found
      /\ i + 1 > 0 /\ Mark \notin Digits /\ Colon \notin Digits /\ Mark # Colon
  BY DEF Walkers, Shells, Together, Mark, Colon, Digits
<1>1. /\ w = [state |-> w.state, start |-> w.start, digitsEnd |-> w.digitsEnd,
              valueStart |-> w.valueStart, found |-> w.found]
      /\ s = [start |-> s.start, digitsEnd |-> s.digitsEnd, valueStart |-> s.valueStart,
              forms |-> s.forms]
  BY DEF Walkers, Shells
<1>2. /\ Opened(w, i).state = "Digits" /\ Opened(w, i).start = i /\ Opened(w, i).digitsEnd = i
      /\ Opened(w, i).found = w.found
  BY <1>1 DEF Opened
<1>3. \A e, v : Closed(text, w, e, v).state = "Body"
  BY <1>1 DEF Closed
<1> DEFINE away == [s EXCEPT !.start = 0, !.valueStart = 0]
           open == [s EXCEPT !.start = i, !.digitsEnd = i]
<1>4. /\ away.start = 0 /\ away.valueStart = 0 /\ away.forms = s.forms
      /\ \A f : /\ [away EXCEPT !.forms = f].start = 0
                /\ [away EXCEPT !.forms = f].valueStart = 0
                /\ [away EXCEPT !.forms = f].forms = f
      /\ open.start = i /\ open.digitsEnd = i /\ open.valueStart = s.valueStart
      /\ open.forms = s.forms
  BY <1>1
<1>9. ASSUME NEW x, NEW f, x.state = "Body", x.found = f
      PROVE  Together(x, [away EXCEPT !.forms = f])
  BY <1>4, <1>9 DEF Together
<1>5. CASE w.state = "Body"
  <2>1. s.start = 0 /\ s.valueStart = 0 /\ ~(s.valueStart > 0) /\ ~(s.start > 0)
    BY <1>5 DEF Together
  <2>2. CASE text[i] = Mark
    <3>1. WalkStep(text, w, i) = Opened(w, i)
      BY <1>5, <2>2 DEF WalkStep
    <3>2. ShellStep(text, s, i) = open
      BY <2>1, <2>2 DEF ShellStep
    <3>3. QED
      BY <1>0, <1>2, <1>4, <2>1, <3>1, <3>2 DEF Together
  <2>3. CASE text[i] # Mark
    <3>1. WalkStep(text, w, i) = w
      BY <1>5, <2>3 DEF WalkStep
    <3>2. ShellStep(text, s, i) = away
      BY <2>1, <2>3 DEF ShellStep
    <3>3. QED
      BY <1>0, <1>4, <1>5, <3>1, <3>2 DEF Together
  <2>4. QED
    BY <2>2, <2>3
<1>6. CASE w.state = "Value"
  <2>1. s.valueStart > 0
    BY <1>6 DEF Together
  <2>2. CASE text[i] = Mark
    <3>1. WalkStep(text, w, i) = Closed(text, w, i, SubSeq(text, w.valueStart, i - 1))
      BY <1>6, <2>2 DEF WalkStep
    <3>2. ShellStep(text, s, i) = [away EXCEPT !.forms = ShellClose(text, s, i, FALSE)]
      BY <2>1, <2>2 DEF ShellStep
    <3>3. ShellClose(text, s, i, FALSE) =
            Closed(text, w, i, SubSeq(text, w.valueStart, i - 1)).found
      BY <1>6, ClosesTogether
    <3> DEFINE x == Closed(text, w, i, SubSeq(text, w.valueStart, i - 1))
    <3>4. x.state = "Body"
      BY <1>3
    <3> HIDE DEF x, away
    <3>5. Together(x, [away EXCEPT !.forms = x.found])
      BY <1>9, <3>4
    <3>6. WalkStep(text, w, i) = x /\ ShellStep(text, s, i) = [away EXCEPT !.forms = x.found]
      BY <3>1, <3>2, <3>3 DEF x
    <3>7. QED
      BY <3>5, <3>6
  <2>3. CASE text[i] # Mark
    <3>1. WalkStep(text, w, i) = w
      BY <1>6, <2>3 DEF WalkStep
    <3>2. ShellStep(text, s, i) = s
      BY <2>1, <2>3 DEF ShellStep
    <3>3. QED
      BY <3>1, <3>2
  <2>4. QED
    BY <2>2, <2>3
<1>7. CASE w.state = "Digits"
  <2>1. /\ s.start > 0 /\ s.start = w.start /\ s.digitsEnd = w.digitsEnd
        /\ s.valueStart = 0 /\ ~(s.valueStart > 0)
        /\ w.state # "Body" /\ w.state # "Value"
    BY <1>7 DEF Together
  <2>2. CASE text[i] \in Digits
    <3>1. WalkStep(text, w, i) = [w EXCEPT !.digitsEnd = i]
      BY <1>0, <1>7, <2>1, <2>2 DEF WalkStep
    <3>2. ShellStep(text, s, i) = [s EXCEPT !.digitsEnd = i]
      BY <1>0, <2>1, <2>2 DEF ShellStep
    <3>3. QED
      BY <1>0, <1>1, <1>7, <2>1, <3>1, <3>2 DEF Together
  <2>3. CASE text[i] = Colon /\ w.digitsEnd > w.start
    <3>1. WalkStep(text, w, i) = [w EXCEPT !.state = "Value", !.valueStart = i + 1]
      BY <1>0, <1>7, <2>1, <2>3 DEF WalkStep
    <3>2. ShellStep(text, s, i) = [s EXCEPT !.valueStart = i + 1]
      BY <1>0, <2>1, <2>3 DEF ShellStep
    <3>3. QED
      BY <1>0, <1>1, <1>7, <2>1, <3>1, <3>2 DEF Together
  <2>4. CASE text[i] = Mark /\ w.digitsEnd > w.start
    <3>1. WalkStep(text, w, i) = Closed(text, w, i, <<>>)
      BY <1>0, <1>7, <2>1, <2>4 DEF WalkStep
    <3>2. ShellStep(text, s, i) = [away EXCEPT !.forms = ShellClose(text, s, i, FALSE)]
      BY <1>0, <2>1, <2>4 DEF ShellStep
    <3>3. ShellClose(text, s, i, FALSE) = Closed(text, w, i, <<>>).found
      BY <1>7, ClosesTogether
    <3> DEFINE x == Closed(text, w, i, <<>>)
    <3>4. x.state = "Body"
      BY <1>3
    <3> HIDE DEF x, away
    <3>5. Together(x, [away EXCEPT !.forms = x.found])
      BY <1>9, <3>4
    <3>6. WalkStep(text, w, i) = x /\ ShellStep(text, s, i) = [away EXCEPT !.forms = x.found]
      BY <3>1, <3>2, <3>3 DEF x
    <3>7. QED
      BY <3>5, <3>6
  <2>5. CASE text[i] = Mark /\ ~(w.digitsEnd > w.start)
    <3>1. WalkStep(text, w, i) = Opened(w, i)
      BY <1>0, <1>7, <2>1, <2>5 DEF WalkStep, Broken
    <3>2. ShellStep(text, s, i) = open
      BY <1>0, <2>1, <2>5 DEF ShellStep
    <3>3. QED
      BY <1>0, <1>2, <1>4, <2>1, <3>1, <3>2 DEF Together
  <2>6. CASE text[i] \notin Digits /\ text[i] # Mark /\ ~(text[i] = Colon /\ w.digitsEnd > w.start)
    <3>1. WalkStep(text, w, i) = [w EXCEPT !.state = "Body"]
      BY <1>0, <1>7, <2>1, <2>6 DEF WalkStep, Broken
    <3>2. ShellStep(text, s, i) = away
      BY <1>0, <2>1, <2>6 DEF ShellStep
    <3>3. QED
      BY <1>0, <1>1, <1>4, <3>1, <3>2 DEF Together
  <2>7. QED
    BY <2>2, <2>3, <2>4, <2>5, <2>6
<1>8. QED
  BY <1>0, <1>5, <1>6, <1>7

\* "The shell's identity set can never disagree with the rows the engine
\* delivered": whatever the text, the two cut it into the same forms.
LEMMA SameForms ==
  ASSUME NEW text \in Seq(Char)
  PROVE  ShellForms(text) = Forms(text)
<1>1. PICK walk : WalksBy(walk, text) /\ Walk(text) = walk[Len(text)]
  BY WalkInSteps
<1>2. PICK scan : ShellsBy(scan, text) /\ ShellForms(text) = ShellEnd(text, scan[Len(text)])
  BY ShellInSteps
<1> DEFINE n == Len(text)
           G == {k \in 0 .. n : scan[k] \in Shells(text) /\ Together(walk[k], scan[k])}
<1>3. n \in Nat /\ \A k \in 0 .. n : walk[k] \in Walkers(text)
  BY <1>1, WalkTyped
<1>4. 0 \in G
  <2>1. ShellFresh \in Shells(text) /\ Together(Fresh, ShellFresh)
    BY DEF ShellFresh, Fresh, Shells, Together
  <2>2. QED
    BY <1>1, <1>2, <1>3, <2>1 DEF WalksBy, ShellsBy
<1>5. ASSUME NEW k \in 0 .. n - 1, k \in G
      PROVE  k + 1 \in G
  <2>1. /\ walk[k + 1] = WalkStep(text, walk[k], k + 1)
        /\ scan[k + 1] = ShellStep(text, scan[k], k + 1)
        /\ k \in 0 .. n /\ k + 1 \in 0 .. n /\ k + 1 \in Nat /\ k + 1 > 0
    BY <1>1, <1>2, <1>3 DEF WalksBy, ShellsBy
  <2>2. /\ walk[k] \in Walkers(text) /\ scan[k] \in Shells(text)
        /\ Together(walk[k], scan[k])
    BY <1>3, <1>5, <2>1
  <2>3. scan[k + 1] \in Shells(text) /\ Together(walk[k + 1], scan[k + 1])
    BY <2>1, <2>2, StepTogether, ShellStepType
  <2>4. QED
    BY <2>1, <2>3
<1>6. \A k \in 0 .. n : k \in G
  <2> HIDE DEF G, n
  <2>1. QED
    BY <1>3, <1>4, <1>5, Along
<1>7. PICK w \in Walkers(text) : w = walk[n]
  BY <1>3
<1>8. PICK s \in Shells(text) : s = scan[n] /\ Together(w, s)
  BY <1>3, <1>6, <1>7
<1>9. Forms(text) = Finished(text, w).found /\ ShellForms(text) = ShellEnd(text, s)
  BY <1>1, <1>2, <1>7, <1>8 DEF Forms
<1>10. CASE w.state = "Value"
  <2>1. s.valueStart > 0
    BY <1>8, <1>10 DEF Together
  <2>2. ShellEnd(text, s) = ShellClose(text, s, Len(text), TRUE)
    BY <2>1 DEF ShellEnd
  <2>3. Finished(text, w) = Closed(text, w, Len(text), SubSeq(text, w.valueStart, Len(text)))
    BY <1>10 DEF Finished
  <2>4. QED
    BY <1>3, <1>8, <1>9, <1>10, <2>2, <2>3, ClosesTogether
<1>11. CASE w.state # "Value"
  <2>1. w.state \in {"Body", "Digits", "Value"} /\ s.valueStart \in Nat
    BY DEF Walkers, Shells
  <2>2. ~(s.valueStart > 0) /\ s.forms = w.found
    BY <1>8, <1>11, <2>1 DEF Together
  <2>3. ShellEnd(text, s) = s.forms /\ Finished(text, w) = w
    BY <1>11, <2>2 DEF ShellEnd, Finished
  <2>4. QED
    BY <1>9, <2>2, <2>3
<1>12. QED
  BY <1>10, <1>11

-----------------------------------------------------------------------------
(* The censuses *)

\* Where each of them stands in a text, and what it makes of a character.
Peekers == [hit : BOOLEAN, open : BOOLEAN, digits : Nat]
Takers  == [found : SUBSET Seq(Char), open : BOOLEAN, digits : Seq(Char)]
Counters == [open : BOOLEAN, digits : Seq(Char), found : Seq(Seq(Char))]

PeekFresh  == [hit |-> FALSE, open |-> FALSE, digits |-> 0]
TakeFresh  == [found |-> {}, open |-> FALSE, digits |-> <<>>]
CountFresh == [open |-> FALSE, digits |-> <<>>, found |-> <<>>]

Peeked(h, c) ==
  IF h.hit THEN h
  ELSE CASE c = Mark -> MarkPeeked(h)
         [] h.open /\ c \in Digits -> [h EXCEPT !.digits = @ + 1]
         [] OTHER -> [h EXCEPT !.open = FALSE]
CensusOn(n, c) ==
  CASE c = Mark -> MarkTaken(n)
    [] n.open /\ c \in Digits -> [n EXCEPT !.digits = Append(@, c)]
    [] OTHER -> [n EXCEPT !.open = FALSE]
Counted(m, c) ==
  CASE m.open /\ c \in Digits -> [m EXCEPT !.digits = Append(@, c)]
    [] m.open /\ c = Mark /\ m.digits # <<>> ->
         [m EXCEPT !.open = FALSE, !.digits = <<>>, !.found = Append(@, m.digits)]
    [] OTHER -> [m EXCEPT !.open = c = Mark, !.digits = <<>>]

\* One character more in a run.
LEMMA RunGrows ==
  ASSUME NEW S, NEW s \in Seq(S), NEW c \in S
  PROVE  Append(s, c) \in Seq(S) /\ Len(Append(s, c)) = Len(s) + 1 /\ Append(s, c) # <<>>
<1>1. Append(s, c) \in Seq(S) /\ Len(Append(s, c)) = Len(s) + 1 /\ Len(s) \in Nat
  BY AppendProperties
<1>2. Len(<<>>) = 0 /\ Len(s) + 1 # 0
  BY <1>1
<1>3. QED
  BY <1>1, <1>2

\* Steps keep to their kinds.
LEMMA PeekType ==
  ASSUME NEW h \in Peekers, NEW c \in Char
  PROVE  Peeked(h, c) \in Peekers
<1>1. /\ h = [hit |-> h.hit, open |-> h.open, digits |-> h.digits]
      /\ h.hit \in BOOLEAN /\ h.open \in BOOLEAN /\ h.digits \in Nat /\ h.digits + 1 \in Nat
  BY DEF Peekers
<1>2. PICK hits \in BOOLEAN : hits = (h.open /\ h.digits > 0)
  OBVIOUS
<1>3. MarkPeeked(h) \in Peekers
  <2>1. MarkPeeked(h) = [hit |-> hits, open |-> TRUE, digits |-> 0]
    BY <1>2 DEF MarkPeeked
  <2>2. QED
    BY <2>1 DEF Peekers
<1>4. [h EXCEPT !.digits = @ + 1] \in Peekers /\ [h EXCEPT !.open = FALSE] \in Peekers
  BY <1>1 DEF Peekers
<1>5. QED
  BY <1>3, <1>4 DEF Peeked

LEMMA TakeType ==
  ASSUME NEW n \in Takers, NEW c \in Char
  PROVE  CensusOn(n, c) \in Takers
<1>1. /\ n = [found |-> n.found, open |-> n.open, digits |-> n.digits]
      /\ n.found \in SUBSET Seq(Char) /\ n.open \in BOOLEAN /\ n.digits \in Seq(Char)
  BY DEF Takers
<1>2. PICK run \in Seq(Char) : run = Append(n.digits, c)
  BY <1>1, RunGrows
<1>3. <<>> \in Seq(Char) /\ n.found \cup {n.digits} \in SUBSET Seq(Char)
  BY <1>1
<1>4. MarkTaken(n) \in Takers
  BY <1>1, <1>3 DEF MarkTaken, Takers
<1>5. [n EXCEPT !.digits = run] \in Takers /\ [n EXCEPT !.open = FALSE] \in Takers
  BY <1>1 DEF Takers
<1>6. QED
  BY <1>2, <1>4, <1>5 DEF CensusOn

LEMMA CountType ==
  ASSUME NEW m \in Counters, NEW c \in Char
  PROVE  Counted(m, c) \in Counters
<1>1. /\ m = [open |-> m.open, digits |-> m.digits, found |-> m.found]
      /\ m.found \in Seq(Seq(Char)) /\ m.open \in BOOLEAN /\ m.digits \in Seq(Char)
  BY DEF Counters
<1>2. PICK run \in Seq(Char) : run = Append(m.digits, c)
  BY <1>1, RunGrows
<1>3. PICK runs \in Seq(Seq(Char)) : runs = Append(m.found, m.digits)
  BY <1>1, AppendProperties
<1>40. <<>> \in Seq(Char)
  OBVIOUS
<1>4. PICK none \in Seq(Char) : none = <<>>
  BY <1>40
<1>5. PICK opens \in BOOLEAN : opens = (c = Mark)
  OBVIOUS
<1>6. /\ [m EXCEPT !.digits = run] \in Counters
      /\ [m EXCEPT !.open = FALSE, !.digits = none, !.found = runs] \in Counters
      /\ [m EXCEPT !.open = opens, !.digits = none] \in Counters
  BY <1>1 DEF Counters
<1>7. QED
  BY <1>2, <1>3, <1>4, <1>5, <1>6 DEF Counted

\* has_placeholders, one character after the other.
PeeksBy(acc, text) ==
  /\ acc[0] = PeekFresh
  /\ \A k \in 0 .. Len(text) - 1 : acc[k + 1] = Peeked(acc[k], text[k + 1])

LEMMA PeekInSteps ==
  ASSUME NEW text \in Seq(Char)
  PROVE  \E acc : PeeksBy(acc, text) /\ HasPlaceholders(text) = acc[Len(text)].hit
<1> DEFINE n    == Len(text)
           Op(a, c) == Peeked(a, c)
           it   == CHOOSE f : f = [s \in SUBSET DOMAIN text |->
                                     IF s = {} THEN PeekFresh ELSE Op(f[s \ {Max(s)}], text[Max(s)])]
           A    == Peekers
           step == [i \in 1 .. n |-> [a \in A |-> Op(a, text[i])]]
           acc  == [k \in 0 .. n |-> it[1 .. k]]
<1>1. HasPlaceholders(text) = it[DOMAIN text].hit
  BY DEF HasPlaceholders, FoldLeft, MapThenFoldSet, PeekFresh, Peeked
<1>2. n \in Nat /\ DOMAIN text = 1 .. n
  BY LenProperties
<1>3. PeekFresh \in A /\ \A a \in A, i \in 1 .. n : step[i][a] \in A
  <2>1. PeekFresh \in A
    BY DEF PeekFresh, Peekers
  <2>2. \A a \in A, i \in 1 .. n : Op(a, text[i]) \in A
    BY <1>2, PeekType
  <2> HIDE DEF A, Op, n
  <2>3. QED
    BY <2>1, <2>2
<1>4. PICK f \in [SUBSET (1 .. n) -> A] : Recurs(f, n, PeekFresh, step)
  <2> HIDE DEF A, step, n
  <2>1. QED
    BY <1>2, <1>3, RecursExists
<1>5. f = [s \in SUBSET (1 .. n) |->
             IF s = {} THEN PeekFresh ELSE Op(f[s \ {Max(s)}], text[Max(s)])]
  <2>1. ASSUME NEW s \in SUBSET (1 .. n), s # {}
        PROVE  step[Max(s)][f[s \ {Max(s)}]] = Op(f[s \ {Max(s)}], text[Max(s)])
    <3>1. Max(s) \in 1 .. n
      BY <1>2, <2>1, Greatest
    <3>2. f[s \ {Max(s)}] \in A
      BY <1>4
    <3> HIDE DEF A, n, Op
    <3>3. QED
      BY <3>1, <3>2
  <2> HIDE DEF step, Op, n
  <2>2. QED
    BY <1>4, <2>1 DEF Recurs
<1> DEFINE w == [s \in SUBSET (1 .. n) |-> Op(it[s \ {Max(s)}], text[Max(s)])]
<1>6. it = [s \in SUBSET (1 .. n) |->
             IF s = {} THEN PeekFresh ELSE Op(it[s \ {Max(s)}], text[Max(s)])]
  <2> HIDE DEF Op, n
  <2>1. QED
    BY <1>2, <1>5
<1> DEFINE h == [s \in SUBSET (1 .. n) |->
                   IF s = {} THEN PeekFresh ELSE Op(it[s \ {Max(s)}], text[Max(s)])]
<1>7. it = h
  BY <1>6
<1> HIDE DEF it, Op, n
<1>8. Walks(it, n, PeekFresh, w)
  <2>1. \A s \in SUBSET (1 .. n) : h[s] = IF s = {} THEN PeekFresh ELSE w[s]
    OBVIOUS
  <2> HIDE DEF h, w
  <2>2. QED
    BY <1>7, <2>1 DEF Walks
<1> HIDE DEF h
<1>9. \A s \in SUBSET (1 .. n) : w[s] = Op(it[s \ {Max(s)}], text[Max(s)])
  OBVIOUS
<1> HIDE DEF w
<1>10. /\ it[1 .. 0] = PeekFresh
       /\ \A k \in 0 .. n - 1 : /\ it[1 .. (k + 1)] = w[1 .. (k + 1)]
                                /\ Max(1 .. (k + 1)) = k + 1
                                /\ (1 .. (k + 1)) \ {k + 1} = 1 .. k
  BY <1>2, <1>8, RecursSteps
<1>11. \A k \in 0 .. n - 1 : it[1 .. (k + 1)] = Op(it[1 .. k], text[k + 1])
  <2> SUFFICES ASSUME NEW k \in 0 .. n - 1
               PROVE  it[1 .. (k + 1)] = Op(it[1 .. k], text[k + 1])
    OBVIOUS
  <2>1. 1 .. (k + 1) \in SUBSET (1 .. n)
    BY <1>2
  <2>2. /\ it[1 .. (k + 1)] = w[1 .. (k + 1)] /\ Max(1 .. (k + 1)) = k + 1
        /\ (1 .. (k + 1)) \ {k + 1} = 1 .. k
    BY <1>10
  <2>3. w[1 .. (k + 1)] = Op(it[(1 .. (k + 1)) \ {Max(1 .. (k + 1))}], text[Max(1 .. (k + 1))])
    BY <1>9, <2>1
  <2>4. QED
    BY <2>2, <2>3
<1>12. /\ acc[0] = PeekFresh /\ acc[n] = it[1 .. n]
       /\ \A k \in 0 .. n - 1 : acc[k + 1] = Op(acc[k], text[k + 1])
  BY <1>2, <1>10, <1>11
<1> HIDE DEF acc
<1>13. QED
  BY <1>1, <1>2, <1>12 DEF n, Op, PeeksBy

\* The census, one character after the other.
TakesBy(acc, text) ==
  /\ acc[0] = TakeFresh
  /\ \A k \in 0 .. Len(text) - 1 : acc[k + 1] = CensusOn(acc[k], text[k + 1])

LEMMA TakeInSteps ==
  ASSUME NEW text \in Seq(Char)
  PROVE  \E acc : TakesBy(acc, text) /\ Census(text) = acc[Len(text)].found
<1> DEFINE n    == Len(text)
           Op(a, c) == CensusOn(a, c)
           it   == CHOOSE f : f = [s \in SUBSET DOMAIN text |->
                                     IF s = {} THEN TakeFresh ELSE Op(f[s \ {Max(s)}], text[Max(s)])]
           A    == Takers
           step == [i \in 1 .. n |-> [a \in A |-> Op(a, text[i])]]
           acc  == [k \in 0 .. n |-> it[1 .. k]]
<1>1. Census(text) = it[DOMAIN text].found
  BY DEF Census, FoldLeft, MapThenFoldSet, TakeFresh, CensusOn
<1>2. n \in Nat /\ DOMAIN text = 1 .. n
  BY LenProperties
<1>3. TakeFresh \in A /\ \A a \in A, i \in 1 .. n : step[i][a] \in A
  <2>1. TakeFresh \in A
    BY DEF TakeFresh, Takers
  <2>2. \A a \in A, i \in 1 .. n : Op(a, text[i]) \in A
    BY <1>2, TakeType
  <2> HIDE DEF A, Op, n
  <2>3. QED
    BY <2>1, <2>2
<1>4. PICK f \in [SUBSET (1 .. n) -> A] : Recurs(f, n, TakeFresh, step)
  <2> HIDE DEF A, step, n
  <2>1. QED
    BY <1>2, <1>3, RecursExists
<1>5. f = [s \in SUBSET (1 .. n) |->
             IF s = {} THEN TakeFresh ELSE Op(f[s \ {Max(s)}], text[Max(s)])]
  <2>1. ASSUME NEW s \in SUBSET (1 .. n), s # {}
        PROVE  step[Max(s)][f[s \ {Max(s)}]] = Op(f[s \ {Max(s)}], text[Max(s)])
    <3>1. Max(s) \in 1 .. n
      BY <1>2, <2>1, Greatest
    <3>2. f[s \ {Max(s)}] \in A
      BY <1>4
    <3> HIDE DEF A, n, Op
    <3>3. QED
      BY <3>1, <3>2
  <2> HIDE DEF step, Op, n
  <2>2. QED
    BY <1>4, <2>1 DEF Recurs
<1> DEFINE w == [s \in SUBSET (1 .. n) |-> Op(it[s \ {Max(s)}], text[Max(s)])]
<1>6. it = [s \in SUBSET (1 .. n) |->
             IF s = {} THEN TakeFresh ELSE Op(it[s \ {Max(s)}], text[Max(s)])]
  <2> HIDE DEF Op, n
  <2>1. QED
    BY <1>2, <1>5
<1> DEFINE h == [s \in SUBSET (1 .. n) |->
                   IF s = {} THEN TakeFresh ELSE Op(it[s \ {Max(s)}], text[Max(s)])]
<1>7. it = h
  BY <1>6
<1> HIDE DEF it, Op, n
<1>8. Walks(it, n, TakeFresh, w)
  <2>1. \A s \in SUBSET (1 .. n) : h[s] = IF s = {} THEN TakeFresh ELSE w[s]
    OBVIOUS
  <2> HIDE DEF h, w
  <2>2. QED
    BY <1>7, <2>1 DEF Walks
<1> HIDE DEF h
<1>9. \A s \in SUBSET (1 .. n) : w[s] = Op(it[s \ {Max(s)}], text[Max(s)])
  OBVIOUS
<1> HIDE DEF w
<1>10. /\ it[1 .. 0] = TakeFresh
       /\ \A k \in 0 .. n - 1 : /\ it[1 .. (k + 1)] = w[1 .. (k + 1)]
                                /\ Max(1 .. (k + 1)) = k + 1
                                /\ (1 .. (k + 1)) \ {k + 1} = 1 .. k
  BY <1>2, <1>8, RecursSteps
<1>11. \A k \in 0 .. n - 1 : it[1 .. (k + 1)] = Op(it[1 .. k], text[k + 1])
  <2> SUFFICES ASSUME NEW k \in 0 .. n - 1
               PROVE  it[1 .. (k + 1)] = Op(it[1 .. k], text[k + 1])
    OBVIOUS
  <2>1. 1 .. (k + 1) \in SUBSET (1 .. n)
    BY <1>2
  <2>2. /\ it[1 .. (k + 1)] = w[1 .. (k + 1)] /\ Max(1 .. (k + 1)) = k + 1
        /\ (1 .. (k + 1)) \ {k + 1} = 1 .. k
    BY <1>10
  <2>3. w[1 .. (k + 1)] = Op(it[(1 .. (k + 1)) \ {Max(1 .. (k + 1))}], text[Max(1 .. (k + 1))])
    BY <1>9, <2>1
  <2>4. QED
    BY <2>2, <2>3
<1>12. /\ acc[0] = TakeFresh /\ acc[n] = it[1 .. n]
       /\ \A k \in 0 .. n - 1 : acc[k + 1] = Op(acc[k], text[k + 1])
  BY <1>2, <1>10, <1>11
<1> HIDE DEF acc
<1>13. QED
  BY <1>1, <1>2, <1>12 DEF n, Op, TakesBy

\* The shapes of the eval, one character after the other.
CountsBy(acc, text) ==
  /\ acc[0] = CountFresh
  /\ \A k \in 0 .. Len(text) - 1 : acc[k + 1] = Counted(acc[k], text[k + 1])

LEMMA CountInSteps ==
  ASSUME NEW text \in Seq(Char)
  PROVE  \E acc : CountsBy(acc, text) /\ SentinelShapes(text) = acc[Len(text)].found
<1> DEFINE n    == Len(text)
           Op(a, c) == Counted(a, c)
           it   == CHOOSE f : f = [s \in SUBSET DOMAIN text |->
                                     IF s = {} THEN CountFresh ELSE Op(f[s \ {Max(s)}], text[Max(s)])]
           A    == Counters
           step == [i \in 1 .. n |-> [a \in A |-> Op(a, text[i])]]
           acc  == [k \in 0 .. n |-> it[1 .. k]]
<1>1. SentinelShapes(text) = it[DOMAIN text].found
  BY DEF SentinelShapes, FoldLeft, MapThenFoldSet, CountFresh, Counted
<1>2. n \in Nat /\ DOMAIN text = 1 .. n
  BY LenProperties
<1>3. CountFresh \in A /\ \A a \in A, i \in 1 .. n : step[i][a] \in A
  <2>1. CountFresh \in A
    BY DEF CountFresh, Counters
  <2>2. \A a \in A, i \in 1 .. n : Op(a, text[i]) \in A
    BY <1>2, CountType
  <2> HIDE DEF A, Op, n
  <2>3. QED
    BY <2>1, <2>2
<1>4. PICK f \in [SUBSET (1 .. n) -> A] : Recurs(f, n, CountFresh, step)
  <2> HIDE DEF A, step, n
  <2>1. QED
    BY <1>2, <1>3, RecursExists
<1>5. f = [s \in SUBSET (1 .. n) |->
             IF s = {} THEN CountFresh ELSE Op(f[s \ {Max(s)}], text[Max(s)])]
  <2>1. ASSUME NEW s \in SUBSET (1 .. n), s # {}
        PROVE  step[Max(s)][f[s \ {Max(s)}]] = Op(f[s \ {Max(s)}], text[Max(s)])
    <3>1. Max(s) \in 1 .. n
      BY <1>2, <2>1, Greatest
    <3>2. f[s \ {Max(s)}] \in A
      BY <1>4
    <3> HIDE DEF A, n, Op
    <3>3. QED
      BY <3>1, <3>2
  <2> HIDE DEF step, Op, n
  <2>2. QED
    BY <1>4, <2>1 DEF Recurs
<1> DEFINE w == [s \in SUBSET (1 .. n) |-> Op(it[s \ {Max(s)}], text[Max(s)])]
<1>6. it = [s \in SUBSET (1 .. n) |->
             IF s = {} THEN CountFresh ELSE Op(it[s \ {Max(s)}], text[Max(s)])]
  <2> HIDE DEF Op, n
  <2>1. QED
    BY <1>2, <1>5
<1> DEFINE h == [s \in SUBSET (1 .. n) |->
                   IF s = {} THEN CountFresh ELSE Op(it[s \ {Max(s)}], text[Max(s)])]
<1>7. it = h
  BY <1>6
<1> HIDE DEF it, Op, n
<1>8. Walks(it, n, CountFresh, w)
  <2>1. \A s \in SUBSET (1 .. n) : h[s] = IF s = {} THEN CountFresh ELSE w[s]
    OBVIOUS
  <2> HIDE DEF h, w
  <2>2. QED
    BY <1>7, <2>1 DEF Walks
<1> HIDE DEF h
<1>9. \A s \in SUBSET (1 .. n) : w[s] = Op(it[s \ {Max(s)}], text[Max(s)])
  OBVIOUS
<1> HIDE DEF w
<1>10. /\ it[1 .. 0] = CountFresh
       /\ \A k \in 0 .. n - 1 : /\ it[1 .. (k + 1)] = w[1 .. (k + 1)]
                                /\ Max(1 .. (k + 1)) = k + 1
                                /\ (1 .. (k + 1)) \ {k + 1} = 1 .. k
  BY <1>2, <1>8, RecursSteps
<1>11. \A k \in 0 .. n - 1 : it[1 .. (k + 1)] = Op(it[1 .. k], text[k + 1])
  <2> SUFFICES ASSUME NEW k \in 0 .. n - 1
               PROVE  it[1 .. (k + 1)] = Op(it[1 .. k], text[k + 1])
    OBVIOUS
  <2>1. 1 .. (k + 1) \in SUBSET (1 .. n)
    BY <1>2
  <2>2. /\ it[1 .. (k + 1)] = w[1 .. (k + 1)] /\ Max(1 .. (k + 1)) = k + 1
        /\ (1 .. (k + 1)) \ {k + 1} = 1 .. k
    BY <1>10
  <2>3. w[1 .. (k + 1)] = Op(it[(1 .. (k + 1)) \ {Max(1 .. (k + 1))}], text[Max(1 .. (k + 1))])
    BY <1>9, <2>1
  <2>4. QED
    BY <2>2, <2>3
<1>12. /\ acc[0] = CountFresh /\ acc[n] = it[1 .. n]
       /\ \A k \in 0 .. n - 1 : acc[k + 1] = Op(acc[k], text[k + 1])
  BY <1>2, <1>10, <1>11
<1> HIDE DEF acc
<1>13. QED
  BY <1>1, <1>2, <1>12 DEF n, Op, CountsBy

\* Before there is a hit, the three have seen the same run; after it each has
\* something to show, whatever it makes of the rest.
CountAlike(h, n, m) ==
  IF h.hit THEN n.found # {} /\ m.found # <<>>
  ELSE /\ n.found = {} /\ m.found = <<>>
       /\ h.open = n.open /\ h.open = m.open
       /\ h.open => /\ (h.digits > 0 <=> n.digits # <<>>)
                    /\ (h.digits > 0 <=> m.digits # <<>>)

\* What has been found stays found.
LEMMA TakenGrows ==
  ASSUME NEW n \in Takers, NEW c, n.found # {}
  PROVE  CensusOn(n, c).found # {}
<1>1. n = [found |-> n.found, open |-> n.open, digits |-> n.digits]
  BY DEF Takers
<1>2. MarkTaken(n).found # {}
  BY <1>1 DEF MarkTaken
<1>3. /\ [n EXCEPT !.digits = Append(@, c)].found = n.found
      /\ [n EXCEPT !.open = FALSE].found = n.found
  BY <1>1
<1>4. QED
  BY <1>2, <1>3 DEF CensusOn

LEMMA CountedGrows ==
  ASSUME NEW m \in Counters, NEW c, m.found # <<>>
  PROVE  Counted(m, c).found # <<>>
<1>1. /\ m = [open |-> m.open, digits |-> m.digits, found |-> m.found]
      /\ m.found \in Seq(Seq(Char)) /\ m.digits \in Seq(Char)
  BY DEF Counters
<1>2. PICK runs : runs = Append(m.found, m.digits) /\ runs # <<>>
  BY <1>1, RunGrows
<1>3. /\ [m EXCEPT !.digits = Append(@, c)].found = m.found
      /\ [m EXCEPT !.open = FALSE, !.digits = <<>>, !.found = runs].found = runs
      /\ [m EXCEPT !.open = c = Mark, !.digits = <<>>].found = m.found
  BY <1>1
<1>4. QED
  BY <1>2, <1>3 DEF Counted

\* The mark is no digit.
LEMMA MarkIsNoDigit == Mark \notin Digits /\ Colon \notin Digits /\ Mark # Colon
BY DEF Mark, Colon, Digits

\* One character takes them on together.
LEMMA CountsAlike ==
  ASSUME NEW h \in Peekers, NEW n \in Takers, NEW m \in Counters, NEW c \in Char,
         CountAlike(h, n, m)
  PROVE  CountAlike(Peeked(h, c), CensusOn(n, c), Counted(m, c))
<1>1. /\ h = [hit |-> h.hit, open |-> h.open, digits |-> h.digits]
      /\ n = [found |-> n.found, open |-> n.open, digits |-> n.digits]
      /\ m = [open |-> m.open, digits |-> m.digits, found |-> m.found]
      /\ h.hit \in BOOLEAN /\ h.open \in BOOLEAN /\ h.digits \in Nat
      /\ n.open \in BOOLEAN /\ n.digits \in Seq(Char)
      /\ m.open \in BOOLEAN /\ m.digits \in Seq(Char) /\ m.found \in Seq(Seq(Char))
  BY DEF Peekers, Takers, Counters
<1>2. CASE h.hit
  <2>1. Peeked(h, c) = h /\ n.found # {} /\ m.found # <<>>
    BY <1>2 DEF Peeked, CountAlike
  <2>2. CensusOn(n, c).found # {} /\ Counted(m, c).found # <<>>
    BY <2>1, TakenGrows, CountedGrows
  <2>3. QED
    BY <1>2, <2>1, <2>2 DEF CountAlike
<1>3. CASE ~h.hit
  <2>1. /\ n.found = {} /\ m.found = <<>> /\ h.open = n.open /\ h.open = m.open
        /\ h.open => /\ (h.digits > 0 <=> n.digits # <<>>)
                     /\ (h.digits > 0 <=> m.digits # <<>>)
    BY <1>3 DEF CountAlike
  <2>2. CASE c = Mark /\ h.open /\ h.digits > 0
    <3>1. Peeked(h, c).hit
      <4>1. PICK hits : hits = (h.open /\ h.digits > 0) /\ hits = TRUE
        BY <2>2
      <4>2. Peeked(h, c) = [hit |-> hits, open |-> TRUE, digits |-> 0]
        BY <1>3, <2>2, <4>1, MarkIsNoDigit DEF Peeked, MarkPeeked
      <4>3. QED
        BY <4>1, <4>2
    <3>2. CensusOn(n, c).found # {}
      <4>1. n.open /\ n.digits # <<>>
        BY <2>1, <2>2
      <4>2. CensusOn(n, c) = [n EXCEPT !.found = @ \cup {n.digits}, !.open = FALSE]
        BY <2>2, <4>1, MarkIsNoDigit DEF CensusOn, MarkTaken
      <4>3. QED
        BY <1>1, <4>2
    <3>3. Counted(m, c).found # <<>>
      <4>1. m.open /\ m.digits # <<>>
        BY <2>1, <2>2
      <4>2. Counted(m, c) = [m EXCEPT !.open = FALSE, !.digits = <<>>,
                                      !.found = Append(@, m.digits)]
        BY <2>2, <4>1, MarkIsNoDigit DEF Counted
      <4>3. PICK runs : runs = Append(m.found, m.digits) /\ runs # <<>>
        BY <1>1, RunGrows
      <4>4. QED
        BY <1>1, <4>2, <4>3
    <3>4. QED
      BY <3>1, <3>2, <3>3 DEF CountAlike
  <2>3. CASE c = Mark /\ ~(h.open /\ h.digits > 0)
    <3>1. Peeked(h, c) = [hit |-> FALSE, open |-> TRUE, digits |-> 0]
      <4>1. PICK hits : hits = (h.open /\ h.digits > 0) /\ hits = FALSE
        BY <2>3
      <4>2. Peeked(h, c) = [hit |-> hits, open |-> TRUE, digits |-> 0]
        BY <1>3, <2>3, <4>1, MarkIsNoDigit DEF Peeked, MarkPeeked
      <4>3. QED
        BY <4>1, <4>2
    <3>2. CensusOn(n, c) = [n EXCEPT !.open = TRUE, !.digits = <<>>]
      <4>1. ~(n.open /\ n.digits # <<>>)
        BY <2>1, <2>3
      <4>2. QED
        BY <2>3, <4>1, MarkIsNoDigit DEF CensusOn, MarkTaken
    <3>3. Counted(m, c) = [m EXCEPT !.open = TRUE, !.digits = <<>>]
      <4>1. ~(m.open /\ m.digits # <<>>) /\ c \notin Digits /\ (c = Mark) = TRUE
        BY <2>1, <2>3, MarkIsNoDigit
      <4>2. QED
        BY <4>1 DEF Counted
    <3>4. QED
      BY <1>1, <2>1, <3>1, <3>2, <3>3 DEF CountAlike
  <2>4. CASE c # Mark /\ h.open /\ c \in Digits
    <3>1. Peeked(h, c) = [h EXCEPT !.digits = @ + 1]
      BY <1>3, <2>4 DEF Peeked
    <3>2. PICK run : run = Append(n.digits, c) /\ run # <<>>
      BY <1>1, RunGrows
    <3>3. PICK line : line = Append(m.digits, c) /\ line # <<>>
      BY <1>1, RunGrows
    <3>4. CensusOn(n, c) = [n EXCEPT !.digits = run]
      BY <2>1, <2>4, <3>2 DEF CensusOn
    <3>5. Counted(m, c) = [m EXCEPT !.digits = line]
      BY <2>1, <2>4, <3>3 DEF Counted
    <3>6. h.digits + 1 > 0
      BY <1>1
    <3>7. QED
      BY <1>1, <1>3, <2>1, <2>4, <3>1, <3>2, <3>3, <3>4, <3>5, <3>6 DEF CountAlike
  <2>5. CASE c # Mark /\ ~(h.open /\ c \in Digits)
    <3>1. Peeked(h, c) = [h EXCEPT !.open = FALSE]
      BY <1>3, <2>5 DEF Peeked
    <3>2. CensusOn(n, c) = [n EXCEPT !.open = FALSE]
      BY <2>1, <2>5 DEF CensusOn
    <3>3. Counted(m, c) = [m EXCEPT !.open = FALSE, !.digits = <<>>]
      <4>1. ~(m.open /\ c \in Digits) /\ (c = Mark) = FALSE
        BY <2>1, <2>5
      <4>2. QED
        BY <2>5, <4>1 DEF Counted
    <3>4. QED
      BY <1>1, <1>3, <2>1, <3>1, <3>2, <3>3 DEF CountAlike
  <2>6. QED
    BY <2>2, <2>3, <2>4, <2>5
<1>4. QED
  BY <1>2, <1>3

\* "Must fire on exactly the same strings": the three decide alike on any text.
LEMMA SameDecision ==
  ASSUME NEW text \in Seq(Char)
  PROVE  /\ HasPlaceholders(text) <=> Census(text) # {}
         /\ HasPlaceholders(text) <=> SentinelShapes(text) # <<>>
<1>1. PICK peek : PeeksBy(peek, text) /\ HasPlaceholders(text) = peek[Len(text)].hit
  BY PeekInSteps
<1>2. PICK take : TakesBy(take, text) /\ Census(text) = take[Len(text)].found
  BY TakeInSteps
<1>3. PICK count : CountsBy(count, text) /\ SentinelShapes(text) = count[Len(text)].found
  BY CountInSteps
<1> DEFINE l == Len(text)
           Fine(k) == /\ peek[k] \in Peekers /\ take[k] \in Takers /\ count[k] \in Counters
                      /\ CountAlike(peek[k], take[k], count[k])
           G == {k \in 0 .. l : Fine(k)}
<1>4. l \in Nat /\ \A k \in 1 .. l : text[k] \in Char
  OBVIOUS
<1>5. 0 \in G
  <2>1. /\ PeekFresh \in Peekers /\ TakeFresh \in Takers /\ CountFresh \in Counters
        /\ CountAlike(PeekFresh, TakeFresh, CountFresh)
    BY DEF PeekFresh, TakeFresh, CountFresh, Peekers, Takers, Counters, CountAlike
  <2>2. peek[0] = PeekFresh /\ take[0] = TakeFresh /\ count[0] = CountFresh
    BY <1>1, <1>2, <1>3 DEF PeeksBy, TakesBy, CountsBy
  <2>3. QED
    BY <1>4, <2>1, <2>2
<1>6. ASSUME NEW k \in 0 .. l - 1, k \in G
      PROVE  k + 1 \in G
  <2>1. /\ peek[k + 1] = Peeked(peek[k], text[k + 1])
        /\ take[k + 1] = CensusOn(take[k], text[k + 1])
        /\ count[k + 1] = Counted(count[k], text[k + 1])
    BY <1>1, <1>2, <1>3 DEF PeeksBy, TakesBy, CountsBy
  <2>2. Fine(k) /\ text[k + 1] \in Char /\ k + 1 \in 0 .. l
    BY <1>4, <1>6
  <2>3. Fine(k + 1)
    BY <2>1, <2>2, PeekType, TakeType, CountType, CountsAlike
  <2>4. QED
    BY <2>2, <2>3
<1>7. \A k \in 0 .. l : k \in G
  <2> HIDE DEF G, l
  <2>1. QED
    BY <1>4, <1>5, <1>6, Along
<1>8. Fine(l)
  BY <1>4, <1>7
<1>9. (peek[l].hit => take[l].found # {} /\ count[l].found # <<>>)
      /\ (~peek[l].hit => take[l].found = {} /\ count[l].found = <<>>)
  BY <1>8 DEF CountAlike
<1>10. QED
  BY <1>1, <1>2, <1>3, <1>9

-----------------------------------------------------------------------------
(* The grammar, without a scanner *)

\* Each value of `f' a step on that of a later place.
Backs(f, n, base, next, step) ==
  \A i \in 1 .. n + 1 : f[i] = IF i > n THEN base ELSE step[i][f[next[i]]]

\* A value for each place from those of later places: there is a function that
\* has them, built from the last place backwards.
LEMMA BackExists ==
  ASSUME NEW n \in Nat, NEW A, NEW base \in A, NEW next \in [1 .. n -> 1 .. n + 1],
         \A i \in 1 .. n : next[i] > i, NEW step \in [1 .. n -> [A -> A]]
  PROVE  \E f \in [1 .. n + 1 -> A] : Backs(f, n, base, next, step)
<1> DEFINE Right(f, i) == f[i] = IF i > n THEN base ELSE step[i][f[next[i]]]
           Found(k) == \E f \in [n + 1 - k .. n + 1 -> A] :
                         \A i \in n + 1 - k .. n + 1 : Right(f, i)
           G == {k \in 0 .. n : Found(k)}
<1>1. 0 \in G
  <2> DEFINE f == [i \in n + 1 .. n + 1 |-> base]
  <2>1. \A i \in n + 1 .. n + 1 : i > n /\ f[i] = base
    OBVIOUS
  <2>2. f \in [n + 1 .. n + 1 -> A] /\ n + 1 - 0 = n + 1 /\ 0 \in 0 .. n
    OBVIOUS
  <2>3. \A i \in n + 1 .. n + 1 : Right(f, i)
    BY <2>1
  <2> HIDE DEF f, Right
  <2>4. QED
    BY <2>2, <2>3
<1>2. ASSUME NEW k \in 0 .. n - 1, k \in G
      PROVE  k + 1 \in G
  <2> DEFINE m == n - k
  <2>1. /\ m \in 1 .. n /\ n + 1 - k = m + 1 /\ n + 1 - (k + 1) = m /\ k + 1 \in 0 .. n
        /\ m .. n + 1 = {m} \cup (m + 1 .. n + 1) /\ m \notin m + 1 .. n + 1
    OBVIOUS
  <2> HIDE DEF m
  <2>2. PICK f \in [m + 1 .. n + 1 -> A] : \A i \in m + 1 .. n + 1 : Right(f, i)
    <3> HIDE DEF Right
    <3>1. QED
      BY <1>2, <2>1
  <2> DEFINE g == [i \in m .. n + 1 |-> IF i = m THEN step[m][f[next[m]]] ELSE f[i]]
  <2>3. next[m] \in m + 1 .. n + 1
    BY <2>1
  <2>4. g \in [m .. n + 1 -> A]
    <3>1. step[m][f[next[m]]] \in A
      BY <2>1, <2>3
    <3>2. QED
      BY <2>1, <3>1
  <2>5. ASSUME NEW i \in m .. n + 1
        PROVE  Right(g, i)
    <3>1. CASE i = m
      <4>1. g[i] = step[m][f[next[m]]] /\ g[next[m]] = f[next[m]] /\ ~(i > n)
        BY <2>1, <2>3, <3>1
      <4>2. QED
        BY <3>1, <4>1
    <3>2. CASE i # m
      <4>1. i \in m + 1 .. n + 1 /\ g[i] = f[i]
        BY <2>1, <3>2
      <4>2. Right(f, i)
        BY <2>2, <4>1
      <4>3. ~(i > n) => i \in 1 .. n /\ next[i] > i /\ next[i] \in m + 1 .. n + 1
        BY <2>1, <4>1
      <4>4. ~(i > n) => g[next[i]] = f[next[i]]
        BY <2>1, <4>3
      <4> HIDE DEF g
      <4>5. QED
        BY <4>1, <4>2, <4>4
    <3>3. QED
      BY <3>1, <3>2
  <2> HIDE DEF g, Right
  <2>6. Found(k + 1)
    BY <2>1, <2>4, <2>5
  <2>7. QED
    BY <2>1, <2>6
<1>3. \A k \in 0 .. n : k \in G
  <2> HIDE DEF G
  <2>1. QED
    BY <1>1, <1>2, Along
<1>4. Found(n) /\ n + 1 - n = 1
  <2>1. n \in 0 .. n /\ n + 1 - n = 1
    OBVIOUS
  <2> HIDE DEF Found
  <2>2. QED
    BY <1>3, <2>1
<1>5. QED
  BY <1>4 DEF Backs

\* text[i .. e] is a mark and digits.
RunOf(text, i, e) == text[i] = Mark /\ \A j \in i + 1 .. e : text[j] \in Digits

Bares(text, i)    == {j \in i .. Len(text) : RunEnds(text, i, j, {Mark})}
Colons(text, i)   == {j \in i .. Len(text) : RunEnds(text, i, j, {Colon})}
Closings(text, i) == {k \in i + 1 .. Len(text) : text[k] = Mark}

\* The end of a form, case by case.
LEMMA FormEndIs ==
  ASSUME NEW text, NEW i
  PROVE  /\ Bares(text, i) # {} => FormEnd(text, i) = CHOOSE j \in Bares(text, i) : TRUE
         /\ Bares(text, i) = {} /\ Colons(text, i) # {} =>
              FormEnd(text, i) =
                IF Closings(text, i) = {} THEN Len(text)
                ELSE CHOOSE k \in Closings(text, i) : \A l \in Closings(text, i) : k <= l
         /\ Bares(text, i) = {} /\ Colons(text, i) = {} => FormEnd(text, i) = 0
BY DEF FormEnd, Bares, Colons, Closings

\* A run has one end: the character behind its digits.
LEMMA RunEndsOnce ==
  ASSUME NEW text, NEW i \in Nat, NEW e \in Nat, i <= e, RunOf(text, i, e),
         text[e + 1] \notin Digits, NEW ends \in SUBSET {Mark, Colon}, NEW j \in Nat
  PROVE  RunEnds(text, i, j, ends) <=> j = e + 1 /\ e > i /\ text[e + 1] \in ends
<1>1. ASSUME RunEnds(text, i, j, ends)
      PROVE  j = e + 1 /\ e > i /\ text[e + 1] \in ends
  <2>1. j > i + 1 /\ text[j] \in ends /\ \A k \in i + 1 .. j - 1 : text[k] \in Digits
    BY <1>1 DEF RunEnds
  <2>2. text[j] \notin Digits
    BY <2>1, MarkIsNoDigit
  <2>3. ~(j <= e)
    <3>1. j <= e => j \in i + 1 .. e
      BY <2>1
    <3>2. QED
      BY <2>2, <3>1 DEF RunOf
  <2>4. ~(j > e + 1)
    <3>1. j > e + 1 => e + 1 \in i + 1 .. j - 1
      OBVIOUS
    <3>2. QED
      BY <2>1, <3>1
  <2>5. j = e + 1
    BY <2>3, <2>4
  <2>6. QED
    BY <2>1, <2>5
<1>2. ASSUME j = e + 1, e > i, text[e + 1] \in ends
      PROVE  RunEnds(text, i, j, ends)
  <2>1. j > i + 1 /\ text[j] \in ends /\ j - 1 = e
    BY <1>2
  <2>2. QED
    BY <2>1 DEF RunEnds, RunOf
<1>3. QED
  BY <1>1, <1>2

\* A run to the end of the text has none.
LEMMA RunToTheEnd ==
  ASSUME NEW text, Len(text) \in Nat, NEW i \in Nat, i <= Len(text),
         RunOf(text, i, Len(text)),
         NEW ends \in SUBSET {Mark, Colon}, NEW j \in i .. Len(text)
  PROVE  ~RunEnds(text, i, j, ends)
<1>1. ASSUME RunEnds(text, i, j, ends)
      PROVE  FALSE
  <2>1. j > i + 1 /\ text[j] \in ends /\ j \in i + 1 .. Len(text)
    BY <1>1 DEF RunEnds
  <2>2. QED
    BY <2>1, MarkIsNoDigit DEF RunOf
<1>2. QED
  BY <1>1

\* No form opens at a character that is no mark, nor at a mark whose digits
\* meet neither a mark nor a colon, nor at one without digits.
LEMMA NoForm ==
  ASSUME NEW text, Len(text) \in Nat, NEW i \in 1 .. Len(text), NEW e \in i .. Len(text),
         \/ text[i] # Mark
         \/ RunOf(text, i, e) /\ e = Len(text)
         \/ /\ RunOf(text, i, e) /\ text[e + 1] \notin Digits
            /\ e = i \/ text[e + 1] \notin {Mark, Colon}
  PROVE  FormEnd(text, i) = 0
<1> SUFFICES \A ends \in SUBSET {Mark, Colon}, j \in i .. Len(text) : ~RunEnds(text, i, j, ends)
  <2>1. {Mark} \in SUBSET {Mark, Colon} /\ {Colon} \in SUBSET {Mark, Colon}
    OBVIOUS
  <2>2. Bares(text, i) = {} /\ Colons(text, i) = {}
    BY <2>1 DEF Bares, Colons
  <2>3. QED
    BY <2>2, FormEndIs
<1> TAKE ends \in SUBSET {Mark, Colon}, j \in i .. Len(text)
<1>0. i \in Nat /\ e \in Nat /\ j \in Nat /\ i <= e /\ i <= Len(text)
  OBVIOUS
<1>1. CASE text[i] # Mark
  BY <1>1 DEF RunEnds
<1>2. CASE RunOf(text, i, e) /\ e = Len(text)
  BY <1>0, <1>2, RunToTheEnd
<1>3. CASE /\ RunOf(text, i, e) /\ text[e + 1] \notin Digits
           /\ e = i \/ text[e + 1] \notin {Mark, Colon}
  <2>1. RunEnds(text, i, j, ends) => e > i /\ text[e + 1] \in ends
    BY <1>0, <1>3, RunEndsOnce
  <2>2. QED
    BY <1>0, <1>3, <2>1
<1>4. QED
  BY <1>1, <1>2, <1>3

\* The last character of a form's run.
LEMMA LastIs ==
  ASSUME NEW text, NEW i \in Nat, NEW e \in Nat, i < e, RunOf(text, i, e),
         text[e + 1] \in {Mark, Colon}, NEW end \in Nat, e < end
  PROVE  (CHOOSE j \in i + 1 .. end : RunEnds(text, i, j, {Mark, Colon})) = e + 1
<1> DEFINE last == CHOOSE j \in i + 1 .. end : RunEnds(text, i, j, {Mark, Colon})
<1>1. {Mark, Colon} \in SUBSET {Mark, Colon} /\ i <= e /\ text[e + 1] \notin Digits
  BY MarkIsNoDigit
<1>2. \A j \in Nat : RunEnds(text, i, j, {Mark, Colon}) <=> j = e + 1
  BY <1>1, RunEndsOnce
<1>3. e + 1 \in i + 1 .. end /\ RunEnds(text, i, e + 1, {Mark, Colon})
  BY <1>2
<1>4. last \in i + 1 .. end /\ RunEnds(text, i, last, {Mark, Colon})
  BY <1>3
<1>5. last \in Nat
  BY <1>4
<1> HIDE DEF last
<1>6. last = e + 1
  BY <1>2, <1>4, <1>5
<1>7. QED
  BY <1>6 DEF last

FormIn(text, start, end, e, value) ==
  [start |-> start, end |-> end, number |-> Number(SubSeq(text, start + 1, e)), value |-> value]

\* What stands at i once its run and its end are known.
LEMMA FormAtIs ==
  ASSUME NEW text, NEW i \in Nat, NEW e \in Nat, i < e, RunOf(text, i, e),
         text[e + 1] \in {Mark, Colon}, NEW end \in Nat, e < end, FormEnd(text, i) = end
  PROVE  FormAt(text, i) =
           FormIn(text, i, end, e,
                  SubSeq(text, e + 2, IF end > e + 1 /\ text[end] = Mark THEN end - 1 ELSE end))
<1> DEFINE last == CHOOSE j \in i + 1 .. end : RunEnds(text, i, j, {Mark, Colon})
<1>1. last = e + 1
  BY LastIs
<1>2. FormAt(text, i) =
        [start |-> i, end |-> end, number |-> Number(SubSeq(text, i + 1, last - 1)),
         value |-> SubSeq(text, last + 1,
                          IF end > last /\ text[end] = Mark THEN end - 1 ELSE end)]
  BY DEF FormAt
<1> HIDE DEF last
<1>3. last - 1 = e /\ last + 1 = e + 2
  BY <1>1
<1>4. QED
  BY <1>1, <1>2, <1>3 DEF FormIn

\* Digits between two marks are a form without a value.
LEMMA BareForm ==
  ASSUME NEW text \in Seq(Char), NEW i \in 1 .. Len(text), NEW e \in i + 1 .. Len(text) - 1,
         RunOf(text, i, e), text[e + 1] = Mark
  PROVE  FormEnd(text, i) = e + 1 /\ FormAt(text, i) = FormIn(text, i, e + 1, e, <<>>)
<1>0. /\ Len(text) \in Nat /\ i \in Nat /\ e \in Nat /\ i < e /\ i <= e
      /\ e + 1 \in i .. Len(text) /\ e + 1 \in Nat /\ e < e + 1 /\ ~(e + 1 > e + 1)
  OBVIOUS
<1>1. text[e + 1] \notin Digits /\ {Mark} \in SUBSET {Mark, Colon}
  BY MarkIsNoDigit
<1>2. \A j \in Nat : RunEnds(text, i, j, {Mark}) <=> j = e + 1
  BY <1>0, <1>1, RunEndsOnce
<1>3. Bares(text, i) = {e + 1}
  <2>1. \A j \in i .. Len(text) : RunEnds(text, i, j, {Mark}) <=> j = e + 1
    <3>1. i .. Len(text) \subseteq Nat
      BY <1>0
    <3>2. QED
      BY <1>2, <3>1
  <2>2. \A j \in Bares(text, i) : j = e + 1
    BY <2>1 DEF Bares
  <2>3. e + 1 \in Bares(text, i)
    BY <1>0, <2>1 DEF Bares
  <2>4. QED
    BY <2>2, <2>3
<1>4. FormEnd(text, i) = e + 1
  BY <1>3, FormEndIs
<1>5. FormAt(text, i) = FormIn(text, i, e + 1, e, SubSeq(text, e + 2, e + 1))
  BY <1>0, <1>4, FormAtIs
<1>6. SubSeq(text, e + 2, e + 1) = <<>>
  BY <1>0
<1>7. QED
  BY <1>4, <1>5, <1>6

\* A colon behind the digits opens a value, to the next mark or to the end.
LEMMA InlineForm ==
  ASSUME NEW text \in Seq(Char), NEW i \in 1 .. Len(text), NEW e \in i + 1 .. Len(text) - 1,
         RunOf(text, i, e), text[e + 1] = Colon, NEW k \in e + 1 .. Len(text),
         \A j \in e + 2 .. k : text[j] # Mark
  PROVE  /\ k = Len(text) =>
              /\ FormEnd(text, i) = k
              /\ FormAt(text, i) = FormIn(text, i, k, e, SubSeq(text, e + 2, k))
         /\ k < Len(text) /\ text[k + 1] = Mark =>
              /\ FormEnd(text, i) = k + 1
              /\ FormAt(text, i) = FormIn(text, i, k + 1, e, SubSeq(text, e + 2, k))
<1>0. /\ Len(text) \in Nat /\ i \in Nat /\ e \in Nat /\ i < e /\ i <= e /\ k \in Nat
      /\ e + 1 \in i .. Len(text) /\ e + 1 \in Nat /\ e < k /\ k + 1 \in Nat /\ e < k + 1
      /\ k + 1 > e + 1 /\ (k + 1) - 1 = k
  OBVIOUS
<1>1. /\ text[e + 1] \notin Digits /\ text[e + 1] \in {Mark, Colon} /\ text[e + 1] # Mark
      /\ {Mark} \in SUBSET {Mark, Colon} /\ {Colon} \in SUBSET {Mark, Colon}
  BY MarkIsNoDigit
<1>2. \A j \in Nat : /\ RunEnds(text, i, j, {Colon}) <=> j = e + 1
                     /\ ~RunEnds(text, i, j, {Mark})
  BY <1>0, <1>1, RunEndsOnce
<1>3. Colons(text, i) = {e + 1} /\ Bares(text, i) = {}
  <2>1. \A j \in i .. Len(text) : /\ RunEnds(text, i, j, {Colon}) <=> j = e + 1
                                  /\ ~RunEnds(text, i, j, {Mark})
    <3>1. i .. Len(text) \subseteq Nat
      BY <1>0
    <3>2. QED
      BY <1>2, <3>1
  <2>2. (\A j \in Colons(text, i) : j = e + 1) /\ Bares(text, i) = {}
    BY <2>1 DEF Colons, Bares
  <2>3. e + 1 \in Colons(text, i)
    BY <1>0, <2>1 DEF Colons
  <2>4. QED
    BY <2>2, <2>3
<1>4. \A j \in i + 1 .. k : text[j] # Mark
  <2> SUFFICES ASSUME NEW j \in i + 1 .. k
               PROVE  text[j] # Mark
    OBVIOUS
  <2>1. j \in i + 1 .. e \/ j = e + 1 \/ j \in e + 2 .. k
    BY <1>0
  <2>2. j \in i + 1 .. e => text[j] # Mark
    BY MarkIsNoDigit DEF RunOf
  <2>3. QED
    BY <1>1, <2>1, <2>2
<1>5. ASSUME k = Len(text)
      PROVE  /\ FormEnd(text, i) = k
             /\ FormAt(text, i) = FormIn(text, i, k, e, SubSeq(text, e + 2, k))
  <2>1. Closings(text, i) = {}
    BY <1>4, <1>5 DEF Closings
  <2>2. FormEnd(text, i) = k
    BY <1>3, <1>5, <2>1, FormEndIs
  <2>3. FormAt(text, i) =
          FormIn(text, i, k, e,
                 SubSeq(text, e + 2, IF k > e + 1 /\ text[k] = Mark THEN k - 1 ELSE k))
    BY <1>0, <1>1, <2>2, FormAtIs
  <2>4. ~(k > e + 1 /\ text[k] = Mark)
    BY <1>0, <1>4
  <2>5. QED
    BY <2>2, <2>3, <2>4
<1>6. ASSUME k < Len(text), text[k + 1] = Mark
      PROVE  /\ FormEnd(text, i) = k + 1
             /\ FormAt(text, i) = FormIn(text, i, k + 1, e, SubSeq(text, e + 2, k))
  <2>1. k + 1 \in Closings(text, i)
    BY <1>0, <1>6 DEF Closings
  <2>2. \A l \in Closings(text, i) : l \in Nat /\ k + 1 <= l
    <3> SUFFICES ASSUME NEW l \in Closings(text, i)
                 PROVE  l \in Nat /\ k + 1 <= l
      OBVIOUS
    <3>1. l \in i + 1 .. Len(text) /\ text[l] = Mark
      BY DEF Closings
    <3>2. ~(l <= k)
      BY <1>0, <1>4, <3>1
    <3>3. QED
      BY <1>0, <3>1, <3>2
  <2> DEFINE first == CHOOSE c \in Closings(text, i) : \A l \in Closings(text, i) : c <= l
  <2>3. first \in Closings(text, i) /\ \A l \in Closings(text, i) : first <= l
    BY <2>1, <2>2
  <2> HIDE DEF first
  <2>4. first = k + 1
    BY <1>0, <2>1, <2>2, <2>3
  <2>5. FormEnd(text, i) = k + 1
    BY <1>3, <2>1, <2>4, FormEndIs DEF first
  <2>6. FormAt(text, i) =
          FormIn(text, i, k + 1, e,
                 SubSeq(text, e + 2,
                        IF k + 1 > e + 1 /\ text[k + 1] = Mark THEN (k + 1) - 1 ELSE k + 1))
    BY <1>0, <1>1, <2>5, FormAtIs
  <2>7. k + 1 > e + 1 /\ text[k + 1] = Mark
    BY <1>0, <1>6
  <2>8. QED
    BY <1>0, <2>5, <2>6, <2>7
<1>7. QED
  BY <1>5, <1>6

\* A form ends behind its mark, in the text.
LEMMA FormEndType ==
  ASSUME NEW text, Len(text) \in Nat, NEW i \in 1 .. Len(text)
  PROVE  FormEnd(text, i) = 0 \/ FormEnd(text, i) \in i + 1 .. Len(text)
<1>1. \A j \in i .. Len(text), ends \in SUBSET {Mark, Colon} :
        RunEnds(text, i, j, ends) => j \in i + 1 .. Len(text)
  BY DEF RunEnds
<1>2. {Mark} \in SUBSET {Mark, Colon} /\ {Colon} \in SUBSET {Mark, Colon}
  OBVIOUS
<1>3. Bares(text, i) \subseteq i + 1 .. Len(text) /\ Colons(text, i) \subseteq i + 1 .. Len(text)
  BY <1>1, <1>2 DEF Bares, Colons
<1>4. CASE Bares(text, i) # {}
  <2>1. (CHOOSE j \in Bares(text, i) : TRUE) \in Bares(text, i)
    BY <1>4
  <2>2. QED
    BY <1>3, <1>4, <2>1, FormEndIs
<1>5. CASE Bares(text, i) = {} /\ Colons(text, i) # {}
  <2>1. i < Len(text) /\ Len(text) \in i + 1 .. Len(text)
    BY <1>3, <1>5
  <2>2. CASE Closings(text, i) = {}
    BY <1>5, <2>1, <2>2, FormEndIs
  <2>3. CASE Closings(text, i) # {}
    <3>1. Closings(text, i) \subseteq Nat /\ Closings(text, i) \subseteq i + 1 .. Len(text)
      BY DEF Closings
    <3>2. PICK k \in Closings(text, i) : \A j \in Nat : j < k => j \notin Closings(text, i)
      BY <2>3, <3>1, LeastOne
    <3>3. \A l \in Closings(text, i) : k <= l
      BY <3>1, <3>2
    <3> DEFINE first == CHOOSE c \in Closings(text, i) : \A l \in Closings(text, i) : c <= l
    <3>4. first \in Closings(text, i)
      BY <3>3
    <3>5. FormEnd(text, i) = first
      BY <1>5, <2>3, FormEndIs
    <3> HIDE DEF first
    <3>6. QED
      BY <3>1, <3>4, <3>5
  <2>4. QED
    BY <2>2, <2>3
<1>6. CASE Bares(text, i) = {} /\ Colons(text, i) = {}
  BY <1>6, FormEndIs
<1>7. QED
  BY <1>4, <1>5, <1>6

\* What a form adds to the list, and the lists of the forms from each place on.
Added(form)  == IF form.number > MaxSlotId THEN <<>> ELSE <<form>>
Places(text) == {FormAt(text, i) : i \in 1 .. Len(text)} \cup FormsOf(text)

RestBy(rest, text) ==
  /\ rest \in [1 .. Len(text) + 1 -> Seq(Places(text))]
  /\ rest[Len(text) + 1] = <<>>
  /\ \A i \in 1 .. Len(text) :
       rest[i] = IF FormEnd(text, i) = 0 THEN rest[i + 1]
                 ELSE Added(FormAt(text, i)) \o rest[FormEnd(text, i) + 1]

\* What is added is a list of forms.
LEMMA AddedType ==
  ASSUME NEW S, NEW form \in S
  PROVE  Added(form) \in Seq(S)
<1>1. <<>> \in Seq(S) /\ <<form>> \in Seq(S)
  OBVIOUS
<1>2. QED
  BY <1>1 DEF Added

LEMMA LeftmostInSteps ==
  ASSUME NEW text \in Seq(Char)
  PROVE  \E rest : RestBy(rest, text) /\ Leftmost(text) = rest[1]
<1> DEFINE n == Len(text)
           AtStart(f, i) ==
             IF i > n THEN <<>>
             ELSE IF FormEnd(text, i) = 0 THEN f[i + 1]
             ELSE (IF FormAt(text, i).number > MaxSlotId THEN <<>> ELSE <<FormAt(text, i)>>)
                  \o f[FormAt(text, i).end + 1]
           from == CHOOSE f : f = [i \in 1 .. n + 1 |-> AtStart(f, i)]
           A    == Seq(Places(text))
           next == [i \in 1 .. n |-> IF FormEnd(text, i) = 0 THEN i + 1 ELSE FormEnd(text, i) + 1]
           step == [i \in 1 .. n |-> [a \in A |-> IF FormEnd(text, i) = 0 THEN a
                                                  ELSE Added(FormAt(text, i)) \o a]]
<1>1. Leftmost(text) = from[1]
  BY DEF Leftmost
<1>2. n \in Nat
  OBVIOUS
<1>3. <<>> \in A
  OBVIOUS
<1>4. /\ next \in [1 .. n -> 1 .. n + 1] /\ \A i \in 1 .. n : next[i] > i
  <2>1. \A i \in 1 .. n : FormEnd(text, i) = 0 \/ FormEnd(text, i) \in i + 1 .. n
    BY <1>2, FormEndType
  <2> HIDE DEF n
  <2>2. \A i \in 1 .. n : next[i] \in 1 .. n + 1 /\ next[i] > i
    BY <1>2, <2>1
  <2>3. QED
    BY <2>2
<1>5. step \in [1 .. n -> [A -> A]]
  <2>1. ASSUME NEW i \in 1 .. n, NEW a \in A
        PROVE  Added(FormAt(text, i)) \o a \in A
    <3>1. FormAt(text, i) \in Places(text)
      BY DEF Places
    <3>2. Added(FormAt(text, i)) \in Seq(Places(text))
      BY <3>1, AddedType
    <3>3. QED
      BY <3>2, ConcatProperties
  <2> HIDE DEF A, n
  <2>2. QED
    BY <2>1
<1>6. PICK f \in [1 .. n + 1 -> A] :
        \A i \in 1 .. n + 1 : f[i] = IF i > n THEN <<>> ELSE step[i][f[next[i]]]
  <2> DEFINE none == <<>>
  <2>1. none \in A
    BY <1>3
  <2> HIDE DEF A, n, next, step, none
  <2>2. \E f \in [1 .. n + 1 -> A] : Backs(f, n, none, next, step)
    BY <1>2, <1>4, <1>5, <2>1, BackExists
  <2>3. QED
    BY <2>2 DEF none, Backs
<1>7. \A i \in 1 .. n : FormAt(text, i).end = FormEnd(text, i)
  BY DEF FormAt
<1>8. ASSUME NEW i \in 1 .. n + 1
      PROVE  f[i] = AtStart(f, i)
  <2>1. CASE i > n
    BY <1>6, <2>1
  <2>2. CASE ~(i > n)
    <3>1. i \in 1 .. n
      BY <1>2, <2>2
    <3>2. f[next[i]] \in A
      <4> HIDE DEF next, A
      <4>1. QED
        BY <1>4, <1>6, <3>1
    <3>3. step[i][f[next[i]]] = IF FormEnd(text, i) = 0 THEN f[next[i]]
                                ELSE Added(FormAt(text, i)) \o f[next[i]]
      <4> HIDE DEF next, A, n
      <4>1. QED
        BY <3>1, <3>2
    <3>4. next[i] = IF FormEnd(text, i) = 0 THEN i + 1 ELSE FormEnd(text, i) + 1
      BY <3>1
    <3>5. f[i] = step[i][f[next[i]]]
      BY <1>6, <2>2
    <3>6. Added(FormAt(text, i)) =
            IF FormAt(text, i).number > MaxSlotId THEN <<>> ELSE <<FormAt(text, i)>>
      BY DEF Added
    <3> HIDE DEF next, step, A, n
    <3>7. CASE FormEnd(text, i) = 0
      BY <2>2, <3>3, <3>4, <3>5, <3>7
    <3>8. CASE FormEnd(text, i) # 0
      BY <1>7, <2>2, <3>1, <3>3, <3>4, <3>5, <3>6, <3>8
    <3>9. QED
      BY <3>7, <3>8
  <2>3. QED
    BY <2>1, <2>2
<1>9. f = [i \in 1 .. n + 1 |-> AtStart(f, i)]
  <2> HIDE DEF AtStart, n, A
  <2>1. QED
    BY <1>6, <1>8
<1>10. from = [i \in 1 .. n + 1 |-> AtStart(from, i)]
  <2> HIDE DEF AtStart, n
  <2>1. QED
    BY <1>9
<1> HIDE DEF from
<1> DEFINE g == [i \in 1 .. n + 1 |-> AtStart(from, i)]
<1>11. from = g /\ \A i \in 1 .. n + 1 : g[i] = AtStart(from, i)
  <2> HIDE DEF AtStart
  <2>1. QED
    BY <1>10
<1> HIDE DEF g
<1>12. ASSUME NEW i \in 1 .. n
       PROVE  from[i] = IF FormEnd(text, i) = 0 THEN from[i + 1]
                        ELSE Added(FormAt(text, i)) \o from[FormEnd(text, i) + 1]
  <2>1. i \in 1 .. n + 1 /\ ~(i > n)
    BY <1>2
  <2>2. from[i] = AtStart(from, i)
    BY <1>11, <2>1
  <2>3. Added(FormAt(text, i)) =
          IF FormAt(text, i).number > MaxSlotId THEN <<>> ELSE <<FormAt(text, i)>>
    BY DEF Added
  <2> HIDE DEF n
  <2>4. QED
    BY <1>7, <2>1, <2>2, <2>3
<1>13. from[n + 1] = <<>>
  <2>1. n + 1 \in 1 .. n + 1 /\ n + 1 > n
    BY <1>2
  <2>2. from[n + 1] = AtStart(from, n + 1)
    BY <1>11, <2>1
  <2>3. QED
    BY <2>1, <2>2
<1> DEFINE G == {k \in 0 .. n : \A i \in n + 1 - k .. n + 1 : from[i] \in A}
<1> HIDE DEF n, A, next, step
<1>14. 0 \in G
  BY <1>2, <1>3, <1>13
<1>15. ASSUME NEW k \in 0 .. n - 1, k \in G
       PROVE  k + 1 \in G
  <2>1. \A i \in n + 1 - k .. n + 1 : from[i] \in A
    BY <1>15
  <2>2. PICK m \in 1 .. n : m = n - k /\ n + 1 - (k + 1) = m /\ n + 1 - k = m + 1
    BY <1>2
  <2>3. /\ FormEnd(text, m) = 0 \/ FormEnd(text, m) \in m + 1 .. n
        /\ m + 1 \in m + 1 .. n + 1
    BY <1>2, FormEndType DEF n
  <2>4. FormEnd(text, m) # 0 => FormEnd(text, m) + 1 \in m + 1 .. n + 1
    BY <1>2, <2>3
  <2>5. Added(FormAt(text, m)) \in A
    <3>1. FormAt(text, m) \in Places(text)
      BY DEF Places, n
    <3>2. QED
      BY <3>1, AddedType DEF A
  <2>6. \A b \in A : Added(FormAt(text, m)) \o b \in A
    BY <2>5, ConcatProperties DEF A
  <2>7. from[m] \in A
    <3>1. CASE FormEnd(text, m) = 0
      BY <1>12, <2>1, <2>2, <2>3, <3>1
    <3>2. CASE FormEnd(text, m) # 0
      <4>1. from[FormEnd(text, m) + 1] \in A
        BY <2>1, <2>2, <2>4, <3>2
      <4>2. from[m] = Added(FormAt(text, m)) \o from[FormEnd(text, m) + 1]
        BY <1>12, <3>2
      <4>3. QED
        BY <2>6, <4>1, <4>2
    <3>3. QED
      BY <3>1, <3>2
  <2>8. \A i \in m .. n + 1 : i = m \/ i \in m + 1 .. n + 1
    BY <1>2
  <2>9. \A i \in n + 1 - (k + 1) .. n + 1 : from[i] \in A
    BY <2>1, <2>2, <2>7, <2>8
  <2>10. k + 1 \in 0 .. n
    BY <1>2
  <2>11. QED
    BY <2>9, <2>10
<1>16. \A k \in 0 .. n : k \in G
  <2> HIDE DEF G
  <2>1. QED
    BY <1>2, <1>14, <1>15, Along
<1>17. \A i \in 1 .. n + 1 : from[i] \in A
  <2>1. n \in 0 .. n /\ n + 1 - n = 1
    BY <1>2
  <2>2. n \in G
    BY <1>16, <2>1
  <2>3. QED
    BY <2>1, <2>2
<1>18. from \in [1 .. n + 1 -> A]
  <2>1. from = [i \in 1 .. n + 1 |-> from[i]]
    <3>1. from = [i \in 1 .. n + 1 |-> g[i]]
      BY <1>11 DEF g
    <3>2. QED
      BY <1>11, <3>1
  <2>2. QED
    BY <1>17, <2>1
<1>19. RestBy(from, text)
  BY <1>12, <1>13, <1>18 DEF RestBy, n, A
<1>20. QED
  BY <1>1, <1>19

\* The list of all is what has been found and what comes later.
Reads(found, later, all) == found \o later = all

\* Where the walk stands in the text after k characters, and what it has found:
\* all but the forms from there on.
Reading(text, rest, w, k) ==
  /\ w.state = "Body" => Reads(w.found, rest[k + 1], rest[1])
  /\ w.state = "Digits" =>
       /\ w.start \in 1 .. k /\ w.digitsEnd = k /\ RunOf(text, w.start, k)
       /\ Reads(w.found, rest[w.start], rest[1])
  /\ w.state = "Value" =>
       /\ w.start \in 1 .. k /\ w.digitsEnd \in w.start + 1 .. k - 1
       /\ RunOf(text, w.start, w.digitsEnd) /\ text[w.digitsEnd + 1] = Colon
       /\ w.valueStart = w.digitsEnd + 2 /\ \A j \in w.digitsEnd + 2 .. k : text[j] # Mark
       /\ Reads(w.found, rest[w.start], rest[1])

\* A list of some things is one of more things.
LEMMA WiderSeq ==
  ASSUME NEW S, NEW T, S \subseteq T, NEW s \in Seq(S)
  PROVE  s \in Seq(T)
<1>1. Len(s) \in Nat /\ s = [i \in 1 .. Len(s) |-> s[i]] /\ \A i \in 1 .. Len(s) : s[i] \in S
  OBVIOUS
<1>2. QED
  BY <1>1

\* What comes next has been found once it is kept.
LEMMA KeptReads ==
  ASSUME NEW S, NEW found \in Seq(S), NEW form \in S, NEW later \in Seq(S), NEW all,
         Reads(found, Added(form) \o later, all)
  PROVE  Reads(Kept(found, form), later, all)
<1>1. CASE form.number > MaxSlotId
  <2>1. Added(form) = <<>> /\ Kept(found, form) = found
    BY <1>1 DEF Added, Kept
  <2>2. <<>> \o later = later
    OBVIOUS
  <2>3. QED
    BY <2>1, <2>2 DEF Reads
<1>2. CASE ~(form.number > MaxSlotId)
  <2>1. Added(form) = <<form>> /\ Kept(found, form) = Append(found, form)
    BY <1>2 DEF Added, Kept
  <2>2. <<form>> \in Seq(S) /\ Append(found, form) = found \o <<form>>
    BY AppendIsConcat
  <2>3. (found \o <<form>>) \o later = found \o (<<form>> \o later)
    BY <2>2, ConcatAssociative
  <2>4. QED
    BY <2>1, <2>2, <2>3 DEF Reads
<1>3. QED
  BY <1>1, <1>2

\* Where there is no mark there is no form.
LEMMA Skips ==
  ASSUME NEW text \in Seq(Char), NEW rest, RestBy(rest, text), NEW a \in 1 .. Len(text) + 1,
         NEW b \in a .. Len(text) + 1, \A j \in a .. b - 1 : text[j] # Mark
  PROVE  rest[a] = rest[b]
<1> DEFINE m == b - a
           G == {k \in 0 .. m : rest[a] = rest[a + k]}
<1>0. Len(text) \in Nat /\ m \in Nat /\ a \in Nat /\ a + m = b
  OBVIOUS
<1>1. 0 \in G
  BY <1>0
<1>2. ASSUME NEW k \in 0 .. m - 1, k \in G
      PROVE  k + 1 \in G
  <2>1. PICK i \in 1 .. Len(text) : i = a + k /\ i + 1 = a + (k + 1) /\ i \in a .. b - 1
    BY <1>0
  <2>2. i \in i .. Len(text) /\ text[i] # Mark
    BY <2>1
  <2>3. FormEnd(text, i) = 0
    BY <1>0, <2>2, NoForm
  <2>4. rest[i] = rest[i + 1]
    BY <2>3 DEF RestBy
  <2>5. rest[a] = rest[i] /\ k + 1 \in 0 .. m
    BY <1>0, <1>2, <2>1
  <2>6. QED
    BY <2>1, <2>4, <2>5
<1>3. \A k \in 0 .. m : k \in G
  <2> HIDE DEF G, m
  <2>1. QED
    BY <1>0, <1>1, <1>2, Along
<1>4. m \in G
  <2>1. m \in 0 .. m
    BY <1>0
  <2> HIDE DEF G, m
  <2>2. QED
    BY <1>3, <2>1
<1>5. QED
  BY <1>0, <1>4

\* A form that is closed is the one that stands there.
LEMMA ClosesReading ==
  ASSUME NEW text \in Seq(Char), NEW rest, RestBy(rest, text), NEW w \in Walkers(text),
         NEW i \in 1 .. Len(text), NEW value \in Inlines(text), w.start \in 1 .. Len(text),
         FormEnd(text, w.start) = i,
         FormAt(text, w.start) = FormIn(text, w.start, i, w.digitsEnd, value),
         Reads(w.found, rest[w.start], rest[1])
  PROVE  Reads(Closed(text, w, i, value).found, rest[i + 1], rest[1])
<1> DEFINE form == FormAt(text, w.start)
<1>0. Len(text) \in Nat /\ i # 0 /\ i + 1 \in 1 .. Len(text) + 1
  OBVIOUS
<1>1. form \in Places(text) /\ FormsOf(text) \subseteq Places(text)
  BY DEF Places
<1>2. w.found \in Seq(Places(text))
  <2>1. w.found \in Seq(FormsOf(text))
    BY DEF Walkers
  <2>2. QED
    BY <1>1, <2>1, WiderSeq
<1>3. rest[i + 1] \in Seq(Places(text))
  BY <1>0 DEF RestBy
<1>4. rest[w.start] = Added(form) \o rest[i + 1]
  BY <1>0 DEF RestBy
<1>5. Closed(text, w, i, value).found = Kept(w.found, form)
  BY DEF Closed, Walkers, FormIn
<1> HIDE DEF form
<1>6. Reads(w.found, Added(form) \o rest[i + 1], rest[1])
  BY <1>4
<1>7. QED
  BY <1>1, <1>2, <1>3, <1>5, <1>6, KeptReads

\* One character more: what the walk finds is what stands there.
LEMMA ReadingGoesOn ==
  ASSUME NEW text \in Seq(Char), NEW rest, RestBy(rest, text), NEW k \in 0 .. Len(text) - 1,
         NEW w \in Walkers(text), Reading(text, rest, w, k)
  PROVE  Reading(text, rest, WalkStep(text, w, k + 1), k + 1)
<1> DEFINE i == k + 1
<1>0. /\ Len(text) \in Nat /\ k \in Nat /\ i \in 1 .. Len(text) /\ i \in Nat /\ k < i
      /\ i = k + 1 /\ i + 1 = k + 2 /\ i - 1 = k /\ i + 1 \in 1 .. Len(text) + 1
      /\ i \in 1 .. Len(text) + 1
  OBVIOUS
<1>1. /\ w = [state |-> w.state, start |-> w.start, digitsEnd |-> w.digitsEnd,
              valueStart |-> w.valueStart, found |-> w.found]
      /\ w.state \in {"Body", "Digits", "Value"} /\ w.start \in Nat /\ w.digitsEnd \in Nat
      /\ w.valueStart \in Nat
  BY DEF Walkers
<1> HIDE DEF i
<1>2. /\ Opened(w, i).state = "Digits" /\ Opened(w, i).start = i /\ Opened(w, i).digitsEnd = i
      /\ Opened(w, i).found = w.found
  BY <1>1 DEF Opened
<1>3. \A v : Closed(text, w, i, v).state = "Body"
  BY <1>1 DEF Closed
\* A mark opens a run.
<1>4. ASSUME text[i] = Mark, Reads(w.found, rest[i], rest[1])
      PROVE  Reading(text, rest, Opened(w, i), i)
  <2>1. RunOf(text, i, i)
    BY <1>0, <1>4 DEF RunOf
  <2>2. i \in 1 .. i
    BY <1>0
  <2>3. QED
    BY <1>2, <1>4, <2>1, <2>2 DEF Reading
<1>5. CASE w.state = "Body"
  <2>1. Reads(w.found, rest[i], rest[1])
    BY <1>0, <1>5 DEF Reading
  <2>2. CASE text[i] = Mark
    <3>1. WalkStep(text, w, i) = Opened(w, i)
      BY <1>5, <2>2 DEF WalkStep
    <3>2. QED
      BY <1>0, <1>4, <2>1, <2>2, <3>1
  <2>3. CASE text[i] # Mark
    <3>1. WalkStep(text, w, i) = w
      BY <1>5, <2>3 DEF WalkStep
    <3>2. i + 1 \in i .. Len(text) + 1 /\ \A j \in i .. (i + 1) - 1 : text[j] # Mark
      BY <1>0, <2>3
    <3>3. rest[i] = rest[i + 1]
      BY <1>0, <3>2, Skips
    <3>4. QED
      BY <1>0, <1>5, <2>1, <3>1, <3>3 DEF Reading
  <2>4. QED
    BY <2>2, <2>3
<1>6. CASE w.state = "Value"
  <2>1. /\ w.start \in 1 .. k /\ w.digitsEnd \in w.start + 1 .. k - 1
        /\ RunOf(text, w.start, w.digitsEnd) /\ text[w.digitsEnd + 1] = Colon
        /\ w.valueStart = w.digitsEnd + 2 /\ \A j \in w.digitsEnd + 2 .. k : text[j] # Mark
        /\ Reads(w.found, rest[w.start], rest[1])
    BY <1>6 DEF Reading
  <2>2. CASE text[i] = Mark
    <3> DEFINE value == SubSeq(text, w.valueStart, i - 1)
    <3>1. WalkStep(text, w, i) = Closed(text, w, i, value)
      BY <1>6, <2>2 DEF WalkStep
    <3>2. /\ w.start \in 1 .. Len(text) /\ w.digitsEnd \in w.start + 1 .. Len(text) - 1
          /\ k \in w.digitsEnd + 1 .. Len(text) /\ k < Len(text) /\ text[k + 1] = Mark
      BY <1>0, <2>1, <2>2
    <3>3. /\ FormEnd(text, w.start) = k + 1
          /\ FormAt(text, w.start) =
               FormIn(text, w.start, k + 1, w.digitsEnd, SubSeq(text, w.digitsEnd + 2, k))
      BY <2>1, <3>2, InlineForm
    <3>4. value \in Inlines(text) /\ value = SubSeq(text, w.digitsEnd + 2, k)
      <4>1. value = SubSeq(text, w.valueStart, k)
        BY <1>0
      <4>2. SubSeq(text, w.valueStart, k) \in Inlines(text)
        BY <1>0, <1>1, InlineIs
      <4>3. QED
        BY <2>1, <4>1, <4>2
    <3> HIDE DEF value
    <3>5. Reads(Closed(text, w, i, value).found, rest[i + 1], rest[1])
      BY <1>0, <2>1, <3>2, <3>3, <3>4, ClosesReading
    <3> DEFINE x == Closed(text, w, i, value)
    <3>6. x.state = "Body" /\ Reads(x.found, rest[i + 1], rest[1])
      BY <1>3, <3>5
    <3> HIDE DEF x
    <3>7. Reading(text, rest, x, i)
      BY <3>6 DEF Reading
    <3>8. QED
      BY <1>0, <3>1, <3>7 DEF x
  <2>3. CASE text[i] # Mark
    <3>1. WalkStep(text, w, i) = w
      BY <1>6, <2>3 DEF WalkStep
    <3>2. /\ w.start \in 1 .. i /\ w.digitsEnd \in w.start + 1 .. i - 1
          /\ \A j \in w.digitsEnd + 2 .. i : text[j] # Mark
      BY <1>0, <2>1, <2>3
    <3>3. Reading(text, rest, w, i)
      BY <1>6, <2>1, <3>2 DEF Reading
    <3>4. QED
      BY <1>0, <3>1, <3>3
  <2>4. QED
    BY <2>2, <2>3
<1>7. CASE w.state = "Digits"
  <2>1. /\ w.start \in 1 .. k /\ w.digitsEnd = k /\ RunOf(text, w.start, k)
        /\ Reads(w.found, rest[w.start], rest[1])
    BY <1>7 DEF Reading
  <2>2. /\ w.start \in 1 .. Len(text) /\ w.start \in 1 .. i /\ w.start \in 1 .. Len(text) + 1
        /\ w.start \in Nat /\ w.start <= k /\ k \in w.start .. Len(text)
        /\ w.state # "Body" /\ w.state # "Value"
    BY <1>0, <1>7, <2>1
  <2>3. CASE text[i] \in Digits
    <3>1. WalkStep(text, w, i) = [w EXCEPT !.digitsEnd = i]
      BY <1>7, <2>2, <2>3, MarkIsNoDigit DEF WalkStep
    <3>2. RunOf(text, w.start, i)
      <4>1. \A j \in w.start + 1 .. i : j \in w.start + 1 .. k \/ j = i
        BY <1>0, <2>2
      <4>2. QED
        BY <2>1, <2>3, <4>1 DEF RunOf
    <3> DEFINE x == [w EXCEPT !.digitsEnd = i]
    <3>3. x.state = "Digits" /\ x.start = w.start /\ x.digitsEnd = i /\ x.found = w.found
      BY <1>1, <1>7
    <3> HIDE DEF x
    <3>4. Reading(text, rest, x, i)
      BY <2>1, <2>2, <3>2, <3>3 DEF Reading
    <3>5. QED
      BY <1>0, <3>1, <3>4 DEF x
  <2>4. CASE text[i] = Colon /\ w.digitsEnd > w.start
    <3>1. WalkStep(text, w, i) = [w EXCEPT !.state = "Value", !.valueStart = i + 1]
      BY <1>7, <2>2, <2>4, MarkIsNoDigit DEF WalkStep
    <3> DEFINE x == [w EXCEPT !.state = "Value", !.valueStart = i + 1]
    <3>2. /\ x.state = "Value" /\ x.start = w.start /\ x.digitsEnd = k /\ x.found = w.found
          /\ x.valueStart = k + 2
      BY <1>0, <1>1, <2>1
    <3>3. /\ k \in w.start + 1 .. i - 1 /\ text[k + 1] = Colon
          /\ \A j \in k + 2 .. i : text[j] # Mark
      BY <1>0, <2>1, <2>2, <2>4
    <3> HIDE DEF x
    <3>4. Reading(text, rest, x, i)
      BY <2>1, <2>2, <3>2, <3>3 DEF Reading
    <3>5. QED
      BY <1>0, <3>1, <3>4 DEF x
  <2>5. CASE text[i] = Mark /\ w.digitsEnd > w.start
    <3>1. WalkStep(text, w, i) = Closed(text, w, i, <<>>)
      BY <1>7, <2>2, <2>5, MarkIsNoDigit DEF WalkStep
    <3>2. k \in w.start + 1 .. Len(text) - 1 /\ text[k + 1] = Mark
      BY <1>0, <2>1, <2>2, <2>5
    <3>3. /\ FormEnd(text, w.start) = k + 1
          /\ FormAt(text, w.start) = FormIn(text, w.start, k + 1, k, <<>>)
      BY <2>1, <2>2, <3>2, BareForm
    <3>4. <<>> \in Inlines(text)
      BY <1>0, InlineIs
    <3> DEFINE none == <<>>
    <3>5. /\ none \in Inlines(text) /\ FormEnd(text, w.start) = i
          /\ FormAt(text, w.start) = FormIn(text, w.start, i, w.digitsEnd, none)
      BY <1>0, <2>1, <3>3, <3>4
    <3> HIDE DEF none
    <3>6. Reads(Closed(text, w, i, none).found, rest[i + 1], rest[1])
      BY <1>0, <2>1, <2>2, <3>5, ClosesReading
    <3> DEFINE x == Closed(text, w, i, none)
    <3>7. x.state = "Body" /\ Reads(x.found, rest[i + 1], rest[1])
      BY <1>3, <3>6
    <3> HIDE DEF x
    <3>8. Reading(text, rest, x, i)
      BY <3>7 DEF Reading
    <3>9. QED
      BY <1>0, <3>1, <3>8 DEF x, none
  <2>6. CASE text[i] = Mark /\ ~(w.digitsEnd > w.start)
    <3>1. WalkStep(text, w, i) = Opened(w, i)
      BY <1>7, <2>2, <2>6, MarkIsNoDigit DEF WalkStep, Broken
    <3>2. w.start = k /\ k \in k .. Len(text) /\ text[k + 1] \notin Digits /\ k \in 1 .. Len(text)
      BY <1>0, <2>1, <2>2, <2>6, MarkIsNoDigit
    <3>3. FormEnd(text, k) = 0
      BY <1>0, <2>1, <3>2, NoForm
    <3>4. rest[k] = rest[k + 1]
      BY <3>2, <3>3 DEF RestBy
    <3>5. Reads(w.found, rest[i], rest[1])
      BY <1>0, <2>1, <3>2, <3>4
    <3>6. QED
      BY <1>0, <1>4, <2>6, <3>1, <3>5
  <2>7. CASE text[i] \notin Digits /\ text[i] # Mark /\ ~(text[i] = Colon /\ w.digitsEnd > w.start)
    <3>1. WalkStep(text, w, i) = [w EXCEPT !.state = "Body"]
      BY <1>7, <2>2, <2>7, MarkIsNoDigit DEF WalkStep, Broken
    <3>2. text[k + 1] \notin Digits /\ (k = w.start \/ text[k + 1] \notin {Mark, Colon})
      BY <1>0, <2>1, <2>2, <2>7
    <3>3. FormEnd(text, w.start) = 0
      BY <1>0, <2>1, <2>2, <3>2, NoForm
    <3>4. rest[w.start] = rest[w.start + 1]
      BY <2>2, <3>3 DEF RestBy
    <3>5. /\ w.start + 1 \in 1 .. Len(text) + 1 /\ i + 1 \in w.start + 1 .. Len(text) + 1
          /\ \A j \in w.start + 1 .. (i + 1) - 1 : text[j] # Mark
      <4>1. \A j \in w.start + 1 .. i : j \in w.start + 1 .. k \/ j = i
        BY <1>0, <2>2
      <4>2. \A j \in w.start + 1 .. i : text[j] # Mark
        BY <2>1, <2>7, <4>1, MarkIsNoDigit DEF RunOf
      <4>3. QED
        BY <1>0, <2>2, <4>2
    <3>6. rest[w.start + 1] = rest[i + 1]
      BY <3>5, Skips
    <3> DEFINE x == [w EXCEPT !.state = "Body"]
    <3>7. x.state = "Body" /\ x.found = w.found
      BY <1>1
    <3> HIDE DEF x
    <3>8. Reads(x.found, rest[i + 1], rest[1])
      BY <2>1, <3>4, <3>6, <3>7
    <3>9. Reading(text, rest, x, i)
      BY <3>7, <3>8 DEF Reading
    <3>10. QED
      BY <1>0, <3>1, <3>9 DEF x
  <2>8. QED
    BY <2>3, <2>4, <2>5, <2>6, <2>7
<1>8. QED
  BY <1>1, <1>5, <1>6, <1>7 DEF i

\* The walk finds the forms of the grammar, leftmost first, in any text.
LEMMA AllFound ==
  ASSUME NEW text \in Seq(Char)
  PROVE  Forms(text) = Leftmost(text)
<1>1. PICK walk : WalksBy(walk, text) /\ Walk(text) = walk[Len(text)]
  BY WalkInSteps
<1>2. PICK rest : RestBy(rest, text) /\ Leftmost(text) = rest[1]
  BY LeftmostInSteps
<1> DEFINE n == Len(text)
           G == {k \in 0 .. n : Reading(text, rest, walk[k], k)}
<1>3. n \in Nat /\ \A k \in 0 .. n : walk[k] \in Walkers(text)
  BY <1>1, WalkTyped
<1>4. 0 \in G
  <2>1. rest[1] \in Seq(Places(text)) /\ Fresh.state = "Body" /\ Fresh.found = <<>>
    BY <1>2, <1>3 DEF RestBy, Fresh
  <2>2. <<>> \o rest[1] = rest[1]
    BY <2>1
  <2>3. walk[0] = Fresh
    BY <1>1 DEF WalksBy
  <2>4. Reads(<<>>, rest[0 + 1], rest[1])
    BY <2>2 DEF Reads
  <2>5. Reading(text, rest, Fresh, 0)
    BY <2>1, <2>4 DEF Reading
  <2>6. QED
    BY <1>3, <2>3, <2>5
<1>5. ASSUME NEW k \in 0 .. n - 1, k \in G
      PROVE  k + 1 \in G
  <2>1. walk[k + 1] = WalkStep(text, walk[k], k + 1) /\ k \in 0 .. n /\ k + 1 \in 0 .. n
    BY <1>1, <1>3 DEF WalksBy
  <2>2. walk[k] \in Walkers(text) /\ Reading(text, rest, walk[k], k)
    BY <1>3, <1>5, <2>1
  <2>3. Reading(text, rest, walk[k + 1], k + 1)
    BY <1>2, <2>1, <2>2, ReadingGoesOn
  <2>4. QED
    BY <2>1, <2>3
<1>6. Reading(text, rest, walk[n], n)
  <2>1. n \in 0 .. n
    BY <1>3
  <2>2. \A k \in 0 .. n : k \in G
    <3> HIDE DEF G, n
    <3>1. QED
      BY <1>3, <1>4, <1>5, Along
  <2>3. QED
    BY <2>1, <2>2
<1>7. PICK w \in Walkers(text) : w = Walk(text) /\ Reading(text, rest, w, n)
  BY <1>1, <1>3, <1>6
<1>8. /\ w.state \in {"Body", "Digits", "Value"} /\ w.start \in Nat /\ w.valueStart \in Nat
      /\ w.found \in Seq(FormsOf(text)) /\ rest[n + 1] = <<>>
  BY <1>2 DEF Walkers, RestBy
\* With nothing to come, what is found is all.
<1>9. ASSUME NEW found, NEW S, found \in Seq(S), Reads(found, rest[n + 1], rest[1])
      PROVE  found = rest[1]
  <2>1. found \o <<>> = found
    BY <1>9
  <2>2. QED
    BY <1>8, <1>9, <2>1 DEF Reads
<1>10. CASE w.state = "Body"
  <2>1. Forms(text) = w.found
    BY <1>7, <1>10 DEF Forms, Finished
  <2>2. Reads(w.found, rest[n + 1], rest[1])
    BY <1>7, <1>10 DEF Reading
  <2>3. QED
    BY <1>2, <1>8, <1>9, <2>1, <2>2
<1>11. CASE w.state = "Digits"
  <2>1. Forms(text) = w.found
    BY <1>7, <1>11 DEF Forms, Finished
  <2>2. /\ w.start \in 1 .. n /\ RunOf(text, w.start, n)
        /\ Reads(w.found, rest[w.start], rest[1])
    BY <1>7, <1>11 DEF Reading
  <2>3. FormEnd(text, w.start) = 0
    <3>1. n \in w.start .. n
      BY <1>3, <2>2
    <3>2. QED
      BY <1>3, <2>2, <3>1, NoForm
  <2>4. rest[w.start] = rest[w.start + 1]
    BY <1>2, <2>2, <2>3 DEF RestBy
  <2>5. /\ w.start + 1 \in 1 .. n + 1 /\ n + 1 \in w.start + 1 .. n + 1
        /\ \A j \in w.start + 1 .. (n + 1) - 1 : text[j] # Mark
    BY <1>3, <2>2, MarkIsNoDigit DEF RunOf
  <2>6. rest[w.start + 1] = rest[n + 1]
    BY <1>2, <2>5, Skips
  <2>7. Reads(w.found, rest[n + 1], rest[1])
    BY <2>2, <2>4, <2>6
  <2>8. QED
    BY <1>2, <1>8, <1>9, <2>1, <2>7
<1>12. CASE w.state = "Value"
  <2> DEFINE value == SubSeq(text, w.valueStart, n)
  <2>1. /\ w.start \in 1 .. n /\ w.digitsEnd \in w.start + 1 .. n - 1
        /\ RunOf(text, w.start, w.digitsEnd) /\ text[w.digitsEnd + 1] = Colon
        /\ w.valueStart = w.digitsEnd + 2 /\ \A j \in w.digitsEnd + 2 .. n : text[j] # Mark
        /\ Reads(w.found, rest[w.start], rest[1])
    BY <1>7, <1>12 DEF Reading
  <2>2. n \in w.digitsEnd + 1 .. n /\ n \in 1 .. n
    BY <1>3, <2>1
  <2>3. /\ FormEnd(text, w.start) = n
        /\ FormAt(text, w.start) = FormIn(text, w.start, n, w.digitsEnd, value)
    <3>1. /\ FormEnd(text, w.start) = n
          /\ FormAt(text, w.start) =
               FormIn(text, w.start, n, w.digitsEnd, SubSeq(text, w.digitsEnd + 2, n))
      BY <2>1, <2>2, InlineForm
    <3>2. QED
      BY <2>1, <3>1
  <2>4. value \in Inlines(text)
    BY <1>3, <1>8, InlineIs
  <2> HIDE DEF value
  <2>5. Reads(Closed(text, w, n, value).found, rest[n + 1], rest[1])
    BY <1>2, <2>1, <2>2, <2>3, <2>4, ClosesReading
  <2>6. Forms(text) = Closed(text, w, n, value).found
    BY <1>7, <1>12 DEF Forms, Finished, value
  <2>7. Closed(text, w, n, value).found \in Seq(FormsOf(text))
    <3>1. FormIn(text, w.start, n, w.digitsEnd, value) \in FormsOf(text)
      BY <1>3, <2>1, <2>4, <1>8, FormIs DEF FormIn
    <3>2. Closed(text, w, n, value).found =
            Kept(w.found, FormIn(text, w.start, n, w.digitsEnd, value))
      BY DEF Closed, Walkers, FormIn
    <3>3. QED
      BY <1>8, <3>1, <3>2, KeptIs
  <2>8. QED
    BY <1>2, <1>9, <2>5, <2>6, <2>7
<1>13. QED
  BY <1>8, <1>10, <1>11, <1>12

-----------------------------------------------------------------------------
(* A response cut into deltas *)

\* Where a mark opens a run: in body text, or behind a mark without digits.
Opening(w) == w.state = "Body" \/ (w.state = "Digits" /\ ~(w.digitsEnd > w.start))

\* What a step of the walk does: a mark opens a run or closes a form, a digit
\* counts, a colon opens a value, anything else stays in the text or breaks the
\* run.
Opens(text, w, x, i) ==
  /\ text[i] = Mark /\ Opening(w)
  /\ x.state = "Digits" /\ x.start = i /\ x.digitsEnd = i /\ x.found = w.found
Stays(text, w, x, i) == text[i] # Mark /\ w.state \in {"Body", "Value"} /\ x = w
Counts(text, w, x, i) ==
  /\ w.state = "Digits" /\ text[i] \in Digits
  /\ x.state = "Digits" /\ x.start = w.start /\ x.digitsEnd = i /\ x.found = w.found
Values(text, w, x, i) ==
  /\ w.state = "Digits" /\ w.digitsEnd > w.start /\ text[i] = Colon
  /\ x.state = "Value" /\ x.start = w.start /\ x.digitsEnd = w.digitsEnd
  /\ x.valueStart = i + 1 /\ x.found = w.found
ValueAt(text, w, i) == IF w.state = "Value" THEN SubSeq(text, w.valueStart, i - 1) ELSE <<>>
Closes(text, w, x, i) ==
  /\ text[i] = Mark /\ ~Opening(w)
  /\ x.state = "Body" /\ x.digitsEnd = w.digitsEnd
  /\ x.found = Kept(w.found, FormIn(text, w.start, i, w.digitsEnd, ValueAt(text, w, i)))
Breaks(text, w, x, i) ==
  /\ w.state = "Digits" /\ text[i] \notin Digits /\ text[i] # Mark
  /\ ~(text[i] = Colon /\ w.digitsEnd > w.start)
  /\ x.state = "Body" /\ x.digitsEnd = w.digitsEnd /\ x.found = w.found

LEMMA StepIs ==
  ASSUME NEW text, NEW w \in Walkers(text), NEW i \in Nat, NEW x, x = WalkStep(text, w, i)
  PROVE  \/ Opens(text, w, x, i) \/ Stays(text, w, x, i) \/ Counts(text, w, x, i)
         \/ Values(text, w, x, i) \/ Closes(text, w, x, i) \/ Breaks(text, w, x, i)
<1>1. /\ w = [state |-> w.state, start |-> w.start, digitsEnd |-> w.digitsEnd,
              valueStart |-> w.valueStart, found |-> w.found]
      /\ w.state \in {"Body", "Digits", "Value"}
  BY DEF Walkers
<1>2. /\ Opened(w, i).state = "Digits" /\ Opened(w, i).start = i /\ Opened(w, i).digitsEnd = i
      /\ Opened(w, i).found = w.found
  BY <1>1 DEF Opened
<1>3. \A v : /\ Closed(text, w, i, v).state = "Body"
             /\ Closed(text, w, i, v).digitsEnd = w.digitsEnd
             /\ Closed(text, w, i, v).found = Kept(w.found, FormIn(text, w.start, i, w.digitsEnd, v))
  BY <1>1 DEF Closed, FormIn
<1>4. CASE w.state = "Body"
  <2>1. CASE text[i] = Mark
    <3>1. x = Opened(w, i)
      BY <1>4, <2>1 DEF WalkStep
    <3>2. Opening(w)
      BY <1>4 DEF Opening
    <3>3. QED
      BY <1>2, <2>1, <3>1, <3>2 DEF Opens
  <2>2. CASE text[i] # Mark
    <3>1. x = w
      BY <1>4, <2>2 DEF WalkStep
    <3>2. QED
      BY <1>4, <2>2, <3>1 DEF Stays
  <2>3. QED
    BY <2>1, <2>2
<1>5. CASE w.state = "Value"
  <2>1. CASE text[i] = Mark
    <3>1. x = Closed(text, w, i, ValueAt(text, w, i))
      BY <1>5, <2>1 DEF WalkStep, ValueAt
    <3>2. ~Opening(w)
      BY <1>5 DEF Opening
    <3>3. QED
      BY <1>3, <2>1, <3>1, <3>2 DEF Closes
  <2>2. CASE text[i] # Mark
    <3>1. x = w
      BY <1>5, <2>2 DEF WalkStep
    <3>2. QED
      BY <1>5, <2>2, <3>1 DEF Stays
  <2>3. QED
    BY <2>1, <2>2
<1>6. CASE w.state = "Digits"
  <2>0. w.state # "Body" /\ w.state # "Value"
    BY <1>6
  <2>1. CASE text[i] \in Digits
    <3>1. x = [w EXCEPT !.digitsEnd = i]
      BY <1>6, <2>0, <2>1, MarkIsNoDigit DEF WalkStep
    <3>2. QED
      BY <1>1, <1>6, <2>1, <3>1 DEF Counts
  <2>2. CASE text[i] = Colon /\ w.digitsEnd > w.start
    <3>1. x = [w EXCEPT !.state = "Value", !.valueStart = i + 1]
      BY <1>6, <2>0, <2>2, MarkIsNoDigit DEF WalkStep
    <3>2. QED
      BY <1>1, <1>6, <2>2, <3>1 DEF Values
  <2>3. CASE text[i] = Mark /\ w.digitsEnd > w.start
    <3>1. x = Closed(text, w, i, ValueAt(text, w, i))
      BY <1>6, <2>0, <2>3, MarkIsNoDigit DEF WalkStep, ValueAt
    <3>2. ~Opening(w)
      BY <1>6, <2>0, <2>3 DEF Opening
    <3>3. QED
      BY <1>3, <2>3, <3>1, <3>2 DEF Closes
  <2>4. CASE text[i] = Mark /\ ~(w.digitsEnd > w.start)
    <3>1. x = Opened(w, i)
      BY <1>6, <2>0, <2>4, MarkIsNoDigit DEF WalkStep, Broken
    <3>2. QED
      BY <1>2, <1>6, <2>4, <3>1 DEF Opens, Opening
  <2>5. CASE text[i] \notin Digits /\ text[i] # Mark /\ ~(text[i] = Colon /\ w.digitsEnd > w.start)
    <3>1. x = [w EXCEPT !.state = "Body"]
      BY <1>6, <2>0, <2>5, MarkIsNoDigit DEF WalkStep, Broken
    <3>2. QED
      BY <1>1, <1>6, <2>5, <3>1 DEF Breaks
  <2>6. QED
    BY <2>1, <2>2, <2>3, <2>4, <2>5
<1>7. QED
  BY <1>1, <1>4, <1>5, <1>6

\* Where the walk stands after k characters: a run is a mark and the digits
\* since, opened where a mark opens one.
Stands(text, walk, w, k) ==
  /\ w.digitsEnd <= k
  /\ w.state = "Value" => w.valueStart > 0
  /\ w.state = "Digits" =>
       /\ w.start \in 1 .. k /\ w.digitsEnd = k /\ RunOf(text, w.start, k)
       /\ Opening(walk[w.start - 1])

LEMMA StandsOn ==
  ASSUME NEW text, NEW walk, NEW k \in Nat, NEW w \in Walkers(text), w = walk[k],
         Stands(text, walk, w, k), NEW x, x = WalkStep(text, w, k + 1)
  PROVE  Stands(text, walk, x, k + 1)
<1> DEFINE i == k + 1
<1>0. k \in Nat /\ i \in Nat /\ k <= i /\ k < i /\ i - 1 = k /\ i \in 1 .. i /\ i > 0 /\ i + 1 > 0
  OBVIOUS
<1>1. w.start \in Nat /\ w.digitsEnd \in Nat /\ w.valueStart \in Nat
  BY DEF Walkers
<1>2. \/ Opens(text, w, x, i) \/ Stays(text, w, x, i) \/ Counts(text, w, x, i)
      \/ Values(text, w, x, i) \/ Closes(text, w, x, i) \/ Breaks(text, w, x, i)
  BY <1>0, StepIs
<1>3. w.digitsEnd <= i
  BY <1>0, <1>1 DEF Stands
<1> HIDE DEF i
<1>4. CASE Opens(text, w, x, i)
  <2>1. /\ text[i] = Mark /\ x.state = "Digits" /\ x.start = i /\ x.digitsEnd = i
        /\ Opening(walk[i - 1])
    BY <1>0, <1>4 DEF Opens
  <2>2. RunOf(text, i, i)
    BY <1>0, <2>1 DEF RunOf
  <2>3. Stands(text, walk, x, i)
    BY <1>0, <2>1, <2>2 DEF Stands
  <2>4. QED
    BY <2>3 DEF i
<1>5. CASE Stays(text, w, x, i)
  <2>1. x.state # "Digits" /\ x = w
    BY <1>5 DEF Stays
  <2>2. Stands(text, walk, x, i)
    BY <1>3, <2>1 DEF Stands
  <2>3. QED
    BY <2>2 DEF i
<1>6. CASE Counts(text, w, x, i)
  <2>1. /\ text[i] \in Digits /\ x.state = "Digits" /\ x.start = w.start /\ x.digitsEnd = i
        /\ w.start \in 1 .. k /\ RunOf(text, w.start, k) /\ Opening(walk[w.start - 1])
    BY <1>6 DEF Counts, Stands
  <2>2. RunOf(text, w.start, i)
    <3>1. \A j \in w.start + 1 .. i : j \in w.start + 1 .. k \/ j = i
      BY <1>0, <2>1
    <3>2. QED
      BY <2>1, <3>1 DEF RunOf
  <2>3. w.start \in 1 .. i
    BY <1>0, <2>1
  <2>4. Stands(text, walk, x, i)
    BY <1>0, <2>1, <2>2, <2>3 DEF Stands
  <2>5. QED
    BY <2>4 DEF i
<1>7. CASE Values(text, w, x, i)
  <2>1. x.state = "Value" /\ x.digitsEnd = w.digitsEnd /\ x.valueStart = i + 1
    BY <1>7 DEF Values
  <2>2. Stands(text, walk, x, i)
    BY <1>0, <1>3, <2>1 DEF Stands
  <2>3. QED
    BY <2>2 DEF i
<1>8. CASE Closes(text, w, x, i) \/ Breaks(text, w, x, i)
  <2>1. x.state = "Body" /\ x.digitsEnd = w.digitsEnd
    BY <1>8 DEF Closes, Breaks
  <2>2. Stands(text, walk, x, i)
    BY <1>3, <2>1 DEF Stands
  <2>3. QED
    BY <2>2 DEF i
<1>9. QED
  BY <1>2, <1>4, <1>5, <1>6, <1>7, <1>8

LEMMA WalkStands ==
  ASSUME NEW text \in Seq(Char), NEW walk, WalksBy(walk, text)
  PROVE  \A k \in 0 .. Len(text) : Stands(text, walk, walk[k], k)
<1> DEFINE n == Len(text)
           G == {k \in 0 .. n : Stands(text, walk, walk[k], k)}
<1>1. n \in Nat /\ \A k \in 0 .. n : walk[k] \in Walkers(text)
  BY WalkTyped
<1>2. 0 \in G
  <2>1. Stands(text, walk, Fresh, 0)
    BY DEF Stands, Fresh
  <2>2. QED
    BY <1>1, <2>1 DEF WalksBy
<1>3. ASSUME NEW k \in 0 .. n - 1, k \in G
      PROVE  k + 1 \in G
  <2>1. /\ walk[k + 1] = WalkStep(text, walk[k], k + 1) /\ k \in 0 .. n /\ k + 1 \in 0 .. n
        /\ k \in Nat
    BY <1>1 DEF WalksBy
  <2>2. Stands(text, walk, walk[k + 1], k + 1)
    BY <1>1, <1>3, <2>1, StandsOn
  <2>3. QED
    BY <2>1, <2>2
<1>4. \A k \in 0 .. n : k \in G
  <2> HIDE DEF G, n
  <2>1. QED
    BY <1>1, <1>2, <1>3, Along
<1>5. QED
  BY <1>4

\* Two texts joined, and what was cut off the second.
Joined(a, b, text) == a \o b = text

LEMMA JoinedIs ==
  ASSUME NEW a \in Seq(Char), NEW b \in Seq(Char), NEW text, Joined(a, b, text)
  PROVE  /\ text \in Seq(Char) /\ Len(a) \in Nat /\ Len(b) \in Nat /\ Len(text) = Len(a) + Len(b)
         /\ \A j \in 1 .. Len(a) : text[j] = a[j]
         /\ \A j \in 1 .. Len(b) : text[Len(a) + j] = b[j]
<1>1. text = a \o b
  BY DEF Joined
<1>2. QED
  BY <1>1, ConcatProperties

\* A part that lies in the first text.
LEMMA SamePart ==
  ASSUME NEW a \in Seq(Char), NEW b \in Seq(Char), NEW text, Joined(a, b, text),
         NEW from \in Nat, from > 0, NEW to \in Int, to <= Len(a)
  PROVE  SubSeq(text, from, to) = SubSeq(a, from, to)
<1>1. /\ text \in Seq(Char) /\ Len(a) \in Nat /\ Len(b) \in Nat /\ Len(text) = Len(a) + Len(b)
      /\ \A j \in 1 .. Len(a) : text[j] = a[j]
  BY JoinedIs
<1>2. \A k \in 1 .. (to - from) + 1 : text[from + k - 1] = a[from + k - 1]
  BY <1>1
<1>3. SubSeq(text, from, to) = [k \in 1 .. (to - from) + 1 |-> text[from + k - 1]]
  BY <1>1
<1>4. SubSeq(a, from, to) = [k \in 1 .. (to - from) + 1 |-> a[from + k - 1]]
  BY <1>1
<1>5. QED
  BY <1>2, <1>3, <1>4

\* A step does not see what follows.
LEMMA SameStep ==
  ASSUME NEW a \in Seq(Char), NEW b \in Seq(Char), NEW text, Joined(a, b, text),
         NEW i \in 1 .. Len(a), NEW w, w.start \in Nat, w.digitsEnd \in Nat, w.digitsEnd <= i - 1,
         w.valueStart \in Nat, w.state = "Value" => w.valueStart > 0
  PROVE  WalkStep(text, w, i) = WalkStep(a, w, i)
<1>0. \A from \in Nat, to \in Int :
        from > 0 /\ to <= Len(a) => SubSeq(text, from, to) = SubSeq(a, from, to)
  BY SamePart
<1>1. /\ Len(a) \in Nat /\ text[i] = a[i] /\ i \in Nat /\ i - 1 \in Int /\ i - 1 <= Len(a)
      /\ w.start + 1 \in Nat /\ w.start + 1 > 0 /\ w.digitsEnd \in Int /\ w.digitsEnd <= Len(a)
  BY JoinedIs
<1>2. SubSeq(text, w.start + 1, w.digitsEnd) = SubSeq(a, w.start + 1, w.digitsEnd)
  BY <1>0, <1>1
<1>3. \A v : Closed(text, w, i, v) = Closed(a, w, i, v)
  BY <1>2 DEF Closed
<1>4. CASE w.state = "Value"
  <2>1. SubSeq(text, w.valueStart, i - 1) = SubSeq(a, w.valueStart, i - 1)
    BY <1>0, <1>1, <1>4
  <2>2. Closed(text, w, i, SubSeq(text, w.valueStart, i - 1)) =
          Closed(a, w, i, SubSeq(a, w.valueStart, i - 1))
    BY <1>3, <2>1
  <2>3. \A t : WalkStep(t, w, i) =
                 IF t[i] = Mark THEN Closed(t, w, i, SubSeq(t, w.valueStart, i - 1)) ELSE w
    BY <1>4 DEF WalkStep
  <2>4. QED
    BY <1>1, <2>2, <2>3
<1>5. CASE w.state # "Value"
  BY <1>1, <1>3, <1>5 DEF WalkStep
<1>6. QED
  BY <1>4, <1>5

\* The walk over a text begins with the walk over its beginning.
LEMMA WalkBegins ==
  ASSUME NEW a \in Seq(Char), NEW b \in Seq(Char), NEW text, Joined(a, b, text),
         NEW walk, WalksBy(walk, text)
  PROVE  walk[Len(a)] = Walk(a)
<1>1. PICK first : WalksBy(first, a) /\ Walk(a) = first[Len(a)]
  BY WalkInSteps
<1> DEFINE n == Len(a)
           G == {k \in 0 .. n : walk[k] = first[k]}
<1>2. n \in Nat /\ text \in Seq(Char) /\ n <= Len(text) /\ Len(text) \in Nat
  BY JoinedIs
<1>3. \A k \in 0 .. n : first[k] \in Walkers(a) /\ Stands(a, first, first[k], k)
  BY <1>1, WalkTyped, WalkStands
<1>4. 0 \in G
  BY <1>1, <1>2 DEF WalksBy
<1>5. ASSUME NEW k \in 0 .. n - 1, k \in G
      PROVE  k + 1 \in G
  <2>1. /\ k \in 0 .. n /\ k + 1 \in 0 .. n /\ k + 1 \in 1 .. n /\ (k + 1) - 1 = k
        /\ k \in 0 .. Len(text) - 1
    BY <1>2
  <2>2. walk[k + 1] = WalkStep(text, walk[k], k + 1) /\ first[k + 1] = WalkStep(a, first[k], k + 1)
    BY <1>1, <2>1 DEF WalksBy
  <2>3. PICK w \in Walkers(a) : w = first[k] /\ w = walk[k] /\ Stands(a, first, w, k)
    BY <1>3, <1>5, <2>1
  <2>4. /\ w.start \in Nat /\ w.digitsEnd \in Nat /\ w.digitsEnd <= (k + 1) - 1
        /\ w.valueStart \in Nat /\ (w.state = "Value" => w.valueStart > 0)
    BY <2>1, <2>3 DEF Walkers, Stands
  <2>5. WalkStep(text, w, k + 1) = WalkStep(a, w, k + 1)
    BY <2>1, <2>4, SameStep
  <2>6. QED
    BY <2>1, <2>2, <2>3, <2>5
<1>6. n \in G
  <2>1. n \in 0 .. n
    BY <1>2
  <2> HIDE DEF G, n
  <2>2. \A k \in 0 .. n : k \in G
    BY <1>2, <1>4, <1>5, Along
  <2>3. QED
    BY <2>1, <2>2
<1>7. QED
  BY <1>1, <1>6

\* Which of them it is.
LEMMA StepOn ==
  ASSUME NEW text, NEW w \in Walkers(text), NEW i \in Nat, NEW x, x = WalkStep(text, w, i)
  PROVE  /\ text[i] = Mark /\ Opening(w) => Opens(text, w, x, i)
         /\ text[i] = Mark /\ ~Opening(w) => Closes(text, w, x, i)
         /\ text[i] # Mark /\ w.state # "Digits" => Stays(text, w, x, i)
         /\ w.state = "Digits" /\ text[i] \in Digits => Counts(text, w, x, i)
         /\ w.state = "Digits" /\ text[i] = Colon /\ w.digitsEnd > w.start => Values(text, w, x, i)
         /\ /\ w.state = "Digits" /\ text[i] \notin Digits /\ text[i] # Mark
            /\ ~(text[i] = Colon /\ w.digitsEnd > w.start)
            => Breaks(text, w, x, i)
<1>1. \/ Opens(text, w, x, i) \/ Stays(text, w, x, i) \/ Counts(text, w, x, i)
      \/ Values(text, w, x, i) \/ Closes(text, w, x, i) \/ Breaks(text, w, x, i)
  BY StepIs
<1>2. /\ Opens(text, w, x, i) => text[i] = Mark /\ Opening(w)
      /\ Closes(text, w, x, i) => text[i] = Mark /\ ~Opening(w)
      /\ Stays(text, w, x, i) => text[i] # Mark /\ w.state # "Digits"
      /\ Counts(text, w, x, i) => w.state = "Digits" /\ text[i] \in Digits
      /\ Values(text, w, x, i) =>
           w.state = "Digits" /\ text[i] = Colon /\ w.digitsEnd > w.start
      /\ Breaks(text, w, x, i) =>
           /\ w.state = "Digits" /\ text[i] \notin Digits /\ text[i] # Mark
           /\ ~(text[i] = Colon /\ w.digitsEnd > w.start)
  BY DEF Opens, Closes, Stays, Counts, Values, Breaks
<1>3. QED
  BY <1>1, <1>2, MarkIsNoDigit

\* One walk m characters behind another, as far as what they are in.
Shifted(w, v, m) ==
  /\ w.state = v.state
  /\ v.state # "Body" => w.start = v.start + m /\ w.digitsEnd = v.digitsEnd + m

LEMMA ShiftedOn ==
  ASSUME NEW text, NEW b, NEW w \in Walkers(text), NEW v \in Walkers(b), NEW m \in Nat,
         NEW i \in Nat, text[m + i] = b[i], Shifted(w, v, m)
  PROVE  Shifted(WalkStep(text, w, m + i), WalkStep(b, v, i), m)
<1> DEFINE x == WalkStep(text, w, m + i)
           y == WalkStep(b, v, i)
           c == b[i]
<1>0. /\ v.start \in Nat /\ v.digitsEnd \in Nat /\ w.start \in Nat /\ w.digitsEnd \in Nat
      /\ v.state \in {"Body", "Digits", "Value"} /\ m + i \in Nat /\ m + i = i + m
  BY DEF Walkers
<1>1. /\ w.state = v.state
      /\ v.state # "Body" => w.start = v.start + m /\ w.digitsEnd = v.digitsEnd + m
  BY DEF Shifted
<1>2. v.state = "Digits" => (w.digitsEnd > w.start <=> v.digitsEnd > v.start)
  BY <1>0, <1>1
<1>3. Opening(w) <=> Opening(v)
  BY <1>1, <1>2 DEF Opening
<1>4. x = WalkStep(text, w, m + i) /\ y = WalkStep(b, v, i) /\ text[m + i] = c /\ b[i] = c
  OBVIOUS
<1> HIDE DEF x, y, c
<1>5. CASE c = Mark /\ Opening(v)
  <2>1. Opens(text, w, x, m + i) /\ Opens(b, v, y, i)
    BY <1>0, <1>3, <1>4, <1>5, StepOn
  <2>2. QED
    BY <1>0, <1>4, <2>1 DEF Opens, Shifted
<1>6. CASE c = Mark /\ ~Opening(v)
  <2>1. Closes(text, w, x, m + i) /\ Closes(b, v, y, i)
    BY <1>0, <1>3, <1>4, <1>6, StepOn
  <2>2. x.state = "Body" /\ y.state = "Body"
    BY <2>1 DEF Closes
  <2>3. QED
    BY <1>4, <2>2 DEF Shifted
<1>7. CASE c # Mark /\ v.state # "Digits"
  <2>1. Stays(text, w, x, m + i) /\ Stays(b, v, y, i)
    BY <1>0, <1>1, <1>4, <1>7, StepOn
  <2>2. QED
    BY <1>4, <2>1 DEF Stays
<1>8. CASE v.state = "Digits" /\ c \in Digits
  <2>1. Counts(text, w, x, m + i) /\ Counts(b, v, y, i)
    BY <1>0, <1>1, <1>4, <1>8, StepOn
  <2>2. QED
    BY <1>0, <1>1, <1>4, <1>8, <2>1 DEF Counts, Shifted
<1>9. CASE v.state = "Digits" /\ c = Colon /\ v.digitsEnd > v.start
  <2>1. Values(text, w, x, m + i) /\ Values(b, v, y, i)
    BY <1>0, <1>1, <1>2, <1>4, <1>9, StepOn
  <2>2. QED
    BY <1>0, <1>1, <1>4, <1>9, <2>1 DEF Values, Shifted
<1>10. CASE /\ v.state = "Digits" /\ c \notin Digits /\ c # Mark
            /\ ~(c = Colon /\ v.digitsEnd > v.start)
  <2>1. Breaks(text, w, x, m + i) /\ Breaks(b, v, y, i)
    BY <1>0, <1>1, <1>2, <1>4, <1>10, StepOn
  <2>2. x.state = "Body" /\ y.state = "Body"
    BY <2>1 DEF Breaks
  <2>3. QED
    BY <1>4, <2>2 DEF Shifted
<1>11. QED
  BY <1>5, <1>6, <1>7, <1>8, <1>9, <1>10

\* What has been found since lies behind the first m characters.
Later(found, before, m) ==
  \A k \in DOMAIN found : found[k] \in ToSet(before) \/ found[k].start > m

LEMMA KeptLater ==
  ASSUME NEW S, NEW found \in Seq(S), NEW form \in S, NEW before, NEW m \in Nat,
         Later(found, before, m), form.start > m
  PROVE  Later(Kept(found, form), before, m)
<1>1. CASE Kept(found, form) = found
  BY <1>1
<1>2. CASE Kept(found, form) = Append(found, form)
  <2> DEFINE more == Append(found, form)
  <2>1. /\ Len(found) \in Nat /\ DOMAIN found = 1 .. Len(found)
        /\ DOMAIN more = 1 .. Len(found) + 1
        /\ \A k \in 1 .. Len(found) : more[k] = found[k]
        /\ more[Len(found) + 1] = form
    BY AppendProperties
  <2> HIDE DEF more
  <2>2. \A k \in DOMAIN more : k \in DOMAIN found \/ k = Len(found) + 1
    BY <2>1
  <2>3. Later(more, before, m)
    BY <2>1, <2>2 DEF Later
  <2>4. QED
    BY <1>2, <2>3 DEF more
<1>3. QED
  BY <1>1, <1>2 DEF Kept

LEMMA LaterOn ==
  ASSUME NEW text, NEW w \in Walkers(text), NEW i \in Nat, NEW x, x = WalkStep(text, w, i),
         NEW before, NEW m \in Nat, Later(w.found, before, m),
         ~Opening(w) => w.start > m
  PROVE  Later(x.found, before, m)
<1>1. CASE Closes(text, w, x, i)
  <2>1. /\ w.start > m /\ w.start \in Nat /\ w.digitsEnd \in Nat /\ w.valueStart \in Nat
        /\ w.found \in Seq(FormsOf(text))
    BY <1>1 DEF Closes, Walkers
  <2> DEFINE value == ValueAt(text, w, i)
             form  == FormIn(text, w.start, i, w.digitsEnd, value)
  <2>2. value \in Inlines(text)
    <3>1. \A from \in Nat, to \in Int :
            SubSeq(text, from, to) \in Inlines(text) /\ <<>> \in Inlines(text)
      BY InlineIs
    <3>2. i - 1 \in Int
      OBVIOUS
    <3>3. QED
      BY <2>1, <3>1, <3>2 DEF ValueAt
  <2> HIDE DEF value
  <2>3. form \in FormsOf(text) /\ form.start > m
    BY <2>1, <2>2, FormIs DEF FormIn
  <2>4. x.found = Kept(w.found, form)
    BY <1>1 DEF Closes, value
  <2> HIDE DEF form
  <2>5. QED
    BY <2>1, <2>3, <2>4, KeptLater
<1>2. CASE ~Closes(text, w, x, i)
  <2>1. x.found = w.found
    BY <1>2, StepIs DEF Opens, Stays, Counts, Values, Breaks
  <2>2. QED
    BY <2>1
<1>3. QED
  BY <1>1, <1>2

\* The walk over the body and what comes goes on like one over what comes, if
\* the body ends in body text, or in a mark that the next one breaks.
LEMMA WalkFollows ==
  ASSUME NEW a \in Seq(Char), NEW b \in Seq(Char), NEW text, Joined(a, b, text),
         NEW walk, WalksBy(walk, text), NEW second, WalksBy(second, b),
         Opening(walk[Len(a)]),
         walk[Len(a)].state # "Body" => Len(b) > 0 /\ b[1] = Mark
  PROVE  /\ Len(b) > 0 => Shifted(walk[Len(text)], second[Len(b)], Len(a))
         /\ \A k \in 0 .. Len(b) : Later(walk[Len(a) + k].found, walk[Len(a)].found, Len(a))
<1> DEFINE m == Len(a)
           n == Len(b)
           base == walk[m]
           Follows(k) ==
             /\ Later(walk[m + k].found, base.found, m)
             /\ k > 0 => /\ Shifted(walk[m + k], second[k], m)
                         /\ walk[m + k].state # "Body" => walk[m + k].start > m
           G == {k \in 0 .. n : Follows(k)}
<1>1. /\ text \in Seq(Char) /\ m \in Nat /\ n \in Nat /\ Len(text) = m + n
      /\ \A j \in 1 .. n : text[m + j] = b[j]
  BY JoinedIs
<1>2. /\ \A k \in 0 .. m + n : walk[k] \in Walkers(text)
      /\ \A k \in 0 .. n : second[k] \in Walkers(b)
  BY <1>1, WalkTyped
<1>3. m + 0 = m /\ m \in 0 .. m + n
  BY <1>1
<1>4. Later(base.found, base.found, m)
  <2>1. \A k \in DOMAIN base.found : base.found[k] \in ToSet(base.found)
    BY DEF ToSet
  <2>2. QED
    BY <2>1 DEF Later
<1>5. 0 \in G
  <2>1. Follows(0)
    BY <1>3, <1>4
  <2>2. QED
    BY <1>1, <2>1
<1>6. ASSUME NEW k \in 0 .. n - 1, k \in G
      PROVE  k + 1 \in G
  <2> DEFINE i == k + 1
             w == walk[m + k]
             v == second[k]
             x == walk[m + i]
             y == second[i]
  <2>1. /\ i \in 1 .. n /\ i \in 0 .. n /\ k \in 0 .. n /\ i \in Nat /\ i > 0 /\ m + i \in Nat
        /\ m + i = (m + k) + 1 /\ m + i > m /\ m + k \in 0 .. Len(text) - 1 /\ m + k \in 0 .. m + n
    BY <1>1
  <2>2. x = WalkStep(text, w, m + i) /\ y = WalkStep(b, v, i)
    <3>1. walk[(m + k) + 1] = WalkStep(text, walk[m + k], (m + k) + 1)
      BY <2>1 DEF WalksBy
    <3>2. QED
      BY <2>1, <3>1 DEF WalksBy
  <2>3. w \in Walkers(text) /\ v \in Walkers(b) /\ text[m + i] = b[i]
    BY <1>1, <1>2, <2>1
  <2>4. Follows(k)
    BY <1>6
  <2>5. k = 0 => w = base /\ v = Fresh /\ Opening(w)
    BY <1>3 DEF WalksBy
  <2>6. Shifted(x, y, m) /\ (x.state # "Body" => x.start > m)
    <3>0. /\ w.state \in {"Body", "Digits", "Value"} /\ w.start \in Nat
      BY <2>3 DEF Walkers
    <3>1. CASE k = 0 /\ b[i] = Mark
      <4>1. Opening(v)
        BY <2>5, <3>1 DEF Fresh, Opening
      <4> HIDE DEF i, w, v, x, y, m
      <4>2. Opens(text, w, x, m + i) /\ Opens(b, v, y, i)
        BY <2>1, <2>2, <2>3, <2>5, <3>1, <4>1, StepOn
      <4>3. x.state = "Digits" /\ x.start = m + i /\ x.digitsEnd = m + i
        BY <4>2 DEF Opens
      <4>4. y.state = "Digits" /\ y.start = i /\ y.digitsEnd = i
        BY <4>2 DEF Opens
      <4>5. m + i = i + m
        BY <1>1, <2>1
      <4>6. QED
        BY <2>1, <4>3, <4>4, <4>5 DEF Shifted
    <3>2. CASE k = 0 /\ b[i] # Mark
      <4>1. v.state = "Body" /\ w.state = "Body"
        BY <1>1, <2>1, <2>5, <3>2 DEF Fresh
      <4>2. w.state # "Digits" /\ v.state # "Digits"
        BY <4>1
      <4> HIDE DEF i, w, v, x, y, m
      <4>3. Stays(text, w, x, m + i) /\ Stays(b, v, y, i)
        BY <2>1, <2>2, <2>3, <3>2, <4>2, StepOn
      <4>4. x.state = "Body" /\ y.state = "Body"
        BY <4>1, <4>3 DEF Stays
      <4>5. QED
        BY <4>4 DEF Shifted
    <3>3. CASE k # 0
      <4>1. Shifted(w, v, m) /\ (w.state # "Body" => w.start > m)
        BY <2>4, <3>3
      <4> HIDE DEF i, w, v, x, y, m, Follows
      <4>2. Shifted(x, y, m)
        BY <1>1, <2>1, <2>2, <2>3, <4>1, ShiftedOn
      <4>3. x.state # "Body" => x.start > m
        <5>1. \/ Opens(text, w, x, m + i) \/ Stays(text, w, x, m + i) \/ Counts(text, w, x, m + i)
              \/ Values(text, w, x, m + i) \/ Closes(text, w, x, m + i)
              \/ Breaks(text, w, x, m + i)
          BY <2>1, <2>2, <2>3, StepIs
        <5>2. Opens(text, w, x, m + i) => x.start > m
          BY <2>1 DEF Opens
        <5>3. Stays(text, w, x, m + i) => x = w
          BY DEF Stays
        <5>4. Counts(text, w, x, m + i) \/ Values(text, w, x, m + i) =>
                x.start = w.start /\ w.state = "Digits"
          BY DEF Counts, Values
        <5>5. Closes(text, w, x, m + i) \/ Breaks(text, w, x, m + i) => x.state = "Body"
          BY DEF Closes, Breaks
        <5>6. QED
          BY <4>1, <5>1, <5>2, <5>3, <5>4, <5>5
      <4>4. QED
        BY <4>2, <4>3
    <3>4. QED
      BY <3>1, <3>2, <3>3
  <2>7. Later(x.found, base.found, m)
    <3>1. Later(w.found, base.found, m)
      BY <2>4
    <3>2. ~Opening(w) => w.start > m
      <4>1. CASE k = 0
        BY <2>5, <4>1
      <4>2. CASE k # 0
        <5>1. w.state # "Body" => w.start > m
          BY <2>4, <4>2
        <5>2. QED
          BY <5>1 DEF Opening
      <4>3. QED
        BY <4>1, <4>2
    <3> HIDE DEF i, w, x, m, base
    <3>3. QED
      BY <1>1, <2>1, <2>2, <2>3, <3>1, <3>2, LaterOn
  <2>8. Follows(i)
    BY <2>6, <2>7
  <2> HIDE DEF Follows
  <2>9. QED
    BY <2>1, <2>8
<1>7. \A k \in 0 .. n : k \in G
  <2> HIDE DEF G, n
  <2>1. QED
    BY <1>1, <1>5, <1>6, Along
<1>8. \A k \in 0 .. n : Follows(k)
  <2> HIDE DEF Follows
  <2>1. QED
    BY <1>7
<1>9. n \in 0 .. n
  BY <1>1
<1>10. QED
  BY <1>1, <1>8, <1>9

\* A held run adds no form.
LEMMA HeldRun ==
  ASSUME NEW a \in Seq(Char), NEW b \in Seq(Char), NEW text, Joined(a, b, text),
         NEW walk, WalksBy(walk, text), Opening(walk[Len(a)]),
         Len(b) > 0, RunOf(b, 1, Len(b))
  PROVE  walk[Len(text)].state = "Digits" /\ walk[Len(text)].found = walk[Len(a)].found
<1> DEFINE m == Len(a)
           n == Len(b)
           base == walk[m]
           Held(k) == /\ walk[m + k].found = base.found
                      /\ k = 0 => walk[m + k] = base
                      /\ k > 0 => walk[m + k].state = "Digits"
           G == {k \in 0 .. n : Held(k)}
<1>1. /\ text \in Seq(Char) /\ m \in Nat /\ n \in Nat /\ Len(text) = m + n
      /\ \A j \in 1 .. n : text[m + j] = b[j]
  BY JoinedIs
<1>2. \A k \in 0 .. m + n : walk[k] \in Walkers(text)
  BY <1>1, WalkTyped
<1>3. 0 \in G
  <2>1. m + 0 = m
    BY <1>1
  <2>2. Held(0)
    BY <2>1
  <2>3. QED
    BY <1>1, <2>2
<1>4. ASSUME NEW k \in 0 .. n - 1, k \in G
      PROVE  k + 1 \in G
  <2> DEFINE i == k + 1
             w == walk[m + k]
             x == walk[m + i]
  <2>1. /\ i \in 1 .. n /\ i \in 0 .. n /\ i > 0 /\ m + i \in Nat /\ m + i = (m + k) + 1
        /\ m + k \in 0 .. Len(text) - 1 /\ m + k \in 0 .. m + n
    BY <1>1
  <2>2. x = WalkStep(text, w, m + i)
    <3>1. walk[(m + k) + 1] = WalkStep(text, walk[m + k], (m + k) + 1)
      BY <2>1 DEF WalksBy
    <3>2. QED
      BY <2>1, <3>1
  <2>3. w \in Walkers(text) /\ text[m + i] = b[i] /\ Held(k)
    BY <1>1, <1>2, <1>4, <2>1
  <2>4. x.state = "Digits" /\ x.found = w.found
    <3>1. CASE k = 0
      <4>1. b[i] = Mark /\ Opening(w)
        BY <2>3, <3>1 DEF RunOf
      <4> HIDE DEF i, w, x, m
      <4>2. Opens(text, w, x, m + i)
        BY <2>1, <2>2, <2>3, <4>1, StepOn
      <4>3. QED
        BY <4>2 DEF Opens
    <3>2. CASE k # 0
      <4>1. b[i] \in Digits /\ w.state = "Digits"
        <5>1. i \in 1 + 1 .. n
          BY <1>1, <2>1, <3>2
        <5>2. QED
          BY <2>3, <3>2, <5>1 DEF RunOf
      <4> HIDE DEF i, w, x, m
      <4>2. Counts(text, w, x, m + i)
        BY <2>1, <2>2, <2>3, <4>1, StepOn
      <4>3. QED
        BY <4>2 DEF Counts
    <3>3. QED
      BY <3>1, <3>2
  <2>5. Held(i)
    BY <2>1, <2>3, <2>4
  <2> HIDE DEF Held
  <2>6. QED
    BY <2>1, <2>5
<1>5. Held(n)
  <2>1. n \in 0 .. n
    BY <1>1
  <2>2. \A k \in 0 .. n : k \in G
    <3> HIDE DEF G, n
    <3>1. QED
      BY <1>1, <1>3, <1>4, Along
  <2>3. QED
    BY <2>1, <2>2
<1>6. QED
  BY <1>1, <1>5

-----------------------------------------------------------------------------
(* The rows handed over *)

RowSet(text) == [number : Numbers(text), value : Inlines(text)]
RowFresh == <<>>

\* What one form does to the rows.
RowStep(rows, form) ==
  IF \E k \in DOMAIN rows : rows[k].number = form.number
  THEN [k \in DOMAIN rows |->
          IF rows[k].number = form.number
          THEN [rows[k] EXCEPT !.value = form.value]
          ELSE rows[k]]
  ELSE Append(rows, [number |-> form.number, value |-> form.value])

RowsFrom(forms) == FoldLeft(LAMBDA rows, form : RowStep(rows, form), RowFresh, forms)

LEMMA RowsAre ==
  ASSUME NEW text
  PROVE  Rows(text) = RowsFrom(Forms(text))
BY DEF Rows, RowsFrom, RowFresh, RowStep

\* The numbers of rows or forms.
NumbersIn(rows) == {rows[k].number : k \in DOMAIN rows}

\* A row keeps its number, and a number without one gets one.
LEMMA RowType ==
  ASSUME NEW text, NEW rows \in Seq(RowSet(text)), NEW form \in FormsOf(text)
  PROVE  /\ RowStep(rows, form) \in Seq(RowSet(text))
         /\ NumbersIn(RowStep(rows, form)) = NumbersIn(rows) \cup {form.number}
<1>1. /\ Len(rows) \in Nat /\ DOMAIN rows = 1 .. Len(rows)
      /\ \A k \in DOMAIN rows : rows[k] \in RowSet(text)
  OBVIOUS
<1>2. form.number \in Numbers(text) /\ form.value \in Inlines(text)
  BY DEF FormsOf
<1>3. CASE \E k \in DOMAIN rows : rows[k].number = form.number
  <2> DEFINE row(k) == IF rows[k].number = form.number
                       THEN [rows[k] EXCEPT !.value = form.value] ELSE rows[k]
             out == [k \in DOMAIN rows |-> row(k)]
  <2>1. RowStep(rows, form) = out
    BY <1>3 DEF RowStep
  <2>2. ASSUME NEW k \in DOMAIN rows
        PROVE  row(k) \in RowSet(text) /\ row(k).number = rows[k].number
    <3>1. rows[k] \in RowSet(text)
      BY <1>1
    <3> PICK r \in RowSet(text) : r = rows[k]
      BY <3>1
    <3>2. [r EXCEPT !.value = form.value] \in RowSet(text)
          /\ [r EXCEPT !.value = form.value].number = r.number
      BY <1>2 DEF RowSet
    <3>3. QED
      BY <3>2
  <2> HIDE DEF row
  <2>3. out \in Seq(RowSet(text)) /\ DOMAIN out = DOMAIN rows
        /\ \A k \in DOMAIN rows : out[k].number = rows[k].number
    BY <1>1, <2>2
  <2> HIDE DEF out
  <2>4. NumbersIn(out) = NumbersIn(rows)
    BY <2>3 DEF NumbersIn
  <2>5. form.number \in NumbersIn(rows)
    BY <1>3 DEF NumbersIn
  <2>6. QED
    BY <2>1, <2>3, <2>4, <2>5
<1>4. CASE ~(\E k \in DOMAIN rows : rows[k].number = form.number)
  <2> DEFINE row == [number |-> form.number, value |-> form.value]
             out == Append(rows, row)
  <2>1. RowStep(rows, form) = out
    BY <1>4 DEF RowStep
  <2>2. row \in RowSet(text) /\ row.number = form.number
    BY <1>2 DEF RowSet
  <2> HIDE DEF row
  <2>3. /\ out \in Seq(RowSet(text)) /\ DOMAIN out = 1 .. Len(rows) + 1
        /\ \A k \in 1 .. Len(rows) : out[k] = rows[k]
        /\ out[Len(rows) + 1] = row
    BY <1>1, <2>2, AppendProperties
  <2> HIDE DEF out
  <2>4. 1 .. Len(rows) + 1 = (1 .. Len(rows)) \cup {Len(rows) + 1}
    BY <1>1
  <2>5. NumbersIn(out) = NumbersIn(rows) \cup {form.number}
    BY <1>1, <2>2, <2>3, <2>4 DEF NumbersIn
  <2>6. QED
    BY <2>1, <2>3, <2>5
<1>5. QED
  BY <1>3, <1>4

\* The rows, one form after the other.
RowsBy(acc, forms) ==
  /\ acc[0] = RowFresh
  /\ \A k \in 0 .. Len(forms) - 1 : acc[k + 1] = RowStep(acc[k], forms[k + 1])

LEMMA RowsInSteps ==
  ASSUME NEW text, NEW forms \in Seq(FormsOf(text))
  PROVE  \E acc : RowsBy(acc, forms) /\ RowsFrom(forms) = acc[Len(forms)]
<1> DEFINE n    == Len(forms)
           Op(a, c) == RowStep(a, c)
           it   == CHOOSE f : f = [s \in SUBSET DOMAIN forms |->
                                     IF s = {} THEN RowFresh ELSE Op(f[s \ {Max(s)}], forms[Max(s)])]
           A    == Seq(RowSet(text))
           step == [i \in 1 .. n |-> [a \in A |-> Op(a, forms[i])]]
           acc  == [k \in 0 .. n |-> it[1 .. k]]
<1>1. RowsFrom(forms) = it[DOMAIN forms]
  BY DEF RowsFrom, FoldLeft, MapThenFoldSet
<1>2. n \in Nat /\ DOMAIN forms = 1 .. n
  BY LenProperties
<1>3. RowFresh \in A /\ \A a \in A, i \in 1 .. n : step[i][a] \in A
  <2>1. RowFresh \in A
    BY DEF RowFresh
  <2>2. \A a \in A, i \in 1 .. n : Op(a, forms[i]) \in A
    BY <1>2, RowType
  <2> HIDE DEF A, Op, n
  <2>3. QED
    BY <2>1, <2>2
<1>4. PICK f \in [SUBSET (1 .. n) -> A] : Recurs(f, n, RowFresh, step)
  <2> HIDE DEF A, step, n
  <2>1. QED
    BY <1>2, <1>3, RecursExists
<1>5. f = [s \in SUBSET (1 .. n) |->
             IF s = {} THEN RowFresh ELSE Op(f[s \ {Max(s)}], forms[Max(s)])]
  <2>1. ASSUME NEW s \in SUBSET (1 .. n), s # {}
        PROVE  step[Max(s)][f[s \ {Max(s)}]] = Op(f[s \ {Max(s)}], forms[Max(s)])
    <3>1. Max(s) \in 1 .. n
      BY <1>2, <2>1, Greatest
    <3>2. f[s \ {Max(s)}] \in A
      BY <1>4
    <3> HIDE DEF A, n, Op
    <3>3. QED
      BY <3>1, <3>2
  <2> HIDE DEF step, Op, n
  <2>2. QED
    BY <1>4, <2>1 DEF Recurs
<1> DEFINE w == [s \in SUBSET (1 .. n) |-> Op(it[s \ {Max(s)}], forms[Max(s)])]
<1>6. it = [s \in SUBSET (1 .. n) |->
             IF s = {} THEN RowFresh ELSE Op(it[s \ {Max(s)}], forms[Max(s)])]
  <2> HIDE DEF Op, n
  <2>1. QED
    BY <1>2, <1>5
<1> DEFINE h == [s \in SUBSET (1 .. n) |->
                   IF s = {} THEN RowFresh ELSE Op(it[s \ {Max(s)}], forms[Max(s)])]
<1>7. it = h
  BY <1>6
<1> HIDE DEF it, Op, n
<1>8. Walks(it, n, RowFresh, w)
  <2>1. \A s \in SUBSET (1 .. n) : h[s] = IF s = {} THEN RowFresh ELSE w[s]
    OBVIOUS
  <2> HIDE DEF h, w
  <2>2. QED
    BY <1>7, <2>1 DEF Walks
<1> HIDE DEF h
<1>9. \A s \in SUBSET (1 .. n) : w[s] = Op(it[s \ {Max(s)}], forms[Max(s)])
  OBVIOUS
<1> HIDE DEF w
<1>10. /\ it[1 .. 0] = RowFresh
       /\ \A k \in 0 .. n - 1 : /\ it[1 .. (k + 1)] = w[1 .. (k + 1)]
                                /\ Max(1 .. (k + 1)) = k + 1
                                /\ (1 .. (k + 1)) \ {k + 1} = 1 .. k
  BY <1>2, <1>8, RecursSteps
<1>11. \A k \in 0 .. n - 1 : it[1 .. (k + 1)] = Op(it[1 .. k], forms[k + 1])
  <2> SUFFICES ASSUME NEW k \in 0 .. n - 1
               PROVE  it[1 .. (k + 1)] = Op(it[1 .. k], forms[k + 1])
    OBVIOUS
  <2>1. 1 .. (k + 1) \in SUBSET (1 .. n)
    BY <1>2
  <2>2. /\ it[1 .. (k + 1)] = w[1 .. (k + 1)] /\ Max(1 .. (k + 1)) = k + 1
        /\ (1 .. (k + 1)) \ {k + 1} = 1 .. k
    BY <1>10
  <2>3. w[1 .. (k + 1)] = Op(it[(1 .. (k + 1)) \ {Max(1 .. (k + 1))}], forms[Max(1 .. (k + 1))])
    BY <1>9, <2>1
  <2>4. QED
    BY <2>2, <2>3
<1>12. /\ acc[0] = RowFresh /\ acc[n] = it[1 .. n]
       /\ \A k \in 0 .. n - 1 : acc[k + 1] = Op(acc[k], forms[k + 1])
  BY <1>2, <1>10, <1>11
<1> HIDE DEF acc
<1>13. QED
  BY <1>1, <1>2, <1>12 DEF n, Op, RowsBy

\* What the walk finds are forms of the text.
LEMMA FormsType ==
  ASSUME NEW text \in Seq(Char)
  PROVE  Forms(text) \in Seq(FormsOf(text))
<1>1. PICK walk : WalksBy(walk, text) /\ Walk(text) = walk[Len(text)]
  BY WalkInSteps
<1>2. Len(text) \in Nat /\ Len(text) \in 0 .. Len(text)
  OBVIOUS
<1>3. PICK w \in Walkers(text) : w = Walk(text)
  BY <1>1, <1>2, WalkTyped
<1>4. /\ w.start \in Nat /\ w.digitsEnd \in Nat /\ w.valueStart \in Nat
      /\ w.found \in Seq(FormsOf(text))
  BY DEF Walkers
<1>5. CASE w.state = "Value"
  <2> DEFINE value == SubSeq(text, w.valueStart, Len(text))
  <2>1. value \in Inlines(text)
    BY <1>2, <1>4, InlineIs
  <2>2. Forms(text) = Closed(text, w, Len(text), value).found
    BY <1>3, <1>5 DEF Forms, Finished
  <2> HIDE DEF value
  <2>3. FormIn(text, w.start, Len(text), w.digitsEnd, value) \in FormsOf(text)
    BY <1>2, <1>4, <2>1, FormIs DEF FormIn
  <2>4. Forms(text) = Kept(w.found, FormIn(text, w.start, Len(text), w.digitsEnd, value))
    BY <2>2 DEF Closed, Walkers, FormIn
  <2>5. QED
    BY <1>4, <2>3, <2>4, KeptIs
<1>6. CASE w.state # "Value"
  <2>1. Forms(text) = w.found
    BY <1>3, <1>6 DEF Forms, Finished
  <2>2. QED
    BY <1>4, <2>1
<1>7. QED
  BY <1>5, <1>6

\* Every form has a row with its number, and every row is of a form.
LEMMA RowsHaveForms ==
  ASSUME NEW text \in Seq(Char)
  PROVE  NumbersIn(Rows(text)) = NumbersIn(Forms(text))
<1> DEFINE forms == Forms(text)
           n == Len(forms)
<1>1. forms \in Seq(FormsOf(text))
  BY FormsType
<1>2. PICK acc : RowsBy(acc, forms) /\ Rows(text) = acc[Len(forms)]
  BY <1>1, RowsInSteps, RowsAre
<1>3. /\ n \in Nat /\ DOMAIN forms = 1 .. n /\ \A k \in 1 .. n : forms[k] \in FormsOf(text)
  BY <1>1
<1> HIDE DEF forms
<1> DEFINE Upto(k) == {forms[j].number : j \in 1 .. k}
           G == {k \in 0 .. n : acc[k] \in Seq(RowSet(text)) /\ NumbersIn(acc[k]) = Upto(k)}
<1>4. 0 \in G
  <2>1. acc[0] = <<>>
    BY <1>2 DEF RowsBy, RowFresh
  <2>2. <<>> \in Seq(RowSet(text)) /\ DOMAIN <<>> = {} /\ 1 .. 0 = {}
    OBVIOUS
  <2>3. NumbersIn(<<>>) = {} /\ Upto(0) = {}
    BY <2>2 DEF NumbersIn
  <2>4. acc[0] \in Seq(RowSet(text)) /\ NumbersIn(acc[0]) = Upto(0)
    BY <2>1, <2>2, <2>3
  <2> HIDE DEF Upto
  <2>5. QED
    BY <1>3, <2>4
<1>5. ASSUME NEW k \in 0 .. n - 1, k \in G
      PROVE  k + 1 \in G
  <2>1. acc[k + 1] = RowStep(acc[k], forms[k + 1]) /\ k + 1 \in 0 .. n /\ k + 1 \in 1 .. n
    BY <1>2, <1>3 DEF RowsBy
  <2>2. acc[k] \in Seq(RowSet(text)) /\ NumbersIn(acc[k]) = Upto(k)
    BY <1>5
  <2>3. forms[k + 1] \in FormsOf(text)
    BY <1>3, <2>1
  <2>4. /\ acc[k + 1] \in Seq(RowSet(text))
        /\ NumbersIn(acc[k + 1]) = NumbersIn(acc[k]) \cup {forms[k + 1].number}
    BY <2>1, <2>2, <2>3, RowType
  <2>5. 1 .. k + 1 = (1 .. k) \cup {k + 1}
    BY <1>3
  <2>6. Upto(k + 1) = Upto(k) \cup {forms[k + 1].number}
    BY <2>5
  <2>7. QED
    BY <2>1, <2>2, <2>4, <2>6
<1>6. n \in G
  <2>1. n \in 0 .. n
    BY <1>3
  <2> HIDE DEF G, n
  <2>2. \A k \in 0 .. n : k \in G
    BY <1>3, <1>4, <1>5, Along
  <2>3. QED
    BY <2>1, <2>2
<1>7. NumbersIn(forms) = Upto(n)
  BY <1>3 DEF NumbersIn
<1>8. QED
  BY <1>2, <1>6, <1>7 DEF forms

-----------------------------------------------------------------------------
(* What is streamed and what is held *)

\* The body ends in body text, or in a mark that the held run breaks; the held
\* run is a mark and digits.
Clean(text, held) ==
  /\ Opening(Walk(text))
  /\ Walk(text).state # "Body" => Len(held) > 0
  /\ Len(held) > 0 => RunOf(held, 1, Len(held))

\* Body and held run are together what was received; what the shell was shown
\* is the body, but for a held run that joins it at the end, which adds no form.
HeldInv ==
  /\ body \in Seq(Char) /\ pending \in Seq(Char) /\ received \in Seq(Char) /\ shown \in Seq(Char)
  /\ Joined(body, pending, received)
  /\ ~active => pending = <<>>
  /\ outcome = "finished" => pending = <<>>
  /\ outcome # "finished" => shown = body
  /\ active /\ ~cut => /\ outcome # "finished" => Clean(body, pending)
                       /\ Forms(body) = Forms(shown)

\* Any run of characters is a text.
LEMMA TextsAre ==
  ASSUME NEW n \in Nat, NEW text \in Texts(n)
  PROVE  text \in Seq(Char)
<1>1. PICK k \in 0 .. n : text \in [1 .. k -> Char]
  BY DEF Texts
<1>2. k \in Nat
  OBVIOUS
<1>3. QED
  BY <1>1, <1>2

\* A text cut in two.
LEMMA SplitAt ==
  ASSUME NEW b \in Seq(Char), NEW h \in 0 .. Len(b)
  PROVE  /\ SubSeq(b, 1, h) \in Seq(Char) /\ SubSeq(b, h + 1, Len(b)) \in Seq(Char)
         /\ Len(SubSeq(b, 1, h)) = h /\ Len(SubSeq(b, h + 1, Len(b))) = Len(b) - h
         /\ Joined(SubSeq(b, 1, h), SubSeq(b, h + 1, Len(b)), b)
<1> DEFINE n == Len(b)
           s == SubSeq(b, 1, h)
           t == SubSeq(b, h + 1, n)
<1>1. n \in Nat /\ h \in Nat /\ h <= n
  OBVIOUS
<1>2. s \in Seq(Char) /\ Len(s) = h /\ \A j \in 1 .. h : s[j] = b[j]
  BY <1>1
<1>3. t \in Seq(Char) /\ Len(t) = n - h /\ \A j \in 1 .. n - h : t[j] = b[h + j]
  BY <1>1
<1> HIDE DEF s, t, n
<1>4. s \o t \in Seq(Char) /\ Len(s \o t) = n
  <2>1. s \o t \in Seq(Char) /\ Len(s \o t) = Len(s) + Len(t)
    BY <1>2, <1>3, ConcatProperties
  <2>2. QED
    BY <1>1, <1>2, <1>3, <2>1
<1>5. \A j \in 1 .. n : (s \o t)[j] = b[j]
  BY <1>1, <1>2, <1>3
<1>6. s \o t = b
  <2>1. Len(b) = n /\ b \in Seq(Char)
    BY DEF n
  <2> PICK joined \in Seq(Char) : joined = s \o t
    BY <1>4
  <2>2. Len(joined) = Len(b) /\ \A j \in 1 .. Len(b) : joined[j] = b[j]
    BY <1>4, <1>5, <2>1
  <2>3. joined = b
    BY <2>2, SeqEqual
  <2>4. QED
    BY <2>3
<1>7. QED
  BY <1>2, <1>3, <1>6 DEF Joined, s, t, n

\* Joining twice.
LEMMA JoinedTwice ==
  ASSUME NEW a \in Seq(Char), NEW s \in Seq(Char), NEW t \in Seq(Char), NEW b \in Seq(Char),
         NEW c \in Seq(Char), NEW text, Joined(a, s, b), Joined(b, t, text), Joined(s, t, c)
  PROVE  Joined(a, c, text)
<1>1. (a \o s) \o t = a \o (s \o t)
  BY ConcatAssociative
<1>2. QED
  BY <1>1 DEF Joined

\* What is joined in two steps was joined to the first text as a whole.
LEMMA JoinsAlike ==
  ASSUME NEW a \in Seq(Char), NEW s \in Seq(Char), NEW t \in Seq(Char)
  PROVE  (a \o s) \o t = a \o (s \o t)
BY ConcatAssociative

LEMMA JoinedOnce ==
  ASSUME NEW a \in Seq(Char), NEW s \in Seq(Char), NEW t \in Seq(Char),
         NEW b, NEW text, NEW front,
         Joined(s, t, b), Joined(a, b, text), Joined(a, s, front)
  PROVE  Joined(front, t, text)
BY JoinsAlike DEF Joined

\* Settled leaves a run at the end, if the walk is in one.
LEMMA SettledIs ==
  ASSUME NEW b \in Seq(Char), NEW second, WalksBy(second, b), Walk(b) = second[Len(b)]
  PROVE  /\ Settled(b) \in 0 .. Len(b)
         /\ Walk(b).state # "Digits" => Settled(b) = Len(b)
         /\ Walk(b).state = "Digits" =>
              /\ Settled(b) = Walk(b).start - 1 /\ Settled(b) < Len(b)
              /\ RunOf(b, Walk(b).start, Len(b))
<1>1. Len(b) \in Nat /\ Len(b) \in 0 .. Len(b)
  OBVIOUS
<1>2. PICK v \in Walkers(b) : v = Walk(b) /\ Stands(b, second, v, Len(b))
  BY <1>1, WalkTyped, WalkStands
<1>3. CASE v.state = "Digits"
  <2>1. v.start \in 1 .. Len(b) /\ RunOf(b, v.start, Len(b))
    BY <1>2, <1>3 DEF Stands
  <2>2. OpenAt(b) = v.start
    BY <1>2, <1>3 DEF OpenAt
  <2>3. Settled(b) = v.start - 1
    BY <2>1, <2>2 DEF Settled
  <2>4. QED
    BY <1>1, <1>2, <1>3, <2>1, <2>3
<1>4. CASE v.state # "Digits"
  <2>1. OpenAt(b) = 0
    BY <1>2, <1>4 DEF OpenAt
  <2>2. QED
    BY <1>1, <1>2, <1>4, <2>1 DEF Settled
<1>5. QED
  BY <1>3, <1>4

\* The rest of a text from where its last run opens is that run.
LEMMA RunIsHeld ==
  ASSUME NEW b \in Seq(Char), NEW s \in 1 .. Len(b), RunOf(b, s, Len(b)), NEW held,
         held = SubSeq(b, (s - 1) + 1, Len(b))
  PROVE  Len(held) > 0 /\ RunOf(held, 1, Len(held))
<1> DEFINE n == Len(b)
<1>1. n \in Nat /\ s \in Nat /\ (s - 1) + 1 = s
  OBVIOUS
<1>2. Len(held) = n - s + 1 /\ \A j \in 1 .. n - s + 1 : held[j] = b[s + j - 1]
  BY <1>1
<1> HIDE DEF n
<1>3. held[1] = b[s] /\ Len(held) > 0
  BY <1>1, <1>2 DEF n
<1>4. \A j \in 1 + 1 .. n - s + 1 : s + j - 1 \in s + 1 .. n /\ held[j] = b[s + j - 1]
  BY <1>1, <1>2
<1>5. QED
  BY <1>2, <1>3, <1>4 DEF RunOf, n

\* At the end of a text in body text, the forms are what the walk has found.
LEMMA FormsFound ==
  ASSUME NEW text, Opening(Walk(text)) \/ Walk(text).state # "Value"
  PROVE  Forms(text) = Walk(text).found
BY DEF Forms, Finished, Opening

\* What push streams leaves the body in body text, or in a mark that what it
\* holds breaks; and what the walk finds in it beside the old forms lies behind
\* the old body.
LEMMA PushCuts ==
  ASSUME NEW a \in Seq(Char), NEW held \in Seq(Char), Clean(a, held),
         NEW b \in Seq(Char), Len(b) >= Len(held), \A j \in 1 .. Len(held) : b[j] = held[j],
         NEW text, Joined(a, b, text), Walk(text).state # "Value",
         NEW next \in Seq(Char), NEW later \in Seq(Char),
         later = SubSeq(b, Settled(b) + 1, Len(b)), Joined(a, SubSeq(b, 1, Settled(b)), next),
         Joined(next, later, text)
  PROVE  /\ Clean(next, later)
         /\ Later(Forms(next), Forms(a), Len(a))
<1> DEFINE m == Len(a)
           n == Len(b)
           hold == Settled(b)
           out == SubSeq(b, 1, hold)
<1>1. /\ text \in Seq(Char) /\ m \in Nat /\ n \in Nat /\ Len(text) = m + n
      /\ \A j \in 1 .. n : text[m + j] = b[j]
  BY JoinedIs
<1>2. PICK walk : WalksBy(walk, text) /\ Walk(text) = walk[Len(text)]
  BY <1>1, WalkInSteps
<1>3. PICK second : WalksBy(second, b) /\ Walk(b) = second[n]
  BY WalkInSteps
<1>4. /\ hold \in 0 .. n
      /\ Walk(b).state # "Digits" => hold = n
      /\ Walk(b).state = "Digits" => /\ hold = Walk(b).start - 1 /\ hold < n
                                     /\ RunOf(b, Walk(b).start, n)
  BY <1>3, SettledIs
<1>5. /\ out \in Seq(Char) /\ Len(out) = hold /\ Len(later) = n - hold
      /\ Joined(out, later, b)
  BY <1>4, SplitAt
<1>6. Joined(a, out, next)
  OBVIOUS
<1> HIDE DEF out, hold
<1>7. Len(next) = m + hold /\ Joined(next, later, text)
  BY <1>5, <1>6, JoinedIs
<1>8. walk[m] = Walk(a) /\ walk[m + hold] = Walk(next)
  BY <1>2, <1>7, WalkBegins
<1>9. Opening(walk[m]) /\ (walk[m].state # "Body" => n > 0 /\ b[1] = Mark)
  <2>1. Opening(Walk(a))
    BY DEF Clean
  <2>2. Walk(a).state # "Body" => Len(held) > 0 /\ held[1] = Mark
    BY DEF Clean, RunOf
  <2>3. Len(held) \in Nat
    OBVIOUS
  <2>4. Len(held) > 0 => b[1] = held[1] /\ n > 0
    BY <1>1, <2>3
  <2>5. QED
    BY <1>8, <2>1, <2>2, <2>4
<1>10. /\ n > 0 => Shifted(walk[Len(text)], second[n], m)
       /\ \A k \in 0 .. n : Later(walk[m + k].found, walk[m].found, m)
  BY <1>2, <1>3, <1>9, WalkFollows
<1>11. Len(text) \in 0 .. Len(text)
  BY <1>1
<1>12. PICK w \in Walkers(text) :
         w = walk[Len(text)] /\ w = Walk(text) /\ Stands(text, walk, w, Len(text))
  BY <1>1, <1>2, <1>11, WalkTyped, WalkStands
<1>13. PICK v \in Walkers(b) : v = second[n] /\ v = Walk(b)
  <2>1. n \in 0 .. n
    BY <1>1
  <2>2. QED
    BY <1>3, <2>1, WalkTyped
<1>14. w.state \in {"Body", "Digits", "Value"} /\ w.state # "Value" /\ v.start \in Nat
  BY <1>12 DEF Walkers
<1>15. Clean(next, later)
  <2>1. CASE v.state = "Digits"
    <3>1. hold = v.start - 1 /\ hold < n /\ RunOf(b, v.start, n) /\ n > 0
      BY <1>1, <1>4, <1>13, <2>1
    <3>2. w.state = "Digits" /\ w.start = v.start + m
      BY <1>10, <1>12, <1>13, <2>1, <3>1 DEF Shifted
    <3>3. Opening(walk[w.start - 1])
      BY <1>12, <3>2 DEF Stands
    <3>4. w.start - 1 = m + hold
      BY <1>1, <1>4, <1>14, <3>1, <3>2
    <3>5. Opening(Walk(next))
      BY <1>8, <3>3, <3>4
    <3>6. Len(later) > 0 /\ RunOf(later, 1, Len(later))
      <4>1. later = SubSeq(b, hold + 1, n)
        BY DEF hold
      <4>2. later = SubSeq(b, (v.start - 1) + 1, n)
        BY <3>1, <4>1
      <4> HIDE DEF n
      <4>3. v.start \in 1 .. n
        <5>1. hold \in 0 .. n /\ n \in Nat
          BY <1>1, <1>4
        <5>2. hold = v.start - 1 /\ hold < n /\ v.start \in Nat
          BY <1>14, <3>1
        <5>3. QED
          BY <5>1, <5>2
      <4>4. QED
        BY <3>1, <4>2, <4>3, RunIsHeld DEF n
    <3>7. QED
      BY <3>5, <3>6 DEF Clean
  <2>2. CASE v.state # "Digits"
    <3>1. hold = n /\ m + hold = Len(text) /\ Len(later) = 0
      <4> HIDE DEF m, n
      <4>1. hold = n
        BY <1>4, <1>13, <2>2
      <4>2. QED
        BY <1>1, <1>5, <4>1
    <3>2. Walk(next) = w
      BY <1>8, <1>12, <3>1
    <3>3. w.state = "Body"
      <4>1. CASE n > 0
        BY <1>10, <1>12, <1>13, <1>14, <2>2, <4>1 DEF Shifted
      <4>2. CASE n = 0
        <5>1. w = walk[m]
          <6> HIDE DEF m, n
          <6>1. Len(text) = m
            BY <1>1, <4>2
          <6>2. QED
            BY <1>12, <6>1
        <5>2. QED
          BY <1>9, <4>2, <5>1
      <4>3. QED
        BY <1>1, <4>1, <4>2
    <3>4. Opening(Walk(next))
      BY <3>2, <3>3 DEF Opening
    <3>5. ~(Len(later) > 0)
      BY <3>1
    <3>6. QED
      BY <3>2, <3>3, <3>4, <3>5 DEF Clean
  <2>3. QED
    BY <2>1, <2>2
<1>16. Later(Forms(next), Forms(a), m)
  <2>1. Opening(Walk(a)) /\ Opening(Walk(next))
    BY <1>15 DEF Clean
  <2>2. Forms(a) = walk[m].found /\ Forms(next) = walk[m + hold].found
    BY <1>8, <2>1, FormsFound
  <2>3. QED
    BY <1>4, <1>10, <2>2
<1>17. QED
  BY <1>15, <1>16

\* A held run that joins the body adds no form.
LEMMA HeldAddsNoForm ==
  ASSUME NEW a \in Seq(Char), NEW held \in Seq(Char), Clean(a, held), NEW text,
         Joined(a, held, text)
  PROVE  Forms(text) = Forms(a)
<1>1. Opening(Walk(a)) /\ text \in Seq(Char) /\ Len(held) \in Nat
  BY JoinedIs DEF Clean
<1>2. CASE Len(held) > 0
  <2>1. RunOf(held, 1, Len(held))
    BY <1>2 DEF Clean
  <2>2. PICK walk : WalksBy(walk, text) /\ Walk(text) = walk[Len(text)]
    BY <1>1, WalkInSteps
  <2>3. walk[Len(a)] = Walk(a)
    BY <2>2, WalkBegins
  <2>4. Walk(text).state = "Digits" /\ Walk(text).found = Walk(a).found
    BY <1>1, <1>2, <2>1, <2>2, <2>3, HeldRun
  <2>5. Forms(text) = Walk(text).found
    BY <2>4, FormsFound
  <2>6. Forms(a) = Walk(a).found
    BY <1>1, FormsFound
  <2>7. QED
    BY <2>4, <2>5, <2>6
<1>3. CASE ~(Len(held) > 0)
  <2>1. held = <<>>
    BY <1>1, <1>3
  <2>2. a \o <<>> = a
    OBVIOUS
  <2>3. text = a
    BY <2>1, <2>2 DEF Joined
  <2>4. QED
    BY <2>3
<1>4. QED
  BY <1>2, <1>3

\* What a push does to the state, with its buffer and what it cuts off by name.
LEMMA PushIs ==
  ASSUME NEW delta, Push(delta), NEW b, b = pending \o delta
  PROVE  /\ outcome = "streaming" /\ outcome' = outcome /\ active' = active
         /\ Joined(received, delta, received')
         /\ active => /\ Joined(body, SubSeq(b, 1, Settled(b)), body')
                      /\ pending' = SubSeq(b, Settled(b) + 1, Len(b))
         /\ ~active => body' = body \o delta /\ pending' = pending
         /\ shown = body => shown' = body'
         /\ ~cut' => ~cut /\ Walk(received').state # "Value"
BY DEF Push, Joined

\* A push keeps the invariant, and adds only forms behind the old body.
LEMMA PushKeeps ==
  ASSUME HeldInv, NEW delta \in Texts(MaxDelta), Push(delta)
  PROVE  /\ HeldInv' /\ Len(body') >= Len(body)
         /\ active /\ ~cut' => Later(Forms(body'), Forms(body), Len(body))
<1>1. delta \in Seq(Char)
  BY TextsAre, PrefillAssumption
<1>2. PICK b \in Seq(Char) : b = pending \o delta
  <2>1. pending \in Seq(Char)
    BY DEF HeldInv
  <2>2. pending \o delta \in Seq(Char)
    BY <1>1, <2>1, ConcatProperties
  <2>3. QED
    BY <2>2
<1>3. /\ outcome = "streaming" /\ outcome' = "streaming" /\ active' = active
      /\ Joined(received, delta, received')
      /\ active => /\ Joined(body, SubSeq(b, 1, Settled(b)), body')
                   /\ pending' = SubSeq(b, Settled(b) + 1, Len(b))
      /\ ~active => body' = body \o delta /\ pending' = pending
      /\ shown = body => shown' = body'
      /\ ~cut' => ~cut /\ Walk(received').state # "Value"
  BY <1>2, PushIs
<1>4. /\ body \in Seq(Char) /\ pending \in Seq(Char) /\ received \in Seq(Char)
      /\ Joined(body, pending, received) /\ shown = body /\ shown' = body'
      /\ ~active => pending = <<>>
      /\ active /\ ~cut => Clean(body, pending)
  BY <1>3 DEF HeldInv
<1>5. received' \in Seq(Char)
  BY <1>1, <1>3, <1>4, JoinedIs
<1>6. Joined(pending, delta, b)
  BY <1>2 DEF Joined
<1>7. Joined(body, b, received')
  BY <1>1, <1>3, <1>4, <1>6, JoinedTwice
<1>8. Len(b) >= Len(pending) /\ \A j \in 1 .. Len(pending) : b[j] = pending[j]
  <2>1. /\ Len(pending) \in Nat /\ Len(delta) \in Nat /\ Len(b) = Len(pending) + Len(delta)
        /\ \A j \in 1 .. Len(pending) : b[j] = pending[j]
    BY <1>1, <1>4, <1>6, JoinedIs
  <2>2. QED
    BY <2>1
<1>9. CASE ~active
  <2>1. pending = <<>> /\ pending' = <<>> /\ body' = body \o delta
    BY <1>3, <1>4, <1>9
  <2>2. b = delta /\ received' = body'
    <3>1. b = delta
      BY <1>1, <1>2, <2>1
    <3>2. QED
      BY <1>7, <2>1, <3>1 DEF Joined
  <2>3. Joined(body', pending', received')
    BY <1>5, <2>1, <2>2 DEF Joined
  <2>4. body' \in Seq(Char) /\ pending' \in Seq(Char)
    BY <1>5, <2>1, <2>2
  <2>5. Len(body') >= Len(body)
    <3>1. Joined(body, delta, body')
      BY <2>1 DEF Joined
    <3>2. Len(body') = Len(body) + Len(delta) /\ Len(body) \in Nat /\ Len(delta) \in Nat
      BY <1>1, <1>4, <3>1, JoinedIs
    <3>3. QED
      BY <3>2
  <2>6. HeldInv'
    BY <1>3, <1>4, <1>5, <1>9, <2>1, <2>3, <2>4 DEF HeldInv
  <2>7. QED
    BY <1>9, <2>5, <2>6
<1>10. CASE active
  <2>1. PICK second : WalksBy(second, b) /\ Walk(b) = second[Len(b)]
    BY WalkInSteps
  <2>2. Settled(b) \in 0 .. Len(b)
    BY <2>1, SettledIs
  <2>3. PICK out \in Seq(Char), later \in Seq(Char) :
          /\ out = SubSeq(b, 1, Settled(b)) /\ later = SubSeq(b, Settled(b) + 1, Len(b))
          /\ Joined(out, later, b)
    BY <2>2, SplitAt
  <2>4. Joined(body, out, body') /\ pending' = later
    BY <1>3, <1>10, <2>3
  <2>5. body' \in Seq(Char) /\ pending' \in Seq(Char)
    BY <1>4, <2>3, <2>4, JoinedIs
  <2>6. Joined(body', pending', received')
    <3>1. Joined(body', later, received')
      <4>1. body \in Seq(Char) /\ Joined(body, b, received')
        BY <1>4, <1>7
      <4>2. Joined(out, later, b) /\ Joined(body, out, body')
        BY <2>3, <2>4
      <4>3. QED
        BY <4>1, <4>2, JoinedOnce
    <3>2. QED
      BY <2>4, <3>1
  <2>7. ~cut' => /\ Clean(body', pending')
                 /\ Later(Forms(body'), Forms(body), Len(body))
    <3> SUFFICES ASSUME ~cut'
                 PROVE  Clean(body', pending') /\ Later(Forms(body'), Forms(body), Len(body))
      OBVIOUS
    <3>1. Clean(body, pending) /\ Walk(received').state # "Value"
      BY <1>3, <1>4, <1>10
    <3>2. pending' = SubSeq(b, Settled(b) + 1, Len(b)) /\ Joined(body, SubSeq(b, 1, Settled(b)), body')
      BY <1>3, <1>10
    <3>3. QED
      BY <1>4, <1>7, <1>8, <2>5, <2>6, <3>1, <3>2, PushCuts
  <2>8. HeldInv'
    BY <1>3, <1>4, <1>5, <1>10, <2>5, <2>6, <2>7 DEF HeldInv
  <2>9. Len(body') >= Len(body)
    <3>1. Len(body') = Len(body) + Len(out) /\ Len(body) \in Nat /\ Len(out) \in Nat
      BY <1>4, <2>3, <2>4, JoinedIs
    <3>2. QED
      BY <3>1
  <2>10. QED
    BY <2>7, <2>8, <2>9
<1>11. QED
  BY <1>9, <1>10

\* A finish keeps the invariant: the held run joins the body and adds no form.
LEMMA FinishKeeps ==
  ASSUME HeldInv, Finish
  PROVE  HeldInv'
<1>1. /\ outcome = "streaming" /\ outcome' = "finished" /\ active' = active /\ cut' = cut
      /\ body' = body \o pending /\ pending' = <<>> /\ received' = received /\ shown' = shown
  BY DEF Finish
<1>2. /\ body \in Seq(Char) /\ pending \in Seq(Char) /\ received \in Seq(Char)
      /\ shown \in Seq(Char) /\ Joined(body, pending, received) /\ shown = body
      /\ active /\ ~cut => Clean(body, pending)
  BY <1>1 DEF HeldInv
<1>3. body' = received /\ body' \in Seq(Char)
  BY <1>1, <1>2 DEF Joined
<1>4. pending' \in Seq(Char) /\ Joined(body', pending', received')
  <2>1. received \o <<>> = received
    BY <1>2
  <2>2. QED
    BY <1>1, <1>3, <2>1 DEF Joined
<1>5. active /\ ~cut => Forms(body') = Forms(shown)
  <2> SUFFICES ASSUME active, ~cut
               PROVE  Forms(body') = Forms(shown)
    OBVIOUS
  <2>1. Forms(received) = Forms(body)
    BY <1>2, HeldAddsNoForm
  <2>2. QED
    BY <1>2, <1>3, <2>1
<1>6. QED
  BY <1>1, <1>2, <1>3, <1>4, <1>5 DEF HeldInv

\* So every state of a response has the invariant.
LEMMA HeldAlways == Spec => []HeldInv
<1>1. Init => HeldInv
  <2> SUFFICES ASSUME Init
               PROVE  HeldInv
    OBVIOUS
  <2>1. /\ body = <<>> /\ pending = <<>> /\ received = <<>> /\ shown = <<>>
        /\ outcome = "streaming"
    BY DEF Init
  <2>2. PICK empty \in Seq(Char) : empty = <<>> /\ Len(empty) = 0
    <3>1. <<>> \in Seq(Char) /\ Len(<<>>) = 0
      BY EmptySeq
    <3>2. QED
      BY <3>1
  <2>3. Joined(empty, empty, empty)
    BY <2>2 DEF Joined
  <2>4. Clean(empty, empty)
    <3>1. PICK walk : WalksBy(walk, empty) /\ Walk(empty) = walk[Len(empty)]
      BY WalkInSteps
    <3>2. Walk(empty) = Fresh /\ Fresh.state = "Body"
      BY <2>2, <3>1 DEF WalksBy, Fresh
    <3>3. QED
      BY <2>2, <3>2 DEF Clean, Opening
  <2>5. QED
    BY <2>1, <2>2, <2>3, <2>4 DEF HeldInv
<1>2. HeldInv /\ [Next]_vars => HeldInv'
  <2> SUFFICES ASSUME HeldInv, [Next]_vars
               PROVE  HeldInv'
    OBVIOUS
  <2>1. ASSUME NEW delta \in Deltas, Push(delta)
        PROVE  HeldInv'
    BY <2>1, PushKeeps DEF Deltas
  <2>2. CASE Finish
    BY <2>2, FinishKeeps
  <2>3. CASE Abort
    BY <2>3 DEF Abort, HeldInv
  <2>4. CASE UNCHANGED vars
    BY <2>4 DEF vars, HeldInv
  <2>5. QED
    BY <2>1, <2>2, <2>3, <2>4 DEF Next
<1>3. QED
  BY <1>1, <1>2, PTL DEF Spec

-----------------------------------------------------------------------------
(* The theorems *)

\* ScannersAgree for a response of any length: the walk of the engine finds
\* exactly the forms of the grammar, the shell's scanner cuts the text into the
\* same ones, and the split decision and the prompt's injection decision fire
\* on the same strings.
THEOREM AllScannersAgree == Spec => []ScannersAgree
<1>1. HeldInv => ScannersAgree
  <2> SUFFICES ASSUME HeldInv
               PROVE  ScannersAgree
    OBVIOUS
  <2>1. received \in Seq(Char)
    BY DEF HeldInv
  <2>2. QED
    BY <2>1, AllFound, SameForms, SameDecision DEF ScannersAgree
<1>2. QED
  BY <1>1, HeldAlways, PTL

\* NothingLost for a response of any length in deltas of any length: body and
\* held run are together what was received, and the rows handed over have the
\* numbers of the slots in what the shell was shown if no delta ended inside a
\* value.
THEOREM NothingIsLost == Spec => []NothingLost
<1>1. HeldInv => NothingLost
  <2> SUFFICES ASSUME HeldInv
               PROVE  NothingLost
    OBVIOUS
  <2>1. /\ body \in Seq(Char) /\ received \in Seq(Char) /\ shown \in Seq(Char)
        /\ Joined(body, pending, received)
        /\ outcome = "finished" => pending = <<>>
        /\ active /\ ~cut => Forms(body) = Forms(shown)
    BY DEF HeldInv
  <2>2. body \o pending = received
    BY <2>1 DEF Joined
  <2>3. outcome = "finished" => body = received
    BY <2>1, <2>2
  <2>4. active /\ ~cut => NumbersIn(Prefills) = NumbersIn(ShellForms(shown))
    <3>1. NumbersIn(Rows(body)) = NumbersIn(Forms(body))
      BY <2>1, RowsHaveForms
    <3>2. ShellForms(shown) = Forms(shown)
      BY <2>1, SameForms
    <3>3. QED
      BY <2>1, <3>1, <3>2 DEF Prefills
  <2>5. QED
    BY <2>2, <2>3, <2>4 DEF NothingLost, NumbersIn
<1>2. QED
  BY <1>1, HeldAlways, PTL

\* NoFlash: until a delta ends inside a value, a push adds only forms that lie
\* behind what was shown, so what the user has read as body text stays body
\* text.
THEOREM NothingFlashes == Spec => NoFlash
<1> DEFINE Quiet == active /\ ~cut' => Literal(shown) \subseteq Literal(shown')
<1>1. HeldInv /\ [Next]_vars => Quiet \/ UNCHANGED vars
  <2> SUFFICES ASSUME HeldInv, [Next]_vars, active, ~cut', shown' # shown,
                      NEW i \in Literal(shown)
               PROVE  i \in Literal(shown')
    BY DEF Literal
  <2>1. PICK delta \in Deltas : Push(delta)
    BY DEF Next, Finish, Abort, vars
  <2>2. outcome = "streaming" /\ shown = body /\ shown' = body' /\ body \in Seq(Char)
    <3>1. outcome = "streaming" /\ (shown = body => shown' = body')
      BY <2>1 DEF Push
    <3>2. QED
      BY <3>1 DEF HeldInv
  <2>3. /\ HeldInv' /\ Later(Forms(body'), Forms(body), Len(body))
        /\ Len(body') >= Len(body)
    BY <2>1, PushKeeps DEF Deltas
  <2>4. body' \in Seq(Char)
    BY <2>3 DEF HeldInv
  <2>5. /\ i \in DOMAIN body
        /\ \A form \in ToSet(Forms(body)) : i \notin form.start .. form.end
    <3>1. ShellForms(body) = Forms(body)
      BY <2>2, SameForms
    <3>2. QED
      BY <2>2, <3>1 DEF Literal
  <2>6. i \in Nat /\ i <= Len(body) /\ i \in DOMAIN body'
    <3>1. /\ DOMAIN body = 1 .. Len(body) /\ Len(body) \in Nat
          /\ DOMAIN body' = 1 .. Len(body') /\ Len(body') \in Nat
      BY <2>2, <2>4
    <3>2. QED
      BY <2>3, <2>5, <3>1
  <2>7. ASSUME NEW form \in ToSet(Forms(body')), i \in form.start .. form.end
        PROVE  FALSE
    <3>1. PICK k \in DOMAIN Forms(body') : form = Forms(body')[k]
      BY DEF ToSet
    <3>2. form \in ToSet(Forms(body)) \/ form.start > Len(body)
      BY <2>3, <3>1 DEF Later
    <3>3. form.start \in Nat
      <4>1. Forms(body') \in Seq(FormsOf(body'))
        BY <2>4, FormsType
      <4>2. form \in FormsOf(body')
        BY <3>1, <4>1
      <4>3. QED
        BY <4>2 DEF FormsOf
    <3>4. Len(body) \in Nat
      BY <2>2
    <3>5. QED
      BY <2>5, <2>6, <2>7, <3>2, <3>3, <3>4
  <2>8. ShellForms(body') = Forms(body')
    BY <2>4, SameForms
  <2>9. QED
    BY <2>2, <2>6, <2>7, <2>8 DEF Literal
<1>2. QED
  BY <1>1, HeldAlways, PTL DEF Spec, NoFlash
=============================================================================
