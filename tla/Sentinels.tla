----------------------------- MODULE Sentinels -----------------------------
(***************************************************************************)
(* The placeholder grammar as four functions of a text: the engine's walk  *)
(* (crates/engine/src/prefill.rs), the shell's scan                        *)
(* (app/lib/src/preview/slot_document.dart), and the two censuses that     *)
(* decide whether a request is treated as one with placeholders            *)
(* (prefill.rs and crates/llm/src/prompt.rs).                              *)
(*                                                                         *)
(* A text is a sequence of characters of which the grammar tells apart the *)
(* mark, the colon, the digits and the rest; positions count from 1, so 0  *)
(* stands for None and for Dart's -1.                                      *)
(***************************************************************************)
EXTENDS Naturals, Sequences, SequencesExt

CONSTANT MaxSlotId   \* u32::MAX of the engine, maxSlotId of the shell

ASSUME MaxSlotIdAssumption == MaxSlotId \in Nat

Mark   == "mark"
Colon  == "colon"
Digits == {"0", "1"}
Char   == Digits \cup {Mark, Colon, "x"}

\* The number a digit run parses to; leading zeros fold.
Number(digits) ==
  FoldLeft(LAMBDA n, c : 10 * n + (IF c = "0" THEN 0 ELSE 1), 0, digits)

-----------------------------------------------------------------------------
(* The engine: walk_forms and scan_forms *)

Opened(w, i) == [w EXCEPT !.state = "Digits", !.start = i, !.digitsEnd = i]

\* A number that does not parse drops the form; its text stays body.
Kept(forms, form) == IF form.number > MaxSlotId THEN forms ELSE Append(forms, form)
Closed(text, w, end, value) ==
  [w EXCEPT !.state = "Body",
            !.found = Kept(@, [start |-> w.start, end |-> end,
                               number |-> Number(SubSeq(text, w.start + 1, w.digitsEnd)),
                               value |-> value])]

FaultyBroken(w, c, i) == [w EXCEPT !.state = "Body"]

\* A run that meets anything but its terminators was never a form; a mark
\* among them opens anew.
Broken(w, c, i) == IF c = Mark THEN Opened(w, i) ELSE [w EXCEPT !.state = "Body"]

WalkStep(text, w, i) ==
  LET c == text[i]
      hasDigits == w.digitsEnd > w.start
  IN CASE w.state = "Body" -> IF c = Mark THEN Opened(w, i) ELSE w
       [] w.state = "Value" ->
            IF c = Mark
            THEN Closed(text, w, i, SubSeq(text, w.valueStart, i - 1))
            ELSE w
       [] w.state = "Digits" /\ c \in Digits -> [w EXCEPT !.digitsEnd = i]
       [] w.state = "Digits" /\ c = Colon /\ hasDigits ->
            [w EXCEPT !.state = "Value", !.valueStart = i + 1]
       [] w.state = "Digits" /\ c = Mark /\ hasDigits ->
            Closed(text, w, i, <<>>)
       [] OTHER -> Broken(w, c, i)

Walk(text) ==
  FoldLeftDomain(LAMBDA w, i : WalkStep(text, w, i),
                 [state |-> "Body", start |-> 0, digitsEnd |-> 0,
                  valueStart |-> 0, found |-> <<>>],
                 text)

\* Every form, left to right; an unclosed value runs to the end of the text.
Finished(text, w) ==
  IF w.state = "Value"
  THEN Closed(text, w, Len(text), SubSeq(text, w.valueStart, Len(text)))
  ELSE w
Forms(text) == Finished(text, Walk(text)).found

\* Where the text's trailing unresolved run begins; 0 when there is none.
OpenAt(text) == LET w == Walk(text) IN IF w.state = "Digits" THEN w.start ELSE 0

\* scan_forms: one row per number, in order of first sight, the last value.
Rows(text) ==
  FoldLeft(LAMBDA rows, form :
             IF \E k \in DOMAIN rows : rows[k].number = form.number
             THEN [k \in DOMAIN rows |->
                     IF rows[k].number = form.number
                     THEN [rows[k] EXCEPT !.value = form.value]
                     ELSE rows[k]]
             ELSE Append(rows, [number |-> form.number, value |-> form.value]),
           <<>>, Forms(text))

-----------------------------------------------------------------------------
(* The shell: scanForms *)

FaultyShellClose(text, s, end, unclosed) ==
  Append(s.forms,
         [start |-> s.start, end |-> end,
          number |-> Number(SubSeq(text, s.start + 1, s.digitsEnd)),
          value |-> IF s.valueStart > 0
                    THEN SubSeq(text, s.valueStart, end - 1) ELSE <<>>])

\* The local function close: the value runs to just before the closing mark.
ShellClose(text, s, end, unclosed) ==
  LET inline == s.valueStart > 0
      valueEnd == IF unclosed THEN Len(text) ELSE end - 1
  IN Kept(s.forms,
          [start |-> s.start, end |-> end,
           number |-> Number(SubSeq(text, s.start + 1, s.digitsEnd)),
           value |-> IF inline THEN SubSeq(text, s.valueStart, valueEnd) ELSE <<>>])

ShellStep(text, s, i) ==
  LET c == text[i]
      body == [s EXCEPT !.start = 0, !.valueStart = 0]
      ran == s.start > 0 /\ s.digitsEnd > s.start
  IN IF s.valueStart > 0
     THEN IF c = Mark
          THEN [body EXCEPT !.forms = ShellClose(text, s, i, FALSE)]
          ELSE s
     ELSE CASE s.start > 0 /\ c \in Digits -> [s EXCEPT !.digitsEnd = i]
            [] ran /\ c = Colon -> [s EXCEPT !.valueStart = i + 1]
            [] ran /\ c = Mark -> [body EXCEPT !.forms = ShellClose(text, s, i, FALSE)]
            [] ~ran /\ c = Mark -> [s EXCEPT !.start = i, !.digitsEnd = i]
            [] OTHER -> body

ShellForms(text) ==
  LET s == FoldLeftDomain(LAMBDA acc, i : ShellStep(text, acc, i),
                          [start |-> 0, digitsEnd |-> 0, valueStart |-> 0,
                           forms |-> <<>>],
                          text)
  IN IF s.valueStart > 0 THEN ShellClose(text, s, Len(text), TRUE) ELSE s.forms

-----------------------------------------------------------------------------
(* The censuses: marks around digits, whatever a colon would make of them *)

FaultyMarkPeeked(h) ==
  [hit |-> h.open /\ h.digits > 0, open |-> ~h.open, digits |-> 0]

\* has_placeholders only peeks at the mark that ends a run: short of a hit,
\* the mark opens the next run.
MarkPeeked(h) ==
  [hit |-> h.open /\ h.digits > 0, open |-> TRUE, digits |-> 0]

HasPlaceholders(text) ==
  FoldLeft(LAMBDA h, c :
             IF h.hit THEN h
             ELSE CASE c = Mark -> MarkPeeked(h)
                    [] h.open /\ c \in Digits -> [h EXCEPT !.digits = @ + 1]
                    [] OTHER -> [h EXCEPT !.open = FALSE],
           [hit |-> FALSE, open |-> FALSE, digits |-> 0], text).hit

\* census_placeholder_numbers consumes the mark that closes a shape: it opens
\* no other one.
MarkTaken(n) ==
  IF n.open /\ n.digits # <<>>
  THEN [n EXCEPT !.found = @ \cup {n.digits}, !.open = FALSE]
  ELSE [n EXCEPT !.open = TRUE, !.digits = <<>>]

\* The distinct digit runs between two marks, leading zeros and all.
Census(text) ==
  FoldLeft(LAMBDA n, c :
             CASE c = Mark -> MarkTaken(n)
               [] n.open /\ c \in Digits -> [n EXCEPT !.digits = Append(@, c)]
               [] OTHER -> [n EXCEPT !.open = FALSE],
           [found |-> {}, open |-> FALSE, digits |-> <<>>], text).found

-----------------------------------------------------------------------------
(* What a form is, without a scanner *)

\* text[i .. j] is a mark, one or more digits, then a character of `ends'.
RunEnds(text, i, j, ends) ==
  /\ j > i + 1 /\ text[i] = Mark /\ text[j] \in ends
  /\ \A k \in i + 1 .. j - 1 : text[k] \in Digits

\* Where the form opening at i ends, 0 when none does.
FormEnd(text, i) ==
  LET n == Len(text)
      bare == {j \in i .. n : RunEnds(text, i, j, {Mark})}
      colon == {j \in i .. n : RunEnds(text, i, j, {Colon})}
      closing == {k \in i + 1 .. n : text[k] = Mark}
  IN CASE bare # {} -> CHOOSE j \in bare : TRUE
       [] bare = {} /\ colon # {} ->
            IF closing = {} THEN n
            ELSE CHOOSE k \in closing : \A l \in closing : k <= l
       [] OTHER -> 0

FormAt(text, i) ==
  LET end == FormEnd(text, i)
      last == CHOOSE j \in i + 1 .. end : RunEnds(text, i, j, {Mark, Colon})
      closed == end > last /\ text[end] = Mark
  IN [start |-> i, end |-> end,
      number |-> Number(SubSeq(text, i + 1, last - 1)),
      value |-> SubSeq(text, last + 1, IF closed THEN end - 1 ELSE end)]

\* The leftmost form, then the leftmost of what follows it, and so on.
Leftmost(text) ==
  LET n == Len(text)
      from[i \in 1 .. n + 1] ==
        IF i > n THEN <<>>
        ELSE IF FormEnd(text, i) = 0 THEN from[i + 1]
        ELSE LET form == FormAt(text, i)
             IN (IF form.number > MaxSlotId THEN <<>> ELSE <<form>>)
                \o from[form.end + 1]
  IN from[1]
=============================================================================
