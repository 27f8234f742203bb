----------------------------- MODULE EvalCheck -----------------------------
(***************************************************************************)
(* The fidelity eval's verdict (crates/eval/src/check.rs) and the loader   *)
(* that decides which cases it may be asked about (cases.rs).  A failure   *)
(* is its category and the text or number it is about; its wording and the *)
(* decoration characters of is_wrapped are left out.                       *)
(***************************************************************************)
EXTENDS Sentinels, FiniteSets

Substring(text, sub) ==
  \E i \in 0 .. Len(text) - Len(sub) : SubSeq(text, i + 1, i + Len(sub)) = sub

\* Where sub starts at or after from; 0 when it does not.
FindFrom(text, sub, from) ==
  LET at == {i \in from .. Len(text) - Len(sub) + 1 :
               SubSeq(text, i, i + Len(sub) - 1) = sub}
  IN IF at = {} THEN 0 ELSE CHOOSE i \in at : \A j \in at : i <= j

\* matches().count(): the occurrences of sub that do not overlap.
Matches(text, sub) ==
  LET from[i \in 1 .. Len(text) + 1] ==
        LET at == FindFrom(text, sub, i)
        IN IF at = 0 THEN 0 ELSE 1 + from[at + Len(sub)]
  IN from[1]

-----------------------------------------------------------------------------
(* check.rs: the sentinels of a text *)

\* The bare form of a number.
Bare(number) == <<Mark>> \o (IF number = 0 THEN <<"0">>
                             ELSE IF number = 1 THEN <<"1">>
                             ELSE <<"1", "0">>) \o <<Mark>>

\* collapse_inline_forms: the values leave the body, the numbers stay.
Collapse(text) ==
  LET s == FoldLeft(LAMBDA acc, form :
                      [at |-> form.end + 1,
                       out |-> acc.out \o SubSeq(text, acc.at, form.start - 1)
                               \o Bare(form.number)],
                    [at |-> 1, out |-> <<>>], Forms(text))
  IN s.out \o SubSeq(text, s.at, Len(text))

\* sentinel_counts: how often each digit run stands between two marks; a mark
\* that fails to close one run opens no other.
SentinelShapes(text) ==
  LET n == FoldLeft(
        LAMBDA acc, c :
          CASE acc.open /\ c \in Digits -> [acc EXCEPT !.digits = Append(@, c)]
            [] acc.open /\ c = Mark /\ acc.digits # <<>> ->
                 [acc EXCEPT !.open = FALSE, !.digits = <<>>,
                             !.found = Append(@, acc.digits)]
            [] OTHER -> [acc EXCEPT !.open = c = Mark, !.digits = <<>>],
        [open |-> FALSE, digits |-> <<>>, found |-> <<>>], text)
  IN n.found

-----------------------------------------------------------------------------
(* check_parts *)

Count(shapes, digits) == Cardinality({k \in DOMAIN shapes : shapes[k] = digits})

Fails(category, texts) == {[category |-> category, of |-> text] : text \in texts}

Missing(texts, body) == {text \in ToSet(texts) : ~Substring(body, text)}
Present(texts, body) == {text \in ToSet(texts) : Substring(body, text)}

\* first_out_of_order: the tokens are looked for one behind the other; 0 when
\* one is not found, and none is looked for after it.
OrderedTo(tokens, body) ==
  FoldLeft(LAMBDA at, token :
             LET found == IF at = 0 THEN 0 ELSE FindFrom(body, token, at)
             IN IF found = 0 THEN 0 ELSE found + Len(token),
           1, tokens)

\* check_sentinels: the shapes of the collapsed body are the transcript's, as
\* often as there.
ShapeFailures(pinned, found) ==
  LET fewer == {d \in ToSet(pinned) : Count(found, d) < Count(pinned, d)}
      more == {d \in ToSet(pinned) : Count(found, d) > Count(pinned, d)}
  IN Fails("PreservationFailed", fewer)
     \cup Fails("Fabricated", more \cup (ToSet(found) \ ToSet(pinned)))
SentinelFailures(pinned, body) == ShapeFailures(pinned, SentinelShapes(body))

\* check_pass_through: no form of the raw body carries a value.
PassThroughFailures(rawBody) ==
  Fails("AbsorbFailed", {form.value : form \in {f \in ToSet(Forms(rawBody)) : f.value # <<>>}})

ValueOf(rows, number) ==
  LET of == {k \in DOMAIN rows : rows[k].number = number}
  IN IF of = {} THEN <<>> ELSE rows[CHOOSE k \in of : \A l \in of : k <= l].value

\* An empty alternative demands an empty value.
Hits(value, alternatives) ==
  \E alt \in alternatives : IF alt = <<>> THEN value = <<>> ELSE Substring(value, alt)

AbsorptionFailures(case, body, rows) ==
  Fails("AbsorbFailed", Present(case.absorbed, body))
  \cup Fails("AbsorbFailed", {Bare(e.pin) : e \in {x \in ToSet(case.prefill) :
                                ~Hits(ValueOf(rows, x.pin), x.any)}})

\* The categories one after the other, over the collapsed body.
Failures(case, rawBody, body, rows, pinned) ==
  Fails("PreservationFailed", Missing(case.preserve, body))
  \cup Fails("Lost", {group \in ToSet(case.convey) :
                        \A alt \in group : ~Substring(body, alt)})
  \cup Fails("Fabricated", Present(case.fabricate, body))
  \cup Fails("Residual", Present(case.purge, body))
  \cup Fails("Residual", {text \in ToSet(case.max_once) : Matches(body, text) > 1})
  \cup Fails("OverRectified", IF OrderedTo(case.order, body) = 0
                              THEN {case.order} ELSE {})
  \cup SentinelFailures(pinned, body)
  \cup IF case.pass_through THEN PassThroughFailures(rawBody)
       ELSE AbsorptionFailures(case, body, rows)

CheckParts(case, rawBody, rows, pinned) ==
  Failures(case, rawBody, Collapse(rawBody), rows, pinned)

\* check: a whole response through the engine's splitter, in one delta.
CheckPinned(case, output, pinned) ==
  CheckParts(case, output, IF pinned = <<>> THEN <<>> ELSE Rows(output), pinned)
Check(case, output) == CheckPinned(case, output, SentinelShapes(case.transcript))

-----------------------------------------------------------------------------
(* cases.rs: what parse_suite refuses of one case *)

Pins(transcript) == {Number(digits) : digits \in ToSet(SentinelShapes(transcript))}

FaultyFormsFit(case) ==
  /\ \A e \in ToSet(case.prefill) : e.any # {} /\ e.pin \in Pins(case.transcript)
  /\ case.pass_through => Pins(case.transcript) # {} /\ case.absorbed = <<>>

\* Prefill expectations are about sentinels the transcript carries, and a
\* pass-through case has some, absorbs nothing and expects no value.
FormsFit(case) ==
  /\ \A e \in ToSet(case.prefill) : e.any # {} /\ e.pin \in Pins(case.transcript)
  /\ case.pass_through =>
       /\ Pins(case.transcript) # {} /\ case.absorbed = <<>>
       /\ \A e \in ToSet(case.prefill) : e.any = {<<>>}

\* Trimmed, a case has a transcript, no empty group, and something to assert.
Loads(case) ==
  /\ case.transcript # <<>>
  /\ {} \notin ToSet(case.convey)
  /\ case.placeholder => Pins(case.transcript) # {}
  /\ FormsFit(case)
  /\ \/ case.preserve \o case.convey \o case.fabricate \o case.purge # <<>>
     \/ case.max_once \o case.order \o case.absorbed # <<>>
     \/ case.prefill # <<>> \/ Pins(case.transcript) # {}

-----------------------------------------------------------------------------
(* For the properties *)

NoLists == [preserve |-> <<>>, convey |-> <<>>, fabricate |-> <<>>, purge |-> <<>>,
            max_once |-> <<>>, order |-> <<>>, absorbed |-> <<>>]

\* The cases of a transcript that assert nothing but placeholders and text to
\* be absorbed, one expectation at the most.
PlaceholderCases(transcript) ==
  {[transcript |-> transcript, placeholder |-> TRUE, pass_through |-> pass,
    absorbed |-> absorbed, prefill |-> prefill] @@ NoLists :
     pass \in BOOLEAN, absorbed \in {<<>>, << <<"x">> >>},
     prefill \in {<<>>} \cup {<<[pin |-> pin, any |-> any]>> :
                                pin \in 0 .. 1, any \in SUBSET {<<>>, <<"x">>}}}

\* A transcript as the engine writes one: bare forms only, each number in the
\* digits it prints as.
Canonical(transcript) ==
  /\ Colon \notin ToSet(transcript)
  /\ \A d \in ToSet(SentinelShapes(transcript)) :
       Number(d) <= MaxSlotId /\ Bare(Number(d)) = <<Mark>> \o d \o <<Mark>>

Absorbed(case) == IF case.absorbed = <<>> THEN case.transcript
                  ELSE SelectSeq(case.transcript, LAMBDA c : c # "x")

\* The response that changes nothing but what a case asks for: text to be
\* absorbed is gone, and the last form of an expected number has its value.
Valued(case, text, forms) ==
  LET valued == {k \in DOMAIN forms : \E e \in ToSet(case.prefill) :
                                        e.pin = forms[k].number /\ <<>> \notin e.any}
      at == forms[CHOOSE k \in valued : \A l \in valued : k >= l].end
  IN IF valued = {} THEN text
     ELSE SubSeq(text, 1, at - 1) \o <<Colon, "x">> \o SubSeq(text, at, Len(text))
Faithful(case, text) == Valued(case, text, Forms(text))

\* Every case the loader lets in, some response can pass.
CasesPass(transcript) ==
  Canonical(transcript) =>
    \A case \in PlaceholderCases(transcript) :
      Loads(case) /\ SentinelShapes(Absorbed(case)) = SentinelShapes(transcript)
        => Check(case, Faithful(case, Absorbed(case))) = {}

\* No digit run is beyond the slots.
NoOverflow(text) ==
  \A i \in DOMAIN text : \A j \in i .. Len(text) :
    ToSet(SubSeq(text, i, j)) \subseteq Digits => Number(SubSeq(text, i, j)) <= MaxSlotId

\* One case that wants a value for number 1 and text gone, one that wants the
\* bare form.
Judges == {[transcript |-> Bare(1), placeholder |-> TRUE, pass_through |-> pass,
            absorbed |-> IF pass THEN <<>> ELSE << <<"x">> >>,
            prefill |-> IF pass THEN <<>> ELSE <<[pin |-> 1, any |-> {<<"x">>}]>>]
           @@ NoLists : pass \in BOOLEAN}

\* The verdict on the streamed parts is the verdict on the whole response, and
\* it finds the sentinels right exactly when the engine's forms are the
\* transcript's.
FindsForms(failures, forms) ==
  failures = {} <=> [k \in DOMAIN forms |-> forms[k].number] = <<1>>

SameVerdict(body, rows, response) ==
  \A case \in Judges : \E pinned \in {SentinelShapes(case.transcript)} :
    /\ CheckParts(case, body, rows, pinned) = CheckPinned(case, response, pinned)
    /\ NoOverflow(response) =>
         FindsForms(SentinelFailures(pinned, Collapse(body)), Forms(response))
=============================================================================
