------------------------------ MODULE Prefill ------------------------------
(***************************************************************************)
(* ResponseSplitter (crates/engine/src/prefill.rs): one rectify response   *)
(* streamed under the inline placeholder grammar of Sentinels.  The model  *)
(* cuts its response into deltas wherever it likes; the splitter streams   *)
(* what is settled and holds back a trailing run that may still grow into  *)
(* a placeholder.                                                          *)
(***************************************************************************)
EXTENDS EvalCheck, SseStream

CONSTANTS
  MaxResponse,  \* bound: the length of a response
  MaxDelta,     \* bound: the length of a delta
  WireBound,    \* bound: the length of a response put on the wire
  EvalBound     \* bound: the length of a response or transcript of the eval

ASSUME PrefillAssumption ==
  {MaxResponse, MaxDelta, WireBound, EvalBound} \subseteq Nat

VARIABLES
  active,    \* the request carried placeholders
  body,      \* the committed body
  pending,   \* text not decided yet
  received,  \* every delta so far, for the properties
  shown,     \* what the shell accumulated from the chunks
  cut,       \* a delta has ended inside an inline value
  outcome    \* "streaming", or how the response ended
vars == <<active, body, pending, received, shown, cut, outcome>>

Texts(n) == UNION {[1 .. k -> Char] : k \in 0 .. n}

\* ResponseSplitter::new.
Init ==
  /\ active \in BOOLEAN
  /\ body = <<>> /\ pending = <<>>
  /\ received = <<>> /\ shown = <<>> /\ cut = FALSE
  /\ outcome = "streaming"

FaultySettled(text) == Len(text)

\* How much of a text streams now: all but a trailing unresolved run.
Settled(text) == IF OpenAt(text) = 0 THEN Len(text) ELSE OpenAt(text) - 1

\* push scans the held run with the delta behind it, never the body again.
Push(delta) ==
  LET buffer == pending \o delta
      hold == Settled(buffer)
      out == IF active THEN SubSeq(buffer, 1, hold) ELSE delta
  IN /\ outcome = "streaming"
     /\ received' = received \o delta
     /\ body' = body \o out
     /\ pending' = IF active THEN SubSeq(buffer, hold + 1, Len(buffer))
                   ELSE pending
     /\ shown' = shown \o out
     /\ cut' = (cut \/ Walk(received').state = "Value")
     /\ UNCHANGED <<active, outcome>>

FaultyFinish ==
  /\ outcome = "streaming"
  /\ pending' = <<>>
  /\ outcome' = "finished"
  /\ UNCHANGED <<active, body, received, shown, cut>>

\* End of stream: the held run was never a form and joins the body.
Finish ==
  /\ outcome = "streaming"
  /\ body' = body \o pending
  /\ pending' = <<>>
  /\ outcome' = "finished"
  /\ UNCHANGED <<active, received, shown, cut>>

\* A timeout or a broken stream keeps streamed_body.
Abort ==
  /\ outcome = "streaming"
  /\ outcome' = "aborted"
  /\ UNCHANGED <<active, body, pending, received, shown, cut>>

Deltas == {delta \in Texts(MaxDelta) : Len(received) + Len(delta) <= MaxResponse}

Next == (\E delta \in Deltas : Push(delta)) \/ Finish \/ Abort

Spec == Init /\ [][Next]_vars

-----------------------------------------------------------------------------
\* The rows handed over with the preview; an inactive response has none.
Prefills == IF active THEN Rows(body) ELSE <<>>

\* What the eval's runner collects of a case: the chunks it was sent, and the
\* rows that came before the preview; an aborted response gives it an error.
CaseParts == IF outcome = "finished" THEN {<<shown, Prefills>>} ELSE {}

\* The one-pass walk of the engine finds exactly the forms of the grammar in
\* any text, leftmost first, whatever broken runs, reopened marks, overflowing
\* numbers and unclosed values lie between them (walk_forms).  "The shell's
\* identity set can never disagree with the rows the engine delivered": the
\* shell's scanner cuts every text into the same forms.  The engine's split
\* decision and the prompt's injection decision "must fire on exactly the same
\* strings" (has_placeholders, census_placeholder_numbers).
ScannersAgree ==
  /\ Forms(received) = Leftmost(received)
  /\ ShellForms(received) = Forms(received)
  /\ HasPlaceholders(received) <=> Census(received) # {}
  /\ HasPlaceholders(received) <=> SentinelShapes(received) # <<>>

\* However the response is cut, held and released, the body and the held run
\* are together the response, and a finished one has all of it.  Every slot the
\* shell finds in what it was shown has its row in the table handed over with
\* the preview, and no row is without a slot, also when a held run joined the
\* body unseen; that short of a cut inside a value.
NothingLost ==
  /\ body \o pending = received
  /\ outcome = "finished" => body = received
  /\ active /\ outcome # "streaming" /\ ~cut =>
       LET numbers(rows) == {rows[k].number : k \in DOMAIN rows}
       IN numbers(Prefills) = numbers(ShellForms(shown))

\* Characters of a text that no form covers: what the shell's scanner leaves
\* on its surface as body text.
Literal(text) ==
  DOMAIN text \ UNION {form.start .. form.end : form \in ToSet(ShellForms(text))}

\* A character the user has read as body text never becomes part of a
\* placeholder, short of such a cut: no fragment of a mark and digits flashes
\* on the surface.
NoFlash == [][active /\ ~cut' => Literal(shown) \subseteq Literal(shown')]_vars

\* The deltas of a body cut anywhere on the wire add up to the response, in
\* each of the three formats, and thinking never enters it.
WireKeepsTheText ==
  outcome = "finished" /\ Len(received) <= WireBound =>
    \A format \in {"openai_chat", "anthropic", "gemini"}, at \in 0 .. Len(received) :
      WireKeeps(format, SubSeq(received, 1, at), SubSeq(received, at + 1, Len(received)))

\* The eval judges what the stream showed and the rows it brought; that is the
\* verdict on the whole response, although the held run a finish releases is
\* not in the chunks.  And no case its loader lets in is one that even a
\* faithful response fails.
VerdictOfTheStream ==
  Len(received) <= EvalBound =>
    \A parts \in CaseParts :
      /\ active => SameVerdict(parts[1], parts[2], received)
      /\ CasesPass(received)
=============================================================================
