----------------------------- MODULE SseStream -----------------------------
(***************************************************************************)
(* A rectify response on the wire (crates/llm/src/client.rs, anthropic.rs, *)
(* gemini.rs): the body arrives in chunks cut anywhere, the decoder of     *)
(* server-sent events puts lines and events together again, and the        *)
(* dialect of the connection's format reads each event's payload.          *)
(*                                                                         *)
(* A byte is a character, one of the three bytes of the mark, or a token   *)
(* that stands for a run of bytes no property tells apart: "data:", and in *)
(* a payload the name of a field, which its text follows.                  *)
(***************************************************************************)
EXTENDS Naturals, Sequences, SequencesExt, FiniteSets

Encoded(text) ==
  FlattenSeq([i \in DOMAIN text |-> IF text[i] = "mark" THEN <<"e2", "80", "a1">>
                                    ELSE <<text[i]>>])

\* from_utf8_lossy of a line; bytes that are no character become U+FFFD.
Lossy(bytes) ==
  FoldLeft(LAMBDA s, b :
             LET n == Len(s)
             IN IF b = "a1" /\ n > 1 /\ s[n] = "80" /\ s[n - 1] = "e2"
                THEN Append(SubSeq(s, 1, n - 2), "mark") ELSE Append(s, b),
           <<>>, bytes)

-----------------------------------------------------------------------------
(* SseDecoder *)

Decoder == [buf |-> <<>>, lines |-> <<>>, events |-> <<>>]

\* take_event: the data lines of one event, joined.
TakeEvent(d) ==
  IF d.lines = <<>> THEN d
  ELSE [d EXCEPT !.lines = <<>>, !.events = Append(@, FlattenSeq(d.lines))]

Chomped(line) ==
  IF line # <<>> /\ Last(line) = "cr" THEN Front(line) ELSE line

\* A blank line ends the event; data lines pile up; other fields and comments
\* are ignored.
Line(d, line) ==
  CASE line = <<>> -> TakeEvent(d)
    [] line # <<>> /\ line[1] = "data:" ->
         LET payload == Tail(line)
         IN [d EXCEPT !.lines = Append(@, IF payload # <<>> /\ payload[1] = "sp"
                                          THEN Tail(payload) ELSE payload)]
    [] OTHER -> d

FaultyFeed(d, chunk) ==
  FoldLeft(LAMBDA e, b :
             IF b = "lf" THEN Line([e EXCEPT !.buf = <<>>], Lossy(Chomped(e.buf)))
             ELSE [e EXCEPT !.buf = Append(@, b)],
           [d EXCEPT !.events = <<>>, !.buf = <<>>], chunk)

\* The events a chunk completes; the unfinished line waits in the buffer.
Feed(d, chunk) ==
  FoldLeft(LAMBDA e, b :
             IF b = "lf" THEN Line([e EXCEPT !.buf = <<>>], Lossy(Chomped(e.buf)))
             ELSE [e EXCEPT !.buf = Append(@, b)],
           [d EXCEPT !.events = <<>>], chunk)

\* The body ended: an unfinished line is dropped, an unfinished event is not.
FinishDecoding(d) == TakeEvent([d EXCEPT !.buf = <<>>, !.events = <<>>])

-----------------------------------------------------------------------------
(* The dialects *)

FieldNames == {"content", "reasoning", "reasoning_content", "text", "thinking",
               "thought", "kind", "error"}

\* Every field of a payload with its text, in order.
Fields(payload) ==
  FoldLeft(LAMBDA fs, b :
             IF b \in FieldNames THEN Append(fs, [name |-> b, text |-> <<>>])
             ELSE [fs EXCEPT ![Len(fs)].text = Append(@, b)],
           <<>>, payload)

\* The text of every field of the name, one after the other.
Text(payload, name) ==
  FoldLeft(LAMBDA acc, f : IF f.name = name THEN acc \o f.text ELSE acc,
           <<>>, Fields(payload))

Has(payload, name) == \E f \in ToSet(Fields(payload)) : f.name = name

Parsed(content, reasoning) ==
  [content |-> content, reasoning |-> reasoning, ends |-> "no"]
Nothing == Parsed(<<>>, <<>>)
Ends(how) == [Nothing EXCEPT !.ends = how]

\* One delta may carry both channels; the thinking channel has two names, of
\* which the newer one wins.
ParseOpenaiChat(data) ==
  CASE data = <<>> -> Nothing
    [] data = <<"[DONE]">> -> Ends("done")
    [] data \notin {<<>>, <<"[DONE]">>} /\ data[1] \notin FieldNames -> Ends("failed")
    [] Has(data, "error") -> Ends("failed")
    [] OTHER -> Parsed(Text(data, "content"),
                       IF Has(data, "reasoning") THEN Text(data, "reasoning")
                       ELSE Text(data, "reasoning_content"))

\* The type of the event, or of its delta, decides; the others are ignored.
ParseAnthropic(data) ==
  CASE data = <<>> -> Nothing
    [] data # <<>> /\ data[1] \notin FieldNames -> Ends("failed")
    [] Text(data, "kind") = <<"error">> -> Ends("failed")
    [] Text(data, "kind") = <<"message_stop">> -> Ends("done")
    [] Text(data, "kind") = <<"text_delta">> -> Parsed(Text(data, "text"), <<>>)
    [] Text(data, "kind") = <<"thinking_delta">> -> Parsed(<<>>, Text(data, "thinking"))
    [] OTHER -> Nothing

\* Parts in any order, thoughts marked; no payload ends the stream.
ParseGemini(data) ==
  CASE data = <<>> -> Nothing
    [] data # <<>> /\ (data[1] \notin FieldNames \/ Has(data, "error")) -> Ends("failed")
    [] OTHER -> Parsed(Text(data, "text"), Text(data, "thought"))

ParseEvent(format, data) ==
  CASE format = "openai_chat" -> ParseOpenaiChat(data)
    [] format = "anthropic" -> ParseAnthropic(data)
    [] format = "gemini" -> ParseGemini(data)

-----------------------------------------------------------------------------
(* sse_token_stream *)

\* One parsed event taken off the pending queue; after the end nothing is.
Taken(s, p) ==
  CASE s.ends # "no" -> s
    [] s.ends = "no" /\ p.ends # "no" -> [s EXCEPT !.ends = p.ends]
    [] OTHER -> [s EXCEPT !.content = @ \o p.content,
                          !.reasoning = @ \o p.reasoning,
                          !.reasoningChars = @ + Len(p.reasoning)]

Drained(format, got, events) ==
  FoldLeft(LAMBDA s, data : Taken(s, ParseEvent(format, data)), got, events)

\* A chunk goes through the decoder, and its events through the dialect.
Read(format, s, d) == [decoder |-> d, got |-> Drained(format, s.got, d.events)]

\* What the deltas of a stream add up to: chunks, then the end of the body or
\* a failed read.
ClosedBy(got, how) == [got EXCEPT !.ends = IF @ = "no" THEN how ELSE @]
Ended(format, fed, closed) ==
  IF closed
  THEN ClosedBy(Drained(format, fed.got, FinishDecoding(fed.decoder).events), "body over")
  ELSE ClosedBy(fed.got, "failed")

Streamed(format, chunks, closed) ==
  Ended(format,
        FoldLeft(LAMBDA s, chunk : Read(format, s, Feed(s.decoder, chunk)),
                 [decoder |-> Decoder, got |-> Nothing @@ [reasoningChars |-> 0]], chunks),
        closed)

-----------------------------------------------------------------------------
(* A server of each format, for the properties *)

Frame(payload) == <<"data:", "sp">> \o payload \o <<"cr", "lf", "lf">>

Pings(format) ==
  CASE format = "openai_chat" -> <<":", "x", "lf", "lf">>
    [] format = "anthropic" ->
         <<"event:", "x", "lf">> \o Frame(<<"kind", "ping", "text", "x">>)
    [] format = "gemini" -> <<"data:", "lf", "lf">>

ThinkingFrame(format, text) ==
  Frame(CASE format = "openai_chat" ->
               <<"reasoning">> \o Encoded(text) \o <<"reasoning_content">> \o Encoded(text)
          [] format = "anthropic" -> <<"kind", "thinking_delta", "thinking">> \o Encoded(text)
          [] format = "gemini" -> <<"thought">> \o Encoded(text))

TextFrame(format, text) ==
  Frame(CASE format = "openai_chat" -> <<"content">> \o Encoded(text)
          [] format = "anthropic" -> <<"kind", "text_delta", "text">> \o Encoded(text)
          [] format = "gemini" -> <<"text">> \o Encoded(text))

Closer(format) ==
  CASE format = "openai_chat" -> Frame(<<"[DONE]">>)
    [] format = "anthropic" -> Frame(<<"kind", "message_stop">>)
    [] format = "gemini" -> <<>>

Body(format, first, rest) ==
  Pings(format) \o TextFrame(format, first) \o ThinkingFrame(format, <<"mark">>)
  \o TextFrame(format, rest) \o Closer(format)

\* However a body is cut into two chunks, its deltas add up to the text of its
\* content frames, and the thinking between them stays out of it; a body that
\* breaks off leaves whole frames, and fails unless its end looks like one.
KeepsAll(whole, text) ==
  /\ whole.content = text /\ whole.reasoning = <<"mark">>
  /\ whole.reasoningChars = 1 /\ whole.ends # "failed"
KeepsFrames(got, first, text) == got.content \in {<<>>, first, text}

CutKeeps(format, first, text, before, after) ==
  /\ KeepsAll(Streamed(format, <<before, after>>, TRUE), text)
  /\ LET Over(got) == KeepsFrames(got, first, text) /\ got.ends # "failed"
     IN Over(Streamed(format, <<before>>, TRUE))
  /\ LET Broken(got) == /\ KeepsFrames(got, first, text)
                        /\ got.ends = "failed" \/ (got.ends = "done" /\ format # "gemini")
     IN Broken(Streamed(format, <<before>>, FALSE))

CutsKeep(format, first, text, bytes) ==
  \A cut \in 0 .. Len(bytes) :
    CutKeeps(format, first, text, SubSeq(bytes, 1, cut), SubSeq(bytes, cut + 1, Len(bytes)))

WireKeeps(format, first, rest) ==
  CutsKeep(format, first, first \o rest, Body(format, first, rest))
=============================================================================
