----------------------------- MODULE Dialects ------------------------------
(***************************************************************************)
(* The vendors' WireProtocol implementations, as far as the pump can tell  *)
(* them apart: DashScope (crates/aliyun), Seed-ASR (crates/volcengine) and *)
(* Tencent (crates/tencent).  A server message is its kind; a Seed-ASR     *)
(* response repeats the whole list of utterances, so the frame it rides in *)
(* carries how many of them are settled and whether an unsettled tail      *)
(* follows (the server settles utterances in order).  "chatter" is what a  *)
(* dialect has no event for: an acknowledgement, what it cannot read.      *)
(***************************************************************************)
EXTENDS Wire, Sequences

Vendors == {"aliyun", "tencent", "volcengine"}

\* Whether a connection opens with a message and has a liveness message.
HasOpening(d)   == d \in {"aliyun", "volcengine"}
HasKeepalive(d) == d \in {"tencent", "volcengine"}

Message(kind) == [carrier |-> "text", kind |-> kind]

\* What a server may say once `settled` utterances are settled.
AliyunMessages  == {"transcription.text", "transcription.completed", "session.finished"}
TencentMessages == {"draft", "stable", "over"}

\* A response with the list of its utterances, or with the text alone.
Listed(settled, tail) == [listed |-> TRUE, settled |-> settled, tail |-> tail]
Unlisted(text) == [listed |-> FALSE, settled |-> 0, tail |-> text]
Responses(settled) ==
  {SeedFrame("response", Listed(settled, tail)) : tail \in BOOLEAN}
  \cup {SeedFrame("response", Unlisted(text)) : text \in BOOLEAN}
VolcengineMessages(settled) ==
  LET response == SeedFrame("response", Listed(settled, TRUE)) IN
  Responses(settled) \cup Unusual(response) \cup Damaged(response)
  \cup {SeedFrame(type, Unlisted(FALSE)) : type \in {"error", "keepalive"}}

Messages(d, settled) ==
  CASE d = "aliyun"     -> {Message(kind) : kind \in AliyunMessages \cup {"error", "chatter"}}
    [] d = "tencent"    -> {Message(kind) : kind \in TencentMessages \cup {"error", "chatter"}}
    [] d = "volcengine" -> VolcengineMessages(settled)
Receivable(d, settled) == Taken(d, Messages(d, settled) \cup Strangers(d))

\* How many the server has settled on this connection, as far as can be read.
SettledBy(d, m, before) ==
  CASE d # "volcengine" ->
         IF m.kind \in {"transcription.completed", "stable"} THEN before + 1 ELSE before
    [] d = "volcengine" /\ Decode(m) = "response" /\ m.payload.listed -> m.payload.settled
    [] OTHER -> before

\* session_over(): Seed-ASR has no such marker.
SessionOver(d, m) == d # "volcengine" /\ m.kind \in {"session.finished", "over"}

-----------------------------------------------------------------------------
(* parse(): the finals, whether a partial follows, whether it is a failure *)

Nothing(emitted) == [finals |-> 0, partial |-> FALSE, failed |-> FALSE, emitted |-> emitted]
Failure(emitted) == [Nothing(emitted) EXCEPT !.failed = TRUE]
AFinal(emitted) == [Nothing(emitted) EXCEPT !.finals = 1]
APartial(emitted) == [Nothing(emitted) EXCEPT !.partial = TRUE]

AliyunEvent(emitted, m) ==
  CASE m.kind = "transcription.text"      -> APartial(emitted)
    [] m.kind = "transcription.completed" -> AFinal(emitted)
    [] m.kind = "error"                   -> Failure(emitted)
    [] OTHER                              -> Nothing(emitted)

\* A code other than 0 is terminal; slice_type 2 is a slice's stable end.
TencentEvents(emitted, m) ==
  CASE m.kind = "error"  -> Failure(emitted)
    [] m.kind = "stable" -> AFinal(emitted)
    [] m.kind = "draft"  -> APartial(emitted)
    [] OTHER             -> Nothing(emitted)

\* Faulty: the position is not remembered.
FaultyEmitted(emitted, settled) == emitted

\* Seed-ASR tells a newly settled utterance by its position in the list.
Emitted(emitted, settled) == Max({emitted, settled})

ParseResponse(emitted, said) ==
  IF ~said.listed THEN [Nothing(emitted) EXCEPT !.partial = said.tail]
  ELSE [Nothing(Emitted(emitted, said.settled)) EXCEPT
          !.finals = Max({said.settled, emitted}) - emitted, !.partial = said.tail]

VolcengineEvents(emitted, m) ==
  CASE Decode(m) = "response" -> ParseResponse(emitted, m.payload)
    [] Decode(m) = "error"    -> Failure(emitted)
    [] OTHER                  -> Nothing(emitted)

Parse(d, emitted, m) ==
  CASE d = "aliyun"     -> AliyunEvent(emitted, m)
    [] d = "tencent"    -> TencentEvents(emitted, m)
    [] d = "volcengine" -> VolcengineEvents(emitted, m)

Silent(parsed) == parsed.finals = 0 /\ ~parsed.partial /\ ~parsed.failed
=============================================================================
