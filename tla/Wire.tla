-------------------------------- MODULE Wire --------------------------------
(***************************************************************************)
(* What lies between a dialect and the socket: the answer to a handshake   *)
(* and the socket frames a dialect takes for messages                      *)
(* (crates/asr/src/transport.rs, crates/tencent/src/protocol.rs), and the  *)
(* binary frame of Seed-ASR (crates/volcengine/src/frame.rs).              *)
(***************************************************************************)
EXTENDS Naturals, FiniteSetsExt

\* Server messages ride text frames, but those of Seed-ASR, which are bytes;
\* the connection's task keeps every other frame from the pump and answers
\* the pings itself.
TextWire   == {"text"}
TencentWire == {"text"}
BytesWire  == {"binary"}
Carries(dialect) ==
  CASE dialect = "aliyun"     -> TextWire
    [] dialect = "tencent"    -> TencentWire
    [] dialect = "volcengine" -> BytesWire

\* A socket frame the dialect has no use for: of the other kind, or a control frame.
Strangers(dialect) == {[carrier |-> c] : c \in {"text", "binary", "pong"} \ Carries(dialect)}
Taken(dialect, frames) == {f \in frames : f.carrier \in Carries(dialect)}

\* An attempt comes to nothing before the request is made, at the far end
\* with a status, or without one (a budget that passes counts as that).
Answers == {"bad url", "bad header", "101", "401", "403", "500", "unreachable"}
Handshake(answer) ==
  CASE answer = "101" -> "open" [] answer \in {"401", "403"} -> "auth" [] OTHER -> "other"

-----------------------------------------------------------------------------
(* A frame has a header, which its low nibble gives in units of four       *)
(* bytes, the four bytes of the payload's size, and the payload; the last  *)
(* may be packed.  `length` is what there is of it.                        *)

SeedFrame(type, payload) ==
  [carrier |-> "binary", header |-> 1, stated |-> 2, length |-> 10, type |-> type,
   packed |-> TRUE, unpacks |-> TRUE, utf8 |-> TRUE, payload |-> payload]

\* The frame that carries sequence fields in a longer header, the one whose
\* nibble says nothing, and the one sent unpacked are read as well.
Unusual(f) ==
  {f, [f EXCEPT !.header = 2, !.length = 14], [f EXCEPT !.header = 0],
   [f EXCEPT !.packed = FALSE, !.unpacks = FALSE]}

\* Cut within the header, before the size or in the payload; a torn payload,
\* one that is no text, and a type that is none.
Damaged(f) ==
  {[f EXCEPT !.length = 7], [f EXCEPT !.header = 2, !.length = 11], [f EXCEPT !.length = 9],
   [f EXCEPT !.unpacks = FALSE], [f EXCEPT !.utf8 = FALSE], [f EXCEPT !.type = "other"]}

FrameError == "frame error"

\* decode(): neither size is trusted beyond the bytes that are there.
Decode(f) ==
  LET size_at == 4 * Max({f.header, 1})
      payload_at == size_at + 4 IN
  IF \/ f.length < 8 \/ payload_at > f.length
     \/ payload_at + f.stated > f.length
     \/ f.packed /\ ~f.unpacks
  THEN FrameError
  ELSE CASE f.type \in {"response", "error"} -> IF f.utf8 THEN f.type ELSE FrameError
         [] f.type = "keepalive"             -> "keepalive"
         [] OTHER                            -> FrameError
=============================================================================
