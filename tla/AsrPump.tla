------------------------------ MODULE AsrPump ------------------------------
(***************************************************************************)
(* One recognition session, from opening the microphone to releasing it:   *)
(* the capture thread (crates/audio/src/mic.rs), the pump every cloud      *)
(* adapter runs on with its bounded reconnects, offline buffer and drain   *)
(* (crates/asr/src/session.rs), the connections it works through           *)
(* (crates/asr/src/transport.rs), and the microphone-only provider         *)
(* (crates/audio/src/provider.rs), which is the dialect "mic" here.        *)
(*                                                                         *)
(* A frame is analysed when it is captured: the queues between the device  *)
(* and the pump lose and reorder nothing.  A connection has no state of    *)
(* its own: it may prove lost at any use the pump makes of it.  A send is  *)
(* accepted, or fails because the connection is over, or parks past its    *)
(* budget because the far end stopped reading, and the pump treats the     *)
(* last two alike; a read finds a message or the loss.  What the server    *)
(* had said when a send failed is never read.  Frames that may travel are  *)
(* numbered as the gate lets them pass, and the properties follow them.    *)
(***************************************************************************)
EXTENDS Vad, Dialects, FiniteSets

CONSTANTS
  Providers,      \* the dialects a session may be opened with
  MaxReconnects,  \* MAX_RECONNECTS
  BufferFrames,   \* RECONNECT_BUFFER_FRAMES
  MaxVoiced,      \* bound: frames that are not quiet
  MaxMessages     \* bound: server messages of a session, over its connections

ASSUME PumpAssumption ==
  /\ Providers \subseteq Vendors \cup {"mic"}
  /\ MaxReconnects \in Nat /\ BufferFrames \in Nat \ {0}
  /\ MaxVoiced \in Nat /\ MaxMessages \in Nat

VARIABLES
  dialect,  \* the provider the session was opened with
  pc,       \* where the session is, see Stages
  begun,    \* the live loop has been entered
  device,   \* the capture device
  mic,      \* what the source has reported: nothing, an error, its end
  bridge,   \* the thread that holds the frame receiver
  link,     \* utterances the server has settled on the connection in use
  vad,      \* the local analysis
  buffer,   \* frames kept while offline
  budget,   \* reconnects_left
  frames,   \* approved, sent, missing, and the last frame sent
  voiced,   \* frames so far that were not quiet
  emitted,  \* definite_emitted of the Seed-ASR dialect
  told,     \* failures and finals given to the engine
  server,   \* messages said, an end announced, connections used, utterances
            \* settled in the messages parsed
  gone      \* the engine has dropped the event stream
audio == <<vad, buffer, frames, voiced>>
session == <<dialect, begun, device, mic, bridge>>
vars == <<session, pc, link, audio, budget, emitted, told, server, gone>>

Stages == {"mic", "connect", "opening", "loop", "retry", "greet", "flush",
           "finish", "drain", "ended", "refused"}

Init ==
  /\ dialect \in Providers /\ pc = "mic" /\ begun = FALSE
  /\ device = "opening" /\ mic = "live" /\ bridge = "none"
  /\ link = 0
  /\ vad = Fresh /\ buffer = <<>> /\ budget = MaxReconnects /\ voiced = 0
  /\ frames = [approved |-> 0, sent |-> 0, missing |-> 0, last |-> 0]
  /\ emitted = 0 /\ told = [failed |-> 0, finals |-> 0]
  /\ server = [said |-> 0, over |-> FALSE, links |-> 0, settled |-> 0]
  /\ gone = FALSE

-----------------------------------------------------------------------------
(* The capture device *)

\* mic::open's thread got the device while open() was still waiting for it.
DeviceOpens ==
  /\ pc = "mic" /\ device = "opening"
  /\ device' = "open"
  /\ IF dialect = "mic" THEN pc' = "loop" /\ bridge' = "on" /\ begun' = TRUE
                        ELSE pc' = "connect" /\ UNCHANGED <<bridge, begun>>
  /\ UNCHANGED <<dialect, mic, link, audio, budget, emitted, told, server, gone>>

\* The device refuses, or OPEN_BUDGET passes with the thread still at it.
OpenFails ==
  /\ pc = "mic" /\ device = "opening"
  /\ pc' = "refused" /\ device' \in {"closed", "opening"}
  /\ UNCHANGED <<dialect, begun, mic, bridge, link, audio, budget, emitted, told,
                 server, gone>>

\* The thread gets the device when open() has given up, and captures from it.
DeviceOpensLate ==
  /\ pc = "refused" /\ device = "opening"
  /\ device' = "late"
  /\ UNCHANGED <<dialect, begun, mic, bridge, pc, link, audio, budget, emitted, told,
                 server, gone>>

\* Faulty: the thread parks whatever became of its answer, receiver in hand.
FaultyAnswerUnheard ==
  /\ device = "late"
  /\ UNCHANGED vars

\* Its answer finds nobody waiting, and it drops the device and exits; or it
\* still finds the channel, which is dropped with the answer in it, and the
\* thread parks over a device whose frames nobody receives.
AnswerUnheard ==
  /\ device = "late"
  /\ device' \in {"closed", "open"}
  /\ UNCHANGED <<dialect, begun, mic, bridge, pc, link, audio, budget, emitted, told,
                 server, gone>>

\* error_forwarder: the error is the last event, and the device is let go.
DeviceFails ==
  /\ device = "open" /\ mic = "live"
  /\ device' = "closed" /\ mic' \in {"erred", "gone"}
  /\ UNCHANGED <<dialect, begun, bridge, pc, link, audio, budget, emitted, told,
                 server, gone>>

\* Faulty: the bridge goes on reading when its send fails.
FaultyBridgeEnds ==
  /\ bridge = "on" /\ pc = "ended"
  /\ UNCHANGED vars

\* Nothing reads the bridge's channel any more: its next send fails.
BridgeEnds ==
  /\ bridge = "on" /\ pc = "ended"
  /\ bridge' = "off"
  /\ UNCHANGED <<dialect, begun, device, mic, pc, link, audio, budget, emitted, told,
                 server, gone>>

\* frame_forwarder: the receiver is dropped, so the next frame fails to leave
\* and the capture thread drops the device.
DeviceStops ==
  /\ device = "open" /\ pc \in {"refused", "ended"} /\ bridge \in {"none", "off"}
  /\ device' = "closed"
  /\ UNCHANGED <<dialect, begun, mic, bridge, pc, link, audio, budget, emitted, told,
                 server, gone>>

-----------------------------------------------------------------------------
(* Opening the session *)

Connects ==
  /\ pc = "connect" /\ ~gone
  /\ pc' = IF HasOpening(dialect) THEN "opening" ELSE "loop"
  /\ begun' = ~HasOpening(dialect)
  /\ bridge' = "on"
  /\ server' = [server EXCEPT !.links = 1]
  /\ UNCHANGED <<dialect, device, mic, link, audio, budget, emitted, told, gone>>

\* The attempt failed, or the engine gave the open up at this await.
ConnectFails ==
  /\ pc = "connect"
  /\ pc' = "refused"
  /\ UNCHANGED <<session, link, audio, budget, emitted, told, server, gone>>

\* connect_once(): credentials that are refused are a failure like the others.
Connect ==
  \/ \E answer \in Answers : IF Handshake(answer) = "open" THEN Connects ELSE ConnectFails
  \/ gone /\ ConnectFails

\* try_reconnect is entered, or tries again: with the budget spent it tells
\* the engine and the session ends (at once when it never got going).
Leaves == pc' = IF begun THEN "finish" ELSE "ended"

\* Faulty: the spent budget is not looked at.
FaultyReconnects ==
  pc' = "retry" /\ budget' = (IF budget > 0 THEN budget - 1 ELSE 0) /\ UNCHANGED told

\* Faulty: the engine is not told.
FaultyReconnectsMute ==
  IF budget > 0
  THEN pc' = "retry" /\ budget' = budget - 1 /\ UNCHANGED told
  ELSE Leaves /\ UNCHANGED <<told, budget>>

Reconnects ==
  IF budget > 0
  THEN pc' = "retry" /\ budget' = budget - 1 /\ UNCHANGED told
  ELSE Leaves /\ told' = [told EXCEPT !.failed = @ + 1] /\ UNCHANGED budget

Opens ==
  /\ pc = "opening"
  /\ \/ pc' = "loop" /\ begun' = TRUE /\ UNCHANGED <<budget, told>>
     \/ Reconnects /\ UNCHANGED begun
  /\ UNCHANGED <<dialect, device, mic, bridge, link, audio, emitted, server, gone>>

-----------------------------------------------------------------------------
(* The live loop *)

Captures(energy) ==
  /\ device = "open" /\ mic = "live"
  /\ energy = "quiet" \/ voiced < MaxVoiced
  /\ voiced' = IF energy = "quiet" THEN voiced ELSE voiced + 1
  /\ vad' = Analyze(vad, energy).vad

\* emit(): the engine's side of the channel is gone.
Unheard(events) == gone /\ events # <<>>

Passed == [frames EXCEPT !.approved = @ + 1]

Sent(f, id) == [f EXCEPT !.sent = @ + 1, !.last = id]
Missed(f) == [f EXCEPT !.missing = @ + 1]

\* One frame in the loop.  A frame whose send fails is dropped with it.
Frame(energy) ==
  LET heard == Analyze(vad, energy) IN
  /\ pc = "loop" /\ dialect # "mic" /\ Captures(energy)
  /\ IF Unheard(heard.events)
     THEN pc' = "finish" /\ UNCHANGED <<frames, budget, told>>
     ELSE IF ~heard.wire THEN UNCHANGED <<pc, frames, budget, told>>
     ELSE \/ frames' = Sent(Passed, Passed.approved) /\ UNCHANGED <<pc, budget, told>>
          \/ frames' = Missed(Passed) /\ Reconnects
  /\ UNCHANGED <<session, link, buffer, emitted, server, gone>>

\* The microphone-only provider: the events, and nothing else.
MicOnlyFrame(energy) ==
  /\ pc = "loop" /\ dialect = "mic" /\ Captures(energy)
  /\ pc' = IF Unheard(Analyze(vad, energy).events) THEN "ended" ELSE "loop"
  /\ UNCHANGED <<session, link, buffer, frames, budget, emitted, told, server, gone>>

\* The source reports an error, or ends without one.
SourceEnds ==
  /\ pc = "loop" /\ mic # "live"
  /\ mic' = "gone"
  /\ told' = IF mic = "erred" THEN [told EXCEPT !.failed = @ + 1] ELSE told
  /\ pc' = IF dialect # "mic" THEN "finish" ELSE IF mic = "erred" /\ ~gone THEN "loop" ELSE "ended"
  /\ UNCHANGED <<dialect, begun, device, bridge, link, audio, budget, emitted, server, gone>>

\* One message's finals and failure as the engine is told of them.
Tells(parsed) ==
  /\ emitted' = parsed.emitted
  /\ told' = [failed |-> told.failed + (IF parsed.failed THEN 1 ELSE 0),
              finals |-> told.finals + (IF gone THEN 0 ELSE parsed.finals)]

\* What the server may say, having settled one utterance more or none since it
\* last spoke on this connection.
Said == IF server.said = MaxMessages THEN {}
        ELSE UNION {Receivable(dialect, settled) : settled \in link..link + 1}

\* Settled utterances: the server's count on this connection, and how many
\* the messages read so far have named, over all connections.
Settles(m) == link' = SettledBy(dialect, m, link)

Heard(m) ==
  [server EXCEPT !.said = @ + 1, !.settled = @ + (SettledBy(dialect, m, link) - link)]

\* A message of the server.  Any message it parses replenishes the budget.
Receives ==
  /\ pc = "loop" /\ dialect # "mic"
  /\ \E m \in Said :
       LET parsed == Parse(dialect, emitted, m) IN
       IF SessionOver(dialect, m)
       THEN /\ pc' = "finish" /\ server' = [server EXCEPT !.said = @ + 1, !.over = TRUE]
            /\ UNCHANGED <<budget, emitted, told, link>>
       ELSE /\ budget' = MaxReconnects /\ Tells(parsed) /\ server' = Heard(m) /\ Settles(m)
            /\ pc' = IF (gone /\ ~Silent(parsed)) \/ parsed.failed THEN "finish" ELSE "loop"
  /\ UNCHANGED <<session, audio, gone>>

\* The read finds the connection lost.
Loses ==
  /\ pc = "loop" /\ dialect # "mic"
  /\ Reconnects
  /\ UNCHANGED <<session, link, audio, emitted, server, gone>>

\* The keepalive's tick finds the connection lost; a send that is accepted
\* changes nothing here.
KeepaliveFails ==
  /\ pc = "loop" /\ HasKeepalive(dialect)
  /\ Reconnects
  /\ UNCHANGED <<session, link, audio, emitted, server, gone>>

-----------------------------------------------------------------------------
(* Offline *)

\* Faulty: a full buffer is emptied.
FaultyKept(id) == IF Len(buffer) = BufferFrames THEN <<id>> ELSE Append(buffer, id)

\* buffer_offline: the oldest frame makes room.
Kept(id) ==
  IF Len(buffer) = BufferFrames THEN Append(Tail(buffer), id) ELSE Append(buffer, id)

OfflineFrame(energy) ==
  LET heard == Analyze(vad, energy) IN
  /\ pc = "retry" /\ Captures(energy)
  /\ IF Unheard(heard.events)
     THEN Leaves /\ UNCHANGED <<frames, buffer>>
     ELSE IF ~heard.wire THEN UNCHANGED <<pc, frames, buffer>>
     ELSE /\ buffer' = Kept(Passed.approved)
          /\ frames' = IF Len(buffer) = BufferFrames THEN Missed(Passed) ELSE Passed
          /\ UNCHANGED pc
  /\ UNCHANGED <<session, link, budget, emitted, told, server, gone>>

OfflineSourceEnds ==
  /\ pc = "retry" /\ mic # "live"
  /\ mic' = "gone" /\ Leaves
  /\ told' = IF mic = "erred" THEN [told EXCEPT !.failed = @ + 1] ELSE told
  /\ UNCHANGED <<dialect, begun, device, bridge, link, audio, budget, emitted, server, gone>>

\* The attempt fails or times out; the credentials are refused.
AttemptFails ==
  /\ pc = "retry"
  /\ Reconnects
  /\ UNCHANGED <<session, link, audio, emitted, server, gone>>

AttemptRefused ==
  /\ pc = "retry"
  /\ Leaves /\ told' = [told EXCEPT !.failed = @ + 1]
  /\ UNCHANGED <<session, link, audio, budget, emitted, server, gone>>

AttemptConnects ==
  /\ pc = "retry"
  /\ pc' = IF HasOpening(dialect) THEN "greet" ELSE "flush"
  /\ UNCHANGED <<session, link, audio, budget, emitted, told, server, gone>>

\* Credentials will not heal by retrying.
Attempt ==
  \E answer \in Answers :
    CASE Handshake(answer) = "open"  -> AttemptConnects
      [] Handshake(answer) = "auth"  -> AttemptRefused
      [] Handshake(answer) = "other" -> AttemptFails

Greets ==
  /\ pc = "greet"
  /\ \/ pc' = "flush" /\ UNCHANGED <<budget, told>>
     \/ Reconnects
  /\ UNCHANGED <<session, link, audio, emitted, server, gone>>

\* One frame of the buffer; it is taken out before its send.
Flushes ==
  /\ pc = "flush" /\ buffer # <<>>
  /\ buffer' = Tail(buffer)
  /\ \/ frames' = Sent(frames, Head(buffer)) /\ UNCHANGED <<pc, budget, told>>
     \/ frames' = Missed(frames) /\ Reconnects
  /\ UNCHANGED <<session, link, vad, voiced, emitted, server, gone>>

Flushed ==
  /\ pc = "flush" /\ buffer = <<>>
  /\ link' = 0
  /\ pc' = "loop" /\ begun' = TRUE
  /\ server' = [server EXCEPT !.links = @ + 1]
  /\ UNCHANGED <<dialect, device, mic, bridge, audio, budget, emitted, told, gone>>

-----------------------------------------------------------------------------
(* The graceful end *)

\* The finish message is best effort.
Finishes ==
  /\ pc = "finish"
  /\ pc' = "drain"
  /\ UNCHANGED <<session, link, audio, budget, emitted, told, server, gone>>

Drains ==
  /\ pc = "drain"
  /\ \E m \in Said :
       LET parsed == Parse(dialect, emitted, m) IN
       IF SessionOver(dialect, m)
       THEN pc' = "ended" /\ UNCHANGED <<emitted, told, server, link>>
       ELSE /\ Tells(parsed) /\ server' = Heard(m) /\ Settles(m)
            /\ pc' = IF (gone /\ ~Silent(parsed)) \/ parsed.failed THEN "ended" ELSE "drain"
  /\ UNCHANGED <<session, audio, budget, gone>>

\* FINISH_DRAIN passes, or the connection is over.
DrainEnds ==
  /\ pc = "drain"
  /\ pc' = "ended"
  /\ UNCHANGED <<session, link, audio, budget, emitted, told, server, gone>>

\* The engine's session is over: it drops the event stream.
EngineLeaves ==
  /\ ~gone /\ pc \notin {"ended", "refused"}
  /\ gone' = TRUE
  /\ UNCHANGED <<session, pc, link, audio, budget, emitted, told, server>>

-----------------------------------------------------------------------------
Hears == \E energy \in Energy : Frame(energy) \/ MicOnlyFrame(energy) \/ OfflineFrame(energy)

Offline == Attempt \/ Greets \/ Flushes \/ Flushed

Next ==
  \/ DeviceOpens \/ OpenFails \/ DeviceOpensLate \/ AnswerUnheard \/ DeviceFails \/ BridgeEnds
  \/ DeviceStops \/ Connect \/ Opens
  \/ Hears \/ SourceEnds \/ Receives \/ Loses \/ KeepaliveFails
  \/ OfflineSourceEnds \/ Offline
  \/ Finishes \/ Drains \/ DrainEnds \/ EngineLeaves

Spec == Init /\ [][Next]_vars

\* The tasks run; every wait of theirs has a budget (the open, the handshake,
\* the send, the drain); and the device delivers frames, quiet ones in the
\* end: MaxVoiced says the user stops talking.
FairSpec ==
  /\ Spec
  /\ WF_vars(DeviceOpens \/ OpenFails)
  /\ WF_vars(AnswerUnheard) /\ WF_vars(BridgeEnds) /\ WF_vars(DeviceStops)
  /\ WF_vars(Connect) /\ WF_vars(Opens)
  /\ WF_vars(Hears) /\ WF_vars(SourceEnds)
  /\ WF_vars(OfflineSourceEnds) /\ WF_vars(Offline)
  /\ WF_vars(Finishes) /\ WF_vars(DrainEnds)

-----------------------------------------------------------------------------
(* Properties *)

Rising(s) == \A i \in 1..Len(s) - 1 : s[i] < s[i + 1]

\* Every frame the gate let pass is on a wire, waiting in the buffer, or lost
\* to a failed send or a full buffer; the wire carries them in the order they
\* were spoken and none twice, whatever the reconnects, for those waiting
\* follow all that were sent, are never more than the buffer takes and none
\* once the session is online again; and a
\* quiet frame travels only in the pad behind a voiced one (SendGate::push,
\* Pump::buffer_offline, the flush in try_reconnect).
AudioAccounted ==
  /\ frames.sent + frames.missing + Len(buffer) = frames.approved
  /\ Rising(<<frames.last>> \o buffer \o <<frames.approved + 1>>)
  /\ Len(buffer) <= BufferFrames /\ (pc = "loop" => buffer = <<>>)
  /\ frames.approved <= voiced * (Pad + 1)

\* No utterance reaches the engine as a final twice, and on a session's first
\* connection every settled one in a message the pump read does (the position
\* bookkeeping of VolcengineProtocol::parse_response); and a stream that ends
\* with no Failed has ended for a reason the engine can do without: it left
\* itself, the microphone's source ended without an error, or the server said
\* the session is over.
EachSettledOnce ==
  /\ ~gone => /\ told.finals <= server.settled
              /\ server.links = 1 => told.finals = server.settled
  /\ pc = "ended" /\ told.failed = 0 => gone \/ mic = "gone" \/ server.over

\* Being offline ends: the attempts are bounded and each has its budget.
OfflineEnds == (pc = "retry") ~> (pc \in {"loop", "finish", "ended"})

\* Once the engine has dropped the stream the microphone is let go, whichever
\* await the session is at, and so it is after an open that failed or timed out,
\* also by a thread that gets the device after that.
MicLetGo == (gone \/ pc \in {"ended", "refused"}) ~> (device \notin {"open", "late"})
=============================================================================
