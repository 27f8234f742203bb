------------------------------- MODULE Engine -------------------------------
(***************************************************************************)
(* The session engine of crates/engine: the state machine under the state  *)
(* lock, the command gate that serialises commands, and the background     *)
(* tasks that share the state with them (the stream open, consume_asr,     *)
(* rectify_task, paste_task).                                              *)
(*                                                                         *)
(* One action is one region under the state lock.  A command that keeps    *)
(* the gate across an await (an insert) or releases the state lock between *)
(* its check and its effect (stop, reroll) is two actions with `gate' held *)
(* in between.  Recognised text and its paragraphs are a count of words    *)
(* here; module Transcript has them.                                       *)
(***************************************************************************)
EXTENDS Naturals, Sequences, FiniteSets

CONSTANTS
  MaxSession,   \* bound: sessions ever opened
  MaxPlan,      \* bound: rectify attempts and straight-through pastes planned
  MaxWords,     \* bound: words heard in a session, chunks in a response
  Configs,      \* the settings a user switches between
  MultiThread   \* the runtime polls tasks in parallel (the app: Runtime::new,
                \* the CLI: flavor = "current_thread")

ASSUME BoundsAssumption ==
  /\ MaxSession \in Nat /\ MaxPlan \in Nat /\ MaxWords \in Nat
  /\ Configs \subseteq [passage : BOOLEAN, quickMode : BOOLEAN,
                        quickRectify : BOOLEAN]
  /\ MultiThread \in BOOLEAN

VARIABLES
  live,      \* the runtime-switchable settings a session snapshots
  state,     \* SharedState.state
  session,   \* SharedState.session; id 0 is None
  nextId,    \* SharedState.next_session_id
  asr,       \* per session: where its open task, then its consume_asr, stands
  fired,     \* sessions whose asr_cancel token has fired
  nextPlan,  \* names attempts and pastes; the code has task handles
  attempts,  \* rectify tasks still running
  pastes,    \* straight-through inserts waiting for the command gate
  gate,      \* the command gate's holder
  shown,     \* the shell's previewText, folded from the event stream
  landed,    \* inserts that reached the target, with their history pair
  ends,      \* per session: the terminal states it went through
  aborted    \* sessions the user's Cancel command ended

taskVars   == <<asr, fired, nextPlan, attempts, pastes>>
sharedVars == <<state, session, nextId, shown, ends>>
vars == <<live, state, session, nextId, asr, fired, nextPlan, attempts,
          pastes, gate, shown, landed, ends, aborted>>

-----------------------------------------------------------------------------
(* Data *)

Sids == 1 .. MaxSession

States == {"Idle", "Recording", "Rectifying", "Preview"}

\* A text is a sequence of words, each tagged with where it came from.
Word == [kind : {"raw", "body", "edit"}, of : Nat]
Text == Seq(Word)
Words(kind, of, n) == [i \in 1 .. n |-> [kind |-> kind, of |-> of]]

\* The events of the recogniser the engine's control depends on.  "Silence"
\* is one past the session-end threshold; "Speech" with FALSE also stands for
\* a frame or a shorter silence that changes nothing.
AsrEvents == {"Text", "Speech", "Silence", "Failed"}
AsrSteps  == {"none", "opening", "listening", "ending", "done"} \cup AsrEvents

Session == [id : Nat, passage : BOOLEAN, quickRectify : BOOLEAN,
            quick : BOOLEAN, held : BOOLEAN, spoke : BOOLEAN,
            heard : Nat, pins : Nat, frozen : BOOLEAN,
            raw : Text, preview : Text, token : Nat]

NoSession == [id |-> 0, passage |-> FALSE, quickRectify |-> FALSE,
              quick |-> FALSE, held |-> FALSE, spoke |-> FALSE,
              heard |-> 0, pins |-> 0, frozen |-> FALSE,
              raw |-> <<>>, preview |-> <<>>, token |-> 0]

Attempt == [plan : Nat, sid : Nat, quick : BOOLEAN, pinned : BOOLEAN,
            cancelled : BOOLEAN, out : Text]

\* Passthrough: one straight-through insert's inputs.
Paste == [plan : Nat, sid : Nat, text : Text, raw : Text, from : States,
          announce : BOOLEAN]

Holders == {"free", "stop", "reroll", "confirm", "paste"}
Gate == [op : Holders, sid : Nat, text : Text, raw : Text, from : States,
         announce : BOOLEAN]
Held(op) == [op |-> op, sid |-> session.id, text |-> session.preview,
             raw |-> session.raw, from |-> state, announce |-> FALSE]
FreeGate == [op |-> "free", sid |-> 0, text |-> <<>>, raw |-> <<>>,
             from |-> "Idle", announce |-> FALSE]

Free == gate.op = "free"

\* A task between two lock regions with no await in between.  A
\* single-threaded runtime runs nothing else there.
MidPoll == \/ \E s \in Sids : asr[s] \in AsrEvents \cup {"ending"}
           \/ gate.op \in {"stop", "reroll"}
Scheduled == MultiThread \/ ~MidPoll

Matches(sid) == session.id # 0 /\ session.id = sid

-----------------------------------------------------------------------------
(* Steps shared by several handlers *)

(* A definition named Faulty... is a plausible bug of the one that follows   *)
(* it; no action uses it, the mutation runs put it in that one's place.      *)

FaultyFinishStops(sid, terminal) ==  \* the step back to idle is forgotten
  /\ state' = terminal
  /\ session' = NoSession
  /\ shown' = <<>>
  /\ ends' = [ends EXCEPT ![sid] = Append(@, terminal)]

\* finish_session: through the terminal state and straight back to idle.
Finish(sid, terminal) ==
  /\ state' = "Idle"
  /\ session' = NoSession
  /\ shown' = <<>>
  /\ ends' = [ends EXCEPT ![sid] = Append(@, terminal)]

\* Session::new, from the settings as they stand.
NewSession == [NoSession EXCEPT !.id = nextId, !.passage = live.passage,
                                !.quickRectify = live.quickRectify]

FaultyRectifyToken(s, quick) ==  \* the session keeps the old attempt's token
  /\ attempts' = attempts \cup
       {[plan |-> nextPlan, sid |-> s.id, quick |-> quick,
         pinned |-> s.pins > 0, cancelled |-> FALSE, out |-> <<>>]}
  /\ nextPlan' = nextPlan + 1
  /\ session' = s
  /\ state' = "Rectifying"
  /\ shown' = <<>>

FaultyRectifyShown(s, quick) ==  \* the shell appends to the old preview
  /\ attempts' = attempts \cup
       {[plan |-> nextPlan, sid |-> s.id, quick |-> quick,
         pinned |-> s.pins > 0, cancelled |-> FALSE, out |-> <<>>]}
  /\ nextPlan' = nextPlan + 1
  /\ session' = [s EXCEPT !.token = nextPlan]
  /\ state' = "Rectifying"
  /\ UNCHANGED shown

\* A fresh attempt with its own cancel token; the machine enters Rectifying.
Rectify(s, quick) ==
  /\ attempts' = attempts \cup
       {[plan |-> nextPlan, sid |-> s.id, quick |-> quick,
         pinned |-> s.pins > 0, cancelled |-> FALSE, out |-> <<>>]}
  /\ nextPlan' = nextPlan + 1
  /\ session' = [s EXCEPT !.token = nextPlan]
  /\ state' = "Rectifying"
  /\ shown' = <<>>

\* Session::freeze: an empty transcript with no speech is no utterance.
HasUtterance == session.heard + session.pins > 0 \/ session.spoke
Frozen == [session EXCEPT !.frozen = TRUE,
             !.raw = Words("raw", session.id, session.heard + session.pins)]

\* The stop planner, shared by stop, silence auto-end and reroll.  It takes
\* no session id: it acts on whatever session is current.
BeginRectify ==
  \/ /\ state \notin {"Recording", "Preview"}
     /\ UNCHANGED <<state, session, shown, ends, fired, nextPlan, attempts,
                    pastes>>
  \/ /\ state = "Recording" /\ ~HasUtterance
     /\ fired' = fired \cup {session.id}
     /\ Finish(session.id, "Cancelled")
     /\ UNCHANGED <<nextPlan, attempts, pastes>>
  \/ /\ state = "Recording" /\ HasUtterance
     /\ session.quick /\ ~session.quickRectify
     /\ fired' = fired \cup {session.id}
     /\ session' = Frozen
     /\ pastes' = pastes \cup
          {[plan |-> nextPlan, sid |-> session.id, text |-> Frozen.raw,
            raw |-> Frozen.raw, from |-> "Recording", announce |-> TRUE]}
     /\ nextPlan' = nextPlan + 1
     /\ UNCHANGED <<state, shown, ends, attempts>>
  \/ /\ state = "Recording" /\ HasUtterance
     /\ ~(session.quick /\ ~session.quickRectify)
     /\ fired' = fired \cup {session.id}
     /\ Rectify(Frozen, session.quick)
     /\ UNCHANGED <<ends, pastes>>
  \/ /\ state = "Preview"
     /\ Rectify(session, FALSE)
     /\ UNCHANGED <<ends, pastes, fired>>

-----------------------------------------------------------------------------
(* Commands: each takes the gate first, so none starts while it is held *)

Command == Free /\ Scheduled

FaultyStartSession ==  \* the id is not advanced
  /\ Command /\ state = "Idle" /\ nextId <= MaxSession
  /\ session' = NewSession
  /\ state' = "Recording"
  /\ shown' = <<>>
  /\ asr' = [asr EXCEPT ![nextId] = "opening"]
  /\ UNCHANGED <<live, nextId, fired, nextPlan, attempts, pastes, gate,
                 landed, ends, aborted>>

\* Recording starts at once; the open runs on a task of its own.
StartSession ==
  /\ Command /\ state = "Idle" /\ nextId <= MaxSession
  /\ session' = NewSession
  /\ nextId' = nextId + 1
  /\ state' = "Recording"
  /\ shown' = <<>>
  /\ asr' = [asr EXCEPT ![nextId] = "opening"]
  /\ UNCHANGED <<live, fired, nextPlan, attempts, pastes, gate, landed, ends,
                 aborted>>

\* A past transcript re-run: frozen from the start, no microphone.  The text
\* may carry the sentinels of the session it came from.
RectifyText(words, sentinels) ==
  /\ Command /\ state = "Idle" /\ nextId <= MaxSession
  /\ words + sentinels > 0
  /\ Rectify([NewSession EXCEPT !.heard = words, !.pins = sentinels,
                 !.frozen = TRUE, !.raw = Words("raw", nextId, words + sentinels)],
             FALSE)
  /\ nextId' = nextId + 1
  /\ UNCHANGED <<live, asr, fired, pastes, gate, landed, ends, aborted>>

\* Stop and reroll check the state, release the lock, then plan.
StopSession ==
  /\ Command /\ state = "Recording" /\ nextPlan <= MaxPlan
  /\ gate' = Held("stop")
  /\ UNCHANGED <<live, landed, aborted, taskVars, sharedVars>>

Reroll ==
  /\ Command /\ state = "Preview" /\ nextPlan <= MaxPlan
  /\ gate' = Held("reroll")
  /\ UNCHANGED <<live, landed, aborted, taskVars, sharedVars>>

PlanHeld ==
  /\ gate.op \in {"stop", "reroll"}
  /\ BeginRectify
  /\ gate' = FreeGate
  /\ UNCHANGED <<live, nextId, asr, landed, aborted>>

\* An upgraded session takes no pins: the press is swallowed.
PinPlaceholder ==
  /\ Command /\ state = "Recording" /\ ~session.quick /\ session.pins = 0
  /\ session' = [session EXCEPT !.pins = @ + 1]
  /\ UNCHANGED <<live, state, nextId, shown, ends, taskVars, gate, landed,
                 aborted>>

MarkQuick ==
  /\ Command /\ live.quickMode /\ state = "Recording"
  /\ ~session.quick /\ session.pins = 0
  /\ session' = [session EXCEPT !.quick = TRUE]
  /\ UNCHANGED <<live, state, nextId, shown, ends, taskVars, gate, landed,
                 aborted>>

HoldGate(held) ==
  /\ Command /\ state = "Recording"
  /\ session' = [session EXCEPT !.held = held]
  /\ UNCHANGED <<live, state, nextId, shown, ends, taskVars, gate, landed,
                 aborted>>

FaultyCancelUngated ==  \* a cancel does not wait for an insert
  /\ state \in {"Recording", "Rectifying", "Preview"}
  /\ fired' = fired \cup {session.id}
  /\ attempts' = {[a EXCEPT !.cancelled = @ \/ a.plan = session.token] :
                    a \in attempts}
  /\ aborted' = aborted \cup {session.id}
  /\ Finish(session.id, "Cancelled")
  /\ UNCHANGED <<live, nextId, asr, nextPlan, pastes, gate, landed>>

FaultyCancelQuiet ==  \* the tokens are not fired
  /\ Command /\ state \in {"Recording", "Rectifying", "Preview"}
  /\ aborted' = aborted \cup {session.id}
  /\ Finish(session.id, "Cancelled")
  /\ UNCHANGED <<live, nextId, taskVars, gate, landed>>

CancelSession ==
  /\ Command /\ state \in {"Recording", "Rectifying", "Preview"}
  /\ fired' = fired \cup {session.id}
  /\ attempts' = {[a EXCEPT !.cancelled = @ \/ a.plan = session.token] :
                    a \in attempts}
  /\ aborted' = aborted \cup {session.id}
  /\ Finish(session.id, "Cancelled")
  /\ UNCHANGED <<live, nextId, asr, nextPlan, pastes, gate, landed>>

\* The shell adopts an edit on screen before it pushes it here.
UpdatePreviewText ==
  /\ Command /\ state = "Preview"
  /\ LET text == Words("edit", session.id, 1) IN
       /\ session' = [session EXCEPT !.preview = text]
       /\ shown' = text
  /\ UNCHANGED <<live, state, nextId, ends, taskVars, gate, landed, aborted>>

\* The settings commands, and the runtime switches: they never touch the
\* session.
Switch(settings) ==
  /\ Command /\ settings # live
  /\ live' = settings
  /\ UNCHANGED <<taskVars, sharedVars, gate, landed, aborted>>

\* The text goes to the inserter with the gate held and the lock released.
ConfirmInsert ==
  /\ Command /\ state = "Preview"
  /\ gate' = Held("confirm")
  /\ UNCHANGED <<live, landed, aborted, taskVars, sharedVars>>

-----------------------------------------------------------------------------
(* The inserts under way: no region here asks again what the session is    *)
(* before it closes it, and history gets the pair once the insert stands.  *)

InsertLands ==
  /\ Scheduled /\ gate.op \in {"confirm", "paste"}
  /\ landed' = Append(landed, [sid |-> gate.sid, raw |-> gate.raw,
                               text |-> gate.text])
  /\ Finish(gate.sid, "Inserted")
  /\ gate' = FreeGate
  /\ UNCHANGED <<live, nextId, taskVars, aborted>>

\* A failed confirm stays in preview.
ConfirmFails ==
  /\ Scheduled /\ gate.op = "confirm"
  /\ gate' = FreeGate
  /\ UNCHANGED <<live, landed, aborted, taskVars, sharedVars>>

FaultyPasteFails ==  \* the failure is reported and the session left where it is
  /\ Scheduled /\ gate.op = "paste"
  /\ gate' = FreeGate
  /\ UNCHANGED <<live, landed, aborted, taskVars, sharedVars>>

\* A failed straight-through degrades into preview, unless the session moved.
PasteFails ==
  /\ Scheduled /\ gate.op = "paste"
  /\ IF state = gate.from /\ Matches(gate.sid)
     THEN /\ state' = "Preview"
          /\ session' = [session EXCEPT !.preview = gate.text, !.quick = FALSE]
          /\ shown' = IF gate.announce THEN shown \o gate.text ELSE shown
     ELSE UNCHANGED <<state, session, shown>>
  /\ gate' = FreeGate
  /\ UNCHANGED <<live, nextId, ends, taskVars, landed, aborted>>

FaultyPasteTakesGate(p) ==  \* the session is not looked at again
  /\ Command
  /\ pastes' = pastes \ {p}
  /\ gate' = [op |-> "paste", sid |-> p.sid, text |-> p.text, raw |-> p.raw,
              from |-> p.from, announce |-> p.announce]
  /\ UNCHANGED <<live, asr, fired, nextPlan, attempts, sharedVars, landed,
                 aborted>>

\* paste_through's check, under the gate it has just been given.
PasteTakesGate(p) ==
  /\ Command
  /\ pastes' = pastes \ {p}
  /\ gate' = IF state = p.from /\ Matches(p.sid)
             THEN [op |-> "paste", sid |-> p.sid, text |-> p.text,
                   raw |-> p.raw, from |-> p.from, announce |-> p.announce]
             ELSE gate
  /\ UNCHANGED <<live, asr, fired, nextPlan, attempts, sharedVars, landed,
                 aborted>>

-----------------------------------------------------------------------------
(* The open task and consume_asr *)

AsrMoves(s, step) == asr' = [asr EXCEPT ![s] = step]
SharedSame == UNCHANGED <<live, sharedVars, fired, nextPlan, attempts, pastes,
                          gate, landed, aborted>>

OpenSucceeds(s) ==
  /\ Scheduled /\ asr[s] = "opening" /\ s \notin fired
  /\ AsrMoves(s, IF Matches(s) /\ state = "Recording" THEN "listening"
                                                      ELSE "done")
  /\ SharedSame

\* A refused open and an expired open budget end the session alike.
OpenFails(s) ==
  /\ Scheduled /\ asr[s] = "opening" /\ s \notin fired
  /\ AsrMoves(s, "done")
  /\ IF Matches(s) /\ state = "Recording"
     THEN Finish(s, "Cancelled")
     ELSE UNCHANGED <<state, session, shown, ends>>
  /\ UNCHANGED <<live, nextId, fired, nextPlan, attempts, pastes, gate,
                 landed, aborted>>

\* Both selects are biased: a fired token wins over a ready event.
AsrCancelled(s) ==
  /\ Scheduled /\ asr[s] \in {"opening", "listening"} /\ s \in fired
  /\ AsrMoves(s, "done")
  /\ SharedSame

\* An event is out of the stream, the state lock not yet taken.
EventPulled(s, event) ==
  /\ Scheduled /\ asr[s] = "listening" /\ s \notin fired
  /\ AsrMoves(s, event)
  /\ SharedSame

StreamEnds(s) ==
  /\ Scheduled /\ asr[s] = "listening" /\ s \notin fired
  /\ AsrMoves(s, "done")
  /\ SharedSame

Current(s) == Matches(s) /\ state = "Recording"

StaleEvent(s) ==
  /\ asr[s] \in AsrEvents /\ ~Current(s)
  /\ AsrMoves(s, "done")
  /\ SharedSame

\* A transcript frame: the text after folding is any text.
TextEvent(s, heard) ==
  /\ asr[s] = "Text" /\ Current(s)
  /\ session' = [session EXCEPT !.heard = heard, !.spoke = TRUE]
  /\ AsrMoves(s, "listening")
  /\ UNCHANGED <<live, state, nextId, shown, ends, fired, nextPlan, attempts,
                 pastes, gate, landed, aborted>>

SpeechEvent(s, speaking) ==
  /\ asr[s] = "Speech" /\ Current(s)
  /\ session' = [session EXCEPT !.spoke = @ \/ speaking]
  /\ AsrMoves(s, "listening")
  /\ UNCHANGED <<live, state, nextId, shown, ends, fired, nextPlan, attempts,
                 pastes, gate, landed, aborted>>

\* Past the threshold the lock is dropped, and the planner runs on the next
\* line.  Passage mode and a held chord keep the session open.
SilenceEvent(s) ==
  /\ asr[s] = "Silence" /\ Current(s)
  /\ AsrMoves(s, IF session.passage \/ session.held THEN "listening"
                                                    ELSE "ending")
  /\ SharedSame

AutoEnd(s) ==
  /\ asr[s] = "ending"
  /\ AsrMoves(s, "done")
  /\ BeginRectify
  /\ UNCHANGED <<live, nextId, gate, landed, aborted>>

FailedEvent(s) ==
  /\ asr[s] = "Failed" /\ Current(s)
  /\ Finish(s, "Cancelled")
  /\ AsrMoves(s, "done")
  /\ UNCHANGED <<live, nextId, fired, nextPlan, attempts, pastes, gate,
                 landed, aborted>>

-----------------------------------------------------------------------------
(* rectify_task *)

Stands(a) == state = "Rectifying" /\ Matches(a.sid)
AttemptOver(a) == attempts' = attempts \ {a}
AttemptSame == UNCHANGED <<live, nextId, asr, fired, nextPlan, gate, landed,
                           aborted>>

AttemptCancelled(a) ==
  /\ Scheduled /\ a.cancelled
  /\ AttemptOver(a)
  /\ UNCHANGED <<state, session, shown, ends, pastes>> /\ AttemptSame

Chunk(a) ==
  /\ Scheduled /\ ~a.cancelled /\ Len(a.out) < MaxWords
  /\ LET delta == Words("body", a.plan, 1) IN
       IF Stands(a)
       THEN /\ attempts' = (attempts \ {a}) \cup {[a EXCEPT !.out = @ \o delta]}
            /\ shown' = shown \o delta
       ELSE AttemptOver(a) /\ UNCHANGED shown
  /\ UNCHANGED <<state, session, ends, pastes>> /\ AttemptSame

\* abort_rectifying: the hard cap expired or the model failed.  The aborting
\* session's own flag decides between discarding and degrading.
AttemptFails(a) ==
  /\ Scheduled /\ ~a.cancelled
  /\ AttemptOver(a)
  /\ IF ~Stands(a) THEN UNCHANGED <<state, session, shown, ends>>
     ELSE IF ~session.quick THEN Finish(a.sid, "Cancelled")
     ELSE /\ session' = [session EXCEPT !.preview = a.out, !.quick = FALSE]
          /\ state' = "Preview"
          /\ UNCHANGED <<shown, ends>>
  /\ UNCHANGED pastes /\ AttemptSame

\* The response is whole.  With sentinels in the request the splitter may
\* still hold a run back: it joins the body without having been streamed.
Body(a, tail) == a.out \o Words("body", a.plan, tail)
Tails(a) == IF a.pinned THEN {0, 1} ELSE {0}

AttemptLands(a, tail) ==
  /\ Scheduled /\ ~a.cancelled /\ ~a.quick
  /\ AttemptOver(a)
  /\ IF Stands(a)
     THEN /\ session' = [session EXCEPT !.preview = Body(a, tail)]
          /\ state' = "Preview"
     ELSE UNCHANGED <<state, session>>
  /\ UNCHANGED <<shown, ends, pastes>> /\ AttemptSame

\* A quick attempt's body waits for the gate instead of for a confirm.
AttemptPastes(a, tail) ==
  /\ Scheduled /\ ~a.cancelled /\ a.quick
  /\ AttemptOver(a)
  /\ IF Stands(a)
     THEN /\ session' = [session EXCEPT !.preview = Body(a, tail)]
          /\ pastes' = pastes \cup
               {[plan |-> a.plan, sid |-> a.sid, text |-> Body(a, tail),
                 raw |-> session.raw, from |-> "Rectifying",
                 announce |-> FALSE]}
     ELSE UNCHANGED <<session, pastes>>
  /\ UNCHANGED <<state, shown, ends>> /\ AttemptSame

-----------------------------------------------------------------------------
\* EngineConfig seeds the settings.
Init ==
  /\ live \in Configs
  /\ state = "Idle" /\ session = NoSession /\ nextId = 1
  /\ asr = [s \in Sids |-> "none"]
  /\ fired = {} /\ nextPlan = 1 /\ attempts = {} /\ pastes = {}
  /\ gate = FreeGate
  /\ shown = <<>> /\ landed = <<>>
  /\ ends = [s \in Sids |-> <<>>]
  /\ aborted = {}

UserStep ==
  \/ StartSession
  \/ \E words \in 0 .. MaxWords, sentinels \in 0 .. 1 :
       RectifyText(words, sentinels)
  \/ StopSession \/ Reroll \/ PinPlaceholder \/ MarkQuick \/ CancelSession
  \/ \E held \in BOOLEAN : HoldGate(held)
  \/ UpdatePreviewText \/ ConfirmInsert
  \/ \E settings \in Configs : Switch(settings)

GateStep == PlanHeld \/ InsertLands \/ ConfirmFails \/ PasteFails

AsrStep(s) ==
  \/ OpenSucceeds(s) \/ OpenFails(s) \/ AsrCancelled(s)
  \/ \E event \in AsrEvents : EventPulled(s, event)
  \/ StreamEnds(s) \/ StaleEvent(s)
  \/ \E heard \in 0 .. MaxWords : TextEvent(s, heard)
  \/ \E speaking \in BOOLEAN : SpeechEvent(s, speaking)
  \/ SilenceEvent(s) \/ AutoEnd(s) \/ FailedEvent(s)

AttemptStep(a) ==
  \/ AttemptCancelled(a) \/ Chunk(a) \/ AttemptFails(a)
  \/ \E tail \in Tails(a) : AttemptLands(a, tail) \/ AttemptPastes(a, tail)

Next ==
  \/ UserStep
  \/ GateStep
  \/ \E s \in Sids : AsrStep(s)
  \/ \E a \in attempts : AttemptStep(a)
  \/ \E p \in pastes : PasteTakesGate(p)

Spec == Init /\ [][Next]_vars

(* The inserter answers, an open is under its budget and a model call under *)
(* its hard cap; a task whose token fired or whose lock is free runs on.     *)
(* tokio's mutex is FIFO, so a paste that waits for the gate is served.      *)
\* The user, the recogniser's events and the chunks owe nothing.
OpenResolves(s) == OpenSucceeds(s) \/ OpenFails(s) \/ AsrCancelled(s)
EventHandled(s) ==
  \/ StaleEvent(s) \/ SilenceEvent(s) \/ AutoEnd(s) \/ FailedEvent(s)
  \/ \E heard \in 0 .. MaxWords : TextEvent(s, heard)
  \/ \E speaking \in BOOLEAN : SpeechEvent(s, speaking)
AttemptResolves(n) ==
  \E a \in attempts :
    /\ a.plan = n
    /\ \/ AttemptCancelled(a) \/ AttemptFails(a)
       \/ \E tail \in Tails(a) : AttemptLands(a, tail) \/ AttemptPastes(a, tail)
PasteServed(n) == \E p \in pastes : p.plan = n /\ PasteTakesGate(p)

Fairness ==
  /\ WF_vars(GateStep)
  /\ \A s \in Sids : WF_vars(OpenResolves(s)) /\ WF_vars(EventHandled(s))
  /\ \A n \in 1 .. MaxPlan + MaxSession :
       WF_vars(AttemptResolves(n)) /\ SF_vars(PasteServed(n))

FairSpec == Spec /\ Fairness

-----------------------------------------------------------------------------
(* Properties *)

\* Every variable has its type: the transient states Inserted and Cancelled
\* never outlive the lock region that passes through them.
TypeOK ==
  /\ live \in Configs
  /\ state \in States /\ session \in Session
  /\ nextId \in Nat \ {0} /\ nextPlan \in Nat \ {0}
  /\ asr \in [Sids -> AsrSteps]
  /\ fired \subseteq Nat /\ aborted \subseteq Nat
  /\ attempts \subseteq Attempt /\ pastes \subseteq Paste
  /\ gate \in Gate
  /\ shown \in Text
  /\ landed \in Seq([sid : Nat, raw : Text, text : Text])
  /\ ends \in [Sids -> Seq({"Inserted", "Cancelled"})]

\* The machine is idle exactly when no session exists: a command that finds
\* an active state may unwrap the session, and no session outlives its end.
IdleIffNone == (state = "Idle") <=> (session.id = 0)

\* Every path into rectifying or preview has frozen the utterance first (the
\* code's expect("frozen before preview")).
FrozenBeforePreview ==
  state \in {"Rectifying", "Preview"} => session.frozen

\* A quick session never reaches a preview with its flag up, whichever way
\* its insert or its attempt failed: a reroll there runs the ordinary path.
NeverQuickInPreview == state = "Preview" => ~session.quick

\* A pinned session is ordinary for its whole life, in whatever order the pin
\* and the hold threshold arrive.
PinnedNeverQuick == session.quick => session.pins = 0

\* A session's text reaches the target at most once, however many stops,
\* auto-ends and pastes were planned for it.
LandedOnce ==
  \A i, j \in DOMAIN landed : landed[i].sid = landed[j].sid => i = j

\* A session the user cancelled has zero output, then and later.
CancelHasNoOutput == \A i \in DOMAIN landed : landed[i].sid \notin aborted

\* The preview the shell shows, folded from chunks and edits, is the text a
\* confirm would insert ("Confirm what you see").  A pinned session has one
\* exception: a digit run the splitter held back to the end of the response
\* joins the preview without having been streamed, and a confirm inserts it
\* unseen.
ShownIsPreview == state = "Preview" =>
  \/ session.preview = shown
  \/ session.pins > 0 /\ session.preview = shown \o Words("body", session.token, 1)

\* Cancel reaches the model call: the attempt that still runs for the current
\* session holds the token the session would fire.
TokenIsLive ==
  \A a \in attempts : a.sid = session.id /\ ~a.cancelled => a.plan = session.token

(* What makes the invariants above inductive. *)

\* Session ids are handed out once and in order.
Born == 1 .. nextId - 1
IdsAreBorn ==
  /\ session.id \in Born \cup {0}
  /\ \A a \in attempts : a.sid \in Born
  /\ \A p \in pastes : p.sid \in Born
  /\ \A i \in DOMAIN landed : landed[i].sid \in Born
  /\ aborted \subseteq Born

\* What is current has neither been inserted nor cancelled, nor has what a
\* gate holder is inserting, although the lock is released meanwhile.
Inserting == gate.op \in {"confirm", "paste"}
Unfinished(sid) ==
  sid \notin aborted /\ \A i \in DOMAIN landed : landed[i].sid # sid
UnfinishedWork ==
  /\ Unfinished(session.id)
  /\ Inserting => gate.sid \in Born /\ Unfinished(gate.sid)

\* A recording session has no attempt, and a quick one no ordinary attempt.
AttemptsFollow ==
  \A a \in attempts : a.sid = session.id =>
    state # "Recording" /\ (session.quick => a.quick)

\* A paste is planned, and inserted, with the utterance frozen.
PasteIsFrozen ==
  /\ \A p \in pastes : p.sid = session.id => session.frozen
  /\ gate.op = "paste" /\ gate.sid = session.id => session.frozen

\* The inductive invariant of the proofs: the session's books always balance,
\* between any two lock regions of any tasks.
BooksBalance ==
  /\ IdleIffNone /\ FrozenBeforePreview /\ NeverQuickInPreview
  /\ PinnedNeverQuick /\ LandedOnce /\ CancelHasNoOutput
  /\ IdsAreBorn /\ UnfinishedWork /\ AttemptsFollow /\ PasteIsFrozen

-----------------------------------------------------------------------------
(* Properties of a runtime that polls one task at a time.  With MultiThread *)
(* the stale planner call of AutoEnd and an event that was already pulled   *)
(* when the recording froze refute each of them.                            *)

\* The session a confirm inserts is the current one, in preview, until the
\* inserter answers.
ConfirmUndisturbed ==
  gate.op = "confirm" => state = "Preview" /\ Matches(gate.sid)

\* No model call outlives its session unaware: one that still streams belongs
\* to the current session or has been told to stop.
NoOrphanAttempt == \A a \in attempts : a.cancelled \/ Matches(a.sid)

\* The engine implements the session contract.
Phase(s) ==
  IF s >= nextId THEN "unborn"
  ELSE IF session.id = s THEN "active"
  ELSE IF "Inserted" \in {ends[s][i] : i \in DOMAIN ends[s]} THEN "inserted"
  ELSE "cancelled"

Contract == INSTANCE SessionContract WITH
  phase <- [s \in Sids |-> Phase(s)],
  output <- [i \in DOMAIN landed |-> landed[i].sid]
ImplementsContract == Contract!Spec

-----------------------------------------------------------------------------
(* Liveness, under FairSpec *)

\* An attempt never wedges the machine: its hard cap, its failure or its text
\* moves the session on, a quick one through the gate as well.  And an accepted
\* stop ends the recording, also when the session stays in Recording until its
\* straight-through insert has landed or failed.
SessionMovesOn ==
  \A s \in Sids :
    /\ (state = "Rectifying" /\ session.id = s)
         ~> ~(state = "Rectifying" /\ session.id = s)
    /\ (gate.op = "stop" /\ session.id = s)
         ~> ~(state = "Recording" /\ session.id = s)

\* No recogniser stream, opening or open, outlives the recording of its
\* session, however the session ended: the microphone is let go.
MicReleased ==
  \A s \in Sids : (s < nextId /\ (session.id = s => session.frozen))
                  ~> asr[s] \in {"none", "done"}

=============================================================================
