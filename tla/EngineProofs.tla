---------------------------- MODULE EngineProofs ----------------------------
(***************************************************************************)
(* Theorems of Engine, for every bound and every set of settings: first    *)
(* about the commands, then about the tasks that outlive the command that  *)
(* planned them, the attempt, the straight-through paste and the           *)
(* recogniser's reader.  All hold of both kinds of runtime, but for those  *)
(* about the one that polls a task at a time.                              *)
(***************************************************************************)
EXTENDS Engine, SequenceTheorems, TLAPS

-----------------------------------------------------------------------------
(* Lemmas on the data *)

\* A run of words with one tag is a text.
LEMMA WordsIsText ==
  ASSUME NEW kind \in {"raw", "body", "edit"}, NEW of \in Nat, NEW n \in Nat
  PROVE  Words(kind, of, n) \in Text
<1>1. Words(kind, of, n) \in [1 .. n -> Word]
  BY DEF Words, Word
<1>2. QED
  BY <1>1 DEF Text

\* Texts are closed under joining, and the empty text is one.
LEMMA TextClosed ==
  /\ <<>> \in Text
  /\ \A a, b \in Text : a \o b \in Text
BY EmptySeq, ConcatProperties DEF Text

\* No session is typed as a session,
LEMMA NoSessionType == NoSession \in Session
BY TextClosed DEF NoSession, Session

\* a command that takes the gate as its holder,
LEMMA HeldType ==
  ASSUME TypeOK, NEW op \in Holders
  PROVE  Held(op) \in Gate
BY DEF Held, Gate, TypeOK, Session

\* a free gate as a gate,
LEMMA FreeGateType == FreeGate \in Gate
BY TextClosed DEF FreeGate, Gate, Holders, States

\* and a frozen session as a session.
LEMMA FrozenType ==
  ASSUME TypeOK
  PROVE  Frozen \in Session /\ Frozen.raw \in Text
<1>1. session.heard + session.pins \in Nat /\ session.id \in Nat
  BY DEF TypeOK, Session
<1>2. Words("raw", session.id, session.heard + session.pins) \in Text
  BY <1>1, WordsIsText
<1>3. QED
  BY <1>2 DEF Frozen, TypeOK, Session

\* The variables finish_session writes keep their types.
LEMMA FinishType ==
  ASSUME TypeOK, NEW sid \in Nat, NEW terminal \in {"Inserted", "Cancelled"},
         Finish(sid, terminal)
  PROVE  /\ state' \in States /\ session' \in Session /\ shown' \in Text
         /\ ends' \in [Sids -> Seq({"Inserted", "Cancelled"})]
<1>1. ends' \in [Sids -> Seq({"Inserted", "Cancelled"})]
  <2>1. ASSUME NEW s \in Sids
        PROVE  Append(ends[s], terminal) \in Seq({"Inserted", "Cancelled"})
    <3>1. ends[s] \in Seq({"Inserted", "Cancelled"})
      BY DEF TypeOK
    <3>2. QED
      BY <3>1, AppendProperties
  <2>2. ends' = [ends EXCEPT ![sid] = Append(@, terminal)]
    BY DEF Finish
  <2>3. QED
    BY <2>1, <2>2 DEF TypeOK
<1>2. QED
  BY <1>1, NoSessionType, TextClosed DEF Finish, States

\* The variables an attempt's start writes keep their types.
LEMMA RectifyType ==
  ASSUME TypeOK, NEW s \in Session, NEW quick \in BOOLEAN, Rectify(s, quick)
  PROVE  /\ state' \in States /\ session' \in Session /\ shown' \in Text
         /\ attempts' \subseteq Attempt /\ nextPlan' \in Nat \ {0}
<1>1. [plan |-> nextPlan, sid |-> s.id, quick |-> quick, pinned |-> s.pins > 0,
       cancelled |-> FALSE, out |-> <<>>] \in Attempt
  BY TextClosed DEF Attempt, TypeOK, Session
<1>2. [s EXCEPT !.token = nextPlan] \in Session
  BY DEF TypeOK, Session
<1>3. nextPlan + 1 \in Nat \ {0}
  BY DEF TypeOK
<1>4. QED
  BY <1>1, <1>2, <1>3, TextClosed DEF Rectify, TypeOK, States

\* So do those of the stop planner.
LEMMA BeginRectifyType ==
  ASSUME TypeOK, BeginRectify
  PROVE  /\ state' \in States /\ session' \in Session /\ shown' \in Text
         /\ ends' \in [Sids -> Seq({"Inserted", "Cancelled"})]
         /\ fired' \subseteq Nat /\ nextPlan' \in Nat \ {0}
         /\ attempts' \subseteq Attempt /\ pastes' \subseteq Paste
<1>0. session.id \in Nat /\ session.quick \in BOOLEAN
  BY DEF TypeOK, Session
<1>1. CASE state \notin {"Recording", "Preview"}
  BY <1>1 DEF BeginRectify, TypeOK
<1>2. CASE state = "Recording" /\ ~HasUtterance
  <2>1. Finish(session.id, "Cancelled")
    BY <1>2 DEF BeginRectify
  <2>2. QED
    BY <1>0, <1>2, <2>1, FinishType DEF BeginRectify, TypeOK
<1>3. CASE /\ state = "Recording" /\ HasUtterance
           /\ session.quick /\ ~session.quickRectify
  <2> DEFINE p == [plan |-> nextPlan, sid |-> session.id, text |-> Frozen.raw,
                   raw |-> Frozen.raw, from |-> "Recording", announce |-> TRUE]
  <2>1. p \in Paste
    BY <1>0, FrozenType DEF Paste, TypeOK, States
  <2>2. /\ fired' = fired \cup {session.id} /\ session' = Frozen
        /\ pastes' = pastes \cup {p} /\ nextPlan' = nextPlan + 1
        /\ UNCHANGED <<state, shown, ends, attempts>>
    BY <1>3 DEF BeginRectify
  <2> HIDE DEF p
  <2>3. nextPlan' \in Nat \ {0} /\ pastes' \subseteq Paste
    BY <2>1, <2>2 DEF TypeOK
  <2>4. QED
    BY <1>0, <2>2, <2>3, FrozenType DEF TypeOK
<1>4. CASE /\ state = "Recording" /\ HasUtterance
           /\ ~(session.quick /\ ~session.quickRectify)
  <2>1. Rectify(Frozen, session.quick)
    BY <1>4 DEF BeginRectify
  <2>2. QED
    BY <1>0, <1>4, <2>1, FrozenType, RectifyType DEF BeginRectify, TypeOK
<1>5. CASE state = "Preview"
  <2>1. Rectify(session, FALSE)
    BY <1>5 DEF BeginRectify
  <2>2. QED
    BY <1>5, <2>1, RectifyType DEF BeginRectify, TypeOK
<1>6. QED
  BY <1>1, <1>2, <1>3, <1>4, <1>5

-----------------------------------------------------------------------------
(* Type correctness *)

\* Every command keeps the types.
LEMMA UserType ==
  ASSUME TypeOK, UserStep
  PROVE  TypeOK'
<1>0. session.id \in Nat /\ session \in Session /\ live \in Configs
  BY DEF TypeOK, Session
<1>1. NewSession \in Session
  BY NoSessionType, BoundsAssumption DEF NewSession, TypeOK, Session
<1>2. CASE StartSession
  <2>1. session' \in Session /\ state' \in States /\ shown' \in Text
    BY <1>1, <1>2, TextClosed DEF StartSession, States
  <2>2. nextId' \in Nat \ {0}
    BY <1>2 DEF StartSession, TypeOK
  <2>3. asr' \in [Sids -> AsrSteps]
    <3>1. asr \in [Sids -> AsrSteps] /\ "opening" \in AsrSteps
      BY DEF TypeOK, AsrSteps
    <3>2. QED
      BY <1>2, <3>1 DEF StartSession
  <2>4. QED
    BY <1>2, <2>1, <2>2, <2>3 DEF StartSession, TypeOK
<1>3. ASSUME NEW words \in 0 .. MaxWords, NEW sentinels \in 0 .. 1,
             RectifyText(words, sentinels)
      PROVE  TypeOK'
  <2> DEFINE s == [NewSession EXCEPT !.heard = words, !.pins = sentinels,
                     !.frozen = TRUE,
                     !.raw = Words("raw", nextId, words + sentinels)]
  <2>1. words \in Nat /\ sentinels \in Nat
    BY BoundsAssumption
  <2>2. Words("raw", nextId, words + sentinels) \in Text
    BY <2>1, WordsIsText DEF TypeOK
  <2>3. s \in Session
    BY <1>1, <2>1, <2>2 DEF Session
  <2>4. Rectify(s, FALSE)
    BY <1>3 DEF RectifyText
  <2> HIDE DEF s
  <2>5. nextId' \in Nat \ {0}
    BY <1>3 DEF RectifyText, TypeOK
  <2>6. /\ state' \in States /\ session' \in Session /\ shown' \in Text
        /\ attempts' \subseteq Attempt /\ nextPlan' \in Nat \ {0}
    BY <2>3, <2>4, RectifyType
  <2>7. /\ UNCHANGED <<live, asr, fired, pastes, gate, landed, ends, aborted>>
    BY <1>3 DEF RectifyText
  <2>8. QED
    BY <2>5, <2>6, <2>7 DEF TypeOK
<1>4. CASE StopSession \/ Reroll \/ ConfirmInsert
  <2>1. gate' \in Gate
    BY <1>4, HeldType DEF StopSession, Reroll, ConfirmInsert, Holders
  <2>2. QED
    BY <1>4, <2>1
    DEF StopSession, Reroll, ConfirmInsert, TypeOK, taskVars, sharedVars
<1>5. CASE PinPlaceholder \/ MarkQuick \/ \E held \in BOOLEAN : HoldGate(held)
  <2>1. session' \in Session
    <3>1. CASE PinPlaceholder
      BY <1>0, <3>1 DEF PinPlaceholder, Session
    <3>2. CASE MarkQuick
      BY <1>0, <3>2 DEF MarkQuick, Session
    <3>3. CASE \E held \in BOOLEAN : HoldGate(held)
      BY <1>0, <3>3 DEF HoldGate, Session
    <3>4. QED
      BY <1>5, <3>1, <3>2, <3>3
  <2>2. QED
    BY <1>5, <2>1 DEF PinPlaceholder, MarkQuick, HoldGate, TypeOK, taskVars
<1>6. CASE CancelSession
  <2>1. Finish(session.id, "Cancelled")
    BY <1>6 DEF CancelSession
  <2>2. attempts' \subseteq Attempt
    <3>1. \A a \in Attempt :
            [a EXCEPT !.cancelled = @ \/ a.plan = session.token] \in Attempt
      BY DEF Attempt
    <3>2. QED
      BY <1>6, <3>1 DEF CancelSession, TypeOK
  <2>3. fired' \subseteq Nat /\ aborted' \subseteq Nat
    BY <1>0, <1>6 DEF CancelSession, TypeOK
  <2>4. QED
    BY <1>0, <1>6, <2>1, <2>2, <2>3, FinishType DEF CancelSession, TypeOK
<1>7. CASE UpdatePreviewText
  <2>1. Words("edit", session.id, 1) \in Text
    BY <1>0, WordsIsText
  <2>2. session' \in Session /\ shown' \in Text
    BY <1>0, <1>7, <2>1 DEF UpdatePreviewText, Session
  <2>3. QED
    BY <1>7, <2>2 DEF UpdatePreviewText, TypeOK, taskVars
<1>8. CASE \E settings \in Configs : Switch(settings)
  BY <1>8 DEF Switch, TypeOK, taskVars, sharedVars
<1>9. QED
  BY <1>2, <1>3, <1>4, <1>5, <1>6, <1>7, <1>8 DEF UserStep

\* So does every step of a gate holder.
LEMMA GateType ==
  ASSUME TypeOK, GateStep
  PROVE  TypeOK'
<1>0. gate.sid \in Nat /\ gate.text \in Text /\ gate.raw \in Text
  BY DEF TypeOK, Gate
<1>1. CASE PlanHeld
  BY <1>1, BeginRectifyType, FreeGateType DEF PlanHeld, TypeOK
<1>2. CASE InsertLands
  <2>1. landed' \in Seq([sid : Nat, raw : Text, text : Text])
    <3>1. [sid |-> gate.sid, raw |-> gate.raw, text |-> gate.text]
            \in [sid : Nat, raw : Text, text : Text]
      BY <1>0
    <3>2. QED
      BY <1>2, <3>1, AppendProperties DEF InsertLands, TypeOK
  <2>2. Finish(gate.sid, "Inserted")
    BY <1>2 DEF InsertLands
  <2>3. QED
    BY <1>0, <1>2, <2>1, <2>2, FinishType, FreeGateType
    DEF InsertLands, TypeOK, taskVars
<1>3. CASE ConfirmFails
  BY <1>3, FreeGateType DEF ConfirmFails, TypeOK, taskVars, sharedVars
<1>4. CASE PasteFails
  <2>1. [session EXCEPT !.preview = gate.text, !.quick = FALSE] \in Session
    BY <1>0 DEF TypeOK, Session
  <2>2. shown \o gate.text \in Text
    BY <1>0, TextClosed DEF TypeOK
  <2>3. state' \in States /\ session' \in Session /\ shown' \in Text
    BY <1>4, <2>1, <2>2 DEF PasteFails, TypeOK, States
  <2>4. QED
    BY <1>4, <2>3, FreeGateType DEF PasteFails, TypeOK, taskVars
<1>5. QED
  BY <1>1, <1>2, <1>3, <1>4 DEF GateStep

\* So does every step of a session's open task and consume_asr.
LEMMA AsrType ==
  ASSUME TypeOK, NEW s \in Sids, AsrStep(s)
  PROVE  TypeOK'
<1>0. s \in Nat
  BY BoundsAssumption DEF Sids
<1>1. asr' \in [Sids -> AsrSteps]
  <2>1. \E step \in AsrSteps : AsrMoves(s, step)
    BY DEF AsrStep, OpenSucceeds, OpenFails, AsrCancelled, EventPulled,
           StreamEnds, StaleEvent, TextEvent, SpeechEvent, SilenceEvent,
           AutoEnd, FailedEvent, AsrSteps
  <2>2. QED
    BY <2>1 DEF AsrMoves, TypeOK
<1>2. CASE \/ OpenSucceeds(s) \/ AsrCancelled(s) \/ StreamEnds(s)
           \/ StaleEvent(s) \/ SilenceEvent(s)
           \/ \E event \in AsrEvents : EventPulled(s, event)
  <2>1. SharedSame
    BY <1>2 DEF OpenSucceeds, AsrCancelled, StreamEnds, StaleEvent,
                SilenceEvent, EventPulled
  <2>2. QED
    BY <1>1, <2>1 DEF SharedSame, TypeOK, sharedVars
<1>3. CASE OpenFails(s)
  BY <1>0, <1>1, <1>3, FinishType DEF OpenFails, TypeOK
<1>4. CASE FailedEvent(s)
  BY <1>0, <1>1, <1>4, FinishType DEF FailedEvent, TypeOK
<1>5. CASE \E heard \in 0 .. MaxWords : TextEvent(s, heard)
  <2>1. PICK heard \in 0 .. MaxWords : TextEvent(s, heard)
    BY <1>5
  <2>2. heard \in Nat /\ session \in Session
    BY BoundsAssumption DEF TypeOK
  <2>3. [session EXCEPT !.heard = heard, !.spoke = TRUE] \in Session
    BY <2>2 DEF Session
  <2>4. QED
    BY <1>1, <2>1, <2>3 DEF TextEvent, TypeOK
<1>6. CASE \E speaking \in BOOLEAN : SpeechEvent(s, speaking)
  <2>1. session' \in Session
    BY <1>6, ZenonT(30) DEF SpeechEvent, TypeOK, Session
  <2>2. QED
    BY <1>1, <1>6, <2>1 DEF SpeechEvent, TypeOK
<1>7. CASE AutoEnd(s)
  BY <1>1, <1>7, BeginRectifyType DEF AutoEnd, TypeOK
<1>8. QED
  BY <1>2, <1>3, <1>4, <1>5, <1>6, <1>7 DEF AsrStep

\* So does every step of a rectify task.
LEMMA AttemptType ==
  ASSUME TypeOK, NEW a \in attempts, AttemptStep(a)
  PROVE  TypeOK'
<1>0. /\ a \in Attempt /\ a.out \in Text /\ a.plan \in Nat /\ a.sid \in Nat
      /\ session \in Session
  BY DEF TypeOK, Attempt
<1>1. ASSUME NEW tail \in Tails(a)
      PROVE  Body(a, tail) \in Text
  <2>1. tail \in Nat
    BY DEF Tails
  <2>2. QED
    BY <1>0, <2>1, WordsIsText, TextClosed DEF Body
<1>2. \A text \in Text : /\ [session EXCEPT !.preview = text] \in Session
                         /\ [session EXCEPT !.preview = text, !.quick = FALSE]
                              \in Session
  BY <1>0 DEF Session
<1>3. CASE AttemptCancelled(a)
  BY <1>3 DEF AttemptCancelled, AttemptOver, AttemptSame, TypeOK
<1>4. CASE Chunk(a)
  <2>1. Words("body", a.plan, 1) \in Text
    BY <1>0, WordsIsText
  <2>2. a.out \o Words("body", a.plan, 1) \in Text
    BY <1>0, <2>1, TextClosed
  <2>3. [a EXCEPT !.out = @ \o Words("body", a.plan, 1)] \in Attempt
    BY <1>0, <2>2 DEF Attempt
  <2>4. shown \o Words("body", a.plan, 1) \in Text
    BY <2>1, TextClosed DEF TypeOK
  <2>5. attempts' \subseteq Attempt /\ shown' \in Text
    BY <1>4, <2>3, <2>4 DEF Chunk, AttemptOver, TypeOK
  <2>6. QED
    BY <1>4, <2>5 DEF Chunk, AttemptSame, TypeOK
<1>5. CASE AttemptFails(a)
  <2>1. CASE ~Stands(a)
    BY <1>5, <2>1 DEF AttemptFails, AttemptOver, AttemptSame, TypeOK
  <2>2. CASE Stands(a) /\ ~session.quick
    BY <1>0, <1>5, <2>2, FinishType
    DEF AttemptFails, AttemptOver, AttemptSame, TypeOK
  <2>3. CASE Stands(a) /\ session.quick
    <3>1. session' \in Session /\ state' \in States
      BY <1>0, <1>2, <1>5, <2>3 DEF AttemptFails, States
    <3>2. QED
      BY <1>5, <2>3, <3>1 DEF AttemptFails, AttemptOver, AttemptSame, TypeOK
  <2>4. QED
    BY <2>1, <2>2, <2>3
<1>6. CASE \E tail \in Tails(a) : AttemptLands(a, tail)
  <2>1. session' \in Session /\ state' \in States
    BY <1>0, <1>1, <1>2, <1>6 DEF AttemptLands, TypeOK, States
  <2>2. QED
    BY <1>6, <2>1 DEF AttemptLands, AttemptOver, AttemptSame, TypeOK
<1>7. ASSUME NEW tail \in Tails(a), AttemptPastes(a, tail)
      PROVE  TypeOK'
  <2> DEFINE p == [plan |-> a.plan, sid |-> a.sid, text |-> Body(a, tail),
                   raw |-> session.raw, from |-> "Rectifying",
                   announce |-> FALSE]
  <2>1. p \in Paste
    BY <1>0, <1>1 DEF Paste, States, Session
  <2>2. \/ session' = [session EXCEPT !.preview = Body(a, tail)]
            /\ pastes' = pastes \cup {p}
        \/ UNCHANGED <<session, pastes>>
    BY <1>7 DEF AttemptPastes
  <2> HIDE DEF p
  <2>3. session' \in Session /\ pastes' \subseteq Paste
    BY <1>0, <1>1, <1>2, <2>1, <2>2 DEF TypeOK
  <2>4. QED
    BY <1>7, <2>3 DEF AttemptPastes, AttemptOver, AttemptSame, TypeOK
<1>8. QED
  BY <1>3, <1>4, <1>5, <1>6, <1>7 DEF AttemptStep

\* So does a paste that is given the gate.
LEMMA PasteType ==
  ASSUME TypeOK, NEW p \in pastes, PasteTakesGate(p)
  PROVE  TypeOK'
<1>1. [op |-> "paste", sid |-> p.sid, text |-> p.text, raw |-> p.raw,
       from |-> p.from, announce |-> p.announce] \in Gate
  BY DEF TypeOK, Paste, Gate, Holders
<1>2. gate' \in Gate
  BY <1>1 DEF PasteTakesGate, TypeOK
<1>3. QED
  BY <1>2 DEF PasteTakesGate, TypeOK, sharedVars

\* Every reachable state has the types of TypeOK: Inserted and Cancelled
\* never outlive the lock region that passes through them.
THEOREM TypeCorrect == Spec => []TypeOK
<1>1. Init => TypeOK
  BY NoSessionType, FreeGateType, TextClosed, EmptySeq, BoundsAssumption
  DEF Init, TypeOK, States, AsrSteps
<1>2. TypeOK /\ [Next]_vars => TypeOK'
  <2>1. CASE UNCHANGED vars
    BY <2>1 DEF vars, TypeOK
  <2>2. QED
    BY <2>1, UserType, GateType, AsrType, AttemptType, PasteType DEF Next
<1>3. QED
  BY <1>1, <1>2, PTL DEF Spec

-----------------------------------------------------------------------------
(* The books balance *)

\* No paste or attempt of the next state is new to the books.
NothingPlanned ==
  /\ pastes' \subseteq pastes
  /\ \A a \in attempts' : \E b \in attempts : a.sid = b.sid /\ a.quick = b.quick

\* The gate is not newly given to an insert.
NoInsertStarts == gate' = gate \/ gate'.op \notin {"confirm", "paste"}

\* A step that leaves the machine where it is, and of the session at most the
\* text, keeps the books.
LEMMA BooksQuiet ==
  ASSUME TypeOK, BooksBalance, NothingPlanned, NoInsertStarts,
         UNCHANGED <<state, nextId, landed, aborted>>,
         session'.id = session.id, session'.quick = session.quick,
         session'.pins = session.pins, session'.frozen = session.frozen
  PROVE  BooksBalance'
<1>1. IdleIffNone' /\ FrozenBeforePreview' /\ NeverQuickInPreview'
      /\ PinnedNeverQuick'
  BY DEF BooksBalance, IdleIffNone, FrozenBeforePreview, NeverQuickInPreview,
         PinnedNeverQuick
<1>2. LandedOnce' /\ CancelHasNoOutput'
  BY DEF BooksBalance, LandedOnce, CancelHasNoOutput
<1>3. IdsAreBorn'
  BY DEF BooksBalance, IdsAreBorn, Born, NothingPlanned
<1>4. UnfinishedWork'
  BY DEF BooksBalance, UnfinishedWork, Unfinished, Inserting, Born,
         NoInsertStarts
<1>5. AttemptsFollow'
  BY DEF BooksBalance, AttemptsFollow, NothingPlanned
<1>6. PasteIsFrozen'
  BY DEF BooksBalance, PasteIsFrozen, NothingPlanned, NoInsertStarts
<1>7. QED
  BY <1>1, <1>2, <1>3, <1>4, <1>5, <1>6 DEF BooksBalance

\* A step that ends the current session without inserting it keeps the books,
\* when a cancelled session is no one's insert.
LEMMA BooksEnd ==
  ASSUME TypeOK, BooksBalance, NothingPlanned, NoInsertStarts,
         state' = "Idle", session' = NoSession,
         UNCHANGED <<nextId, landed>>,
         \/ aborted' = aborted
         \/ aborted' = aborted \cup {session.id} /\ session.id # 0 /\ ~Inserting'
  PROVE  BooksBalance'
<1>0. session'.id = 0 /\ session'.quick = FALSE /\ session'.pins = 0
  BY DEF NoSession
<1>1. IdleIffNone' /\ FrozenBeforePreview' /\ NeverQuickInPreview'
      /\ PinnedNeverQuick' /\ LandedOnce'
  BY <1>0 DEF BooksBalance, IdleIffNone, FrozenBeforePreview,
              NeverQuickInPreview, PinnedNeverQuick, LandedOnce
<1>2. CancelHasNoOutput'
  BY DEF BooksBalance, CancelHasNoOutput, UnfinishedWork, Unfinished
<1>3. IdsAreBorn'
  BY <1>0 DEF BooksBalance, IdsAreBorn, Born, NothingPlanned
<1>4. 0 \notin Born /\ Unfinished(0)'
  BY <1>3 DEF IdsAreBorn, Unfinished, Born
<1>5. UnfinishedWork'
  BY <1>0, <1>4 DEF BooksBalance, UnfinishedWork, Unfinished, Inserting, Born,
                    NoInsertStarts
<1>6. AttemptsFollow'
  BY <1>0, <1>4 DEF BooksBalance, AttemptsFollow, NothingPlanned, IdsAreBorn
<1>7. PasteIsFrozen'
  BY <1>0, <1>4 DEF BooksBalance, PasteIsFrozen, NothingPlanned, NoInsertStarts,
                    IdsAreBorn, UnfinishedWork, Inserting
<1>8. QED
  BY <1>1, <1>2, <1>3, <1>5, <1>6, <1>7 DEF BooksBalance

\* The session goes on, frozen: into a preview or an attempt, never back to a
\* recording, and its flag up only with an attempt that knows it.
LEMMA BooksMove ==
  ASSUME TypeOK, BooksBalance, NoInsertStarts,
         UNCHANGED <<nextId, landed, aborted>>,
         session.id # 0, session'.id = session.id, session'.frozen,
         session'.pins = session.pins, session'.quick => session.quick,
         state' # "Idle", state' = "Preview" => ~session'.quick,
         state' # "Recording",
         \A p \in pastes' : p \in pastes \/ p.sid = session.id,
         \A a \in attempts' :
           \/ a \in attempts
           \/ a.sid = session.id /\ (session'.quick => a.quick)
  PROVE  BooksBalance'
<1>1. IdleIffNone' /\ FrozenBeforePreview' /\ NeverQuickInPreview'
      /\ PinnedNeverQuick'
  BY DEF BooksBalance, IdleIffNone, FrozenBeforePreview, NeverQuickInPreview,
         PinnedNeverQuick
<1>2. LandedOnce' /\ CancelHasNoOutput'
  BY DEF BooksBalance, LandedOnce, CancelHasNoOutput
<1>3. IdsAreBorn'
  BY DEF BooksBalance, IdsAreBorn, Born
<1>4. UnfinishedWork'
  BY DEF BooksBalance, UnfinishedWork, Unfinished, Inserting, Born,
         NoInsertStarts
<1>5. AttemptsFollow'
  BY DEF BooksBalance, AttemptsFollow
<1>6. PasteIsFrozen'
  BY DEF BooksBalance, PasteIsFrozen
<1>7. QED
  BY <1>1, <1>2, <1>3, <1>4, <1>5, <1>6 DEF BooksBalance

\* An attempt that starts for the current session keeps the books.
LEMMA BooksRectify ==
  ASSUME TypeOK, BooksBalance, NoInsertStarts,
         UNCHANGED <<nextId, landed, aborted>>, pastes' = pastes,
         NEW s \in Session, Rectify(s, s.quick),
         session.id # 0, s.id = session.id, s.frozen, s.pins = session.pins,
         s.quick => session.quick
  PROVE  BooksBalance'
<1>1. /\ session'.id = session.id /\ session'.frozen
      /\ session'.pins = session.pins /\ session'.quick = s.quick
  BY DEF Rectify, Session
<1>2. ASSUME NEW a \in attempts', a \notin attempts
      PROVE  a.sid = session.id /\ a.quick = s.quick
  <2>1. a = [plan |-> nextPlan, sid |-> s.id, quick |-> s.quick,
             pinned |-> s.pins > 0, cancelled |-> FALSE, out |-> <<>>]
    BY <1>2 DEF Rectify
  <2>2. QED
    BY <2>1
<1>3. state' = "Rectifying"
  BY DEF Rectify
<1>4. QED
  BY <1>1, <1>2, <1>3, BooksMove

\* The stop planner keeps the books in whatever state it is called.
LEMMA BooksPlan ==
  ASSUME TypeOK, BooksBalance, BeginRectify, NoInsertStarts,
         UNCHANGED <<nextId, landed, aborted>>
  PROVE  BooksBalance'
<1>0. /\ session \in Session
      /\ state \in {"Recording", "Preview"} => session.id # 0
  BY DEF TypeOK, BooksBalance, IdleIffNone
<1>1. CASE state \notin {"Recording", "Preview"}
  BY <1>1, BooksQuiet DEF BeginRectify, NothingPlanned
<1>2. CASE state = "Recording" /\ ~HasUtterance
  <2>1. /\ Finish(session.id, "Cancelled")
        /\ UNCHANGED <<attempts, pastes>>
    BY <1>2 DEF BeginRectify
  <2>2. QED
    BY <2>1, BooksEnd DEF Finish, NothingPlanned
<1>3. CASE /\ state = "Recording" /\ HasUtterance
           /\ session.quick /\ ~session.quickRectify
  <2> DEFINE p == [plan |-> nextPlan, sid |-> session.id, text |-> Frozen.raw,
                   raw |-> Frozen.raw, from |-> "Recording", announce |-> TRUE]
  <2>1. /\ session' = Frozen /\ pastes' = pastes \cup {p}
        /\ UNCHANGED <<state, attempts>>
    BY <1>3 DEF BeginRectify
  <2>2. p.sid = session.id
    OBVIOUS
  <2>3. /\ session'.id = session.id /\ session'.frozen
        /\ session'.pins = session.pins /\ session'.quick = session.quick
    BY <1>0, <2>1 DEF Frozen, Session
  <2> HIDE DEF p
  <2>4. IdleIffNone' /\ FrozenBeforePreview' /\ NeverQuickInPreview'
        /\ PinnedNeverQuick' /\ LandedOnce' /\ CancelHasNoOutput'
    BY <2>1, <2>3
    DEF BooksBalance, IdleIffNone, FrozenBeforePreview, NeverQuickInPreview,
        PinnedNeverQuick, LandedOnce, CancelHasNoOutput
  <2>5. IdsAreBorn'
    BY <1>0, <1>3, <2>1, <2>2, <2>3 DEF BooksBalance, IdsAreBorn, Born
  <2>6. UnfinishedWork'
    BY <2>3 DEF BooksBalance, UnfinishedWork, Unfinished, Inserting, Born,
                NoInsertStarts
  <2>7. AttemptsFollow' /\ PasteIsFrozen'
    BY <2>1, <2>3 DEF BooksBalance, AttemptsFollow, PasteIsFrozen
  <2>8. QED
    BY <2>4, <2>5, <2>6, <2>7 DEF BooksBalance
<1>4. CASE /\ state = "Recording" /\ HasUtterance
           /\ ~(session.quick /\ ~session.quickRectify)
  <2>1. Rectify(Frozen, session.quick) /\ pastes' = pastes
    BY <1>4 DEF BeginRectify
  <2>2. /\ Frozen.id = session.id /\ Frozen.frozen
        /\ Frozen.pins = session.pins /\ Frozen.quick = session.quick
    BY <1>0 DEF Frozen, Session
  <2>3. QED
    BY <1>0, <1>4, <2>1, <2>2, FrozenType, BooksRectify
<1>5. CASE state = "Preview"
  <2>1. Rectify(session, FALSE) /\ pastes' = pastes
    BY <1>5 DEF BeginRectify
  <2>2. session.quick = FALSE /\ session.frozen
    BY <1>0, <1>5
    DEF BooksBalance, NeverQuickInPreview, FrozenBeforePreview, Session
  <2>3. QED
    BY <1>0, <1>5, <2>1, <2>2, BooksRectify
<1>6. QED
  BY <1>1, <1>2, <1>3, <1>4, <1>5

\* Every command keeps the books.
LEMMA UserBooks ==
  ASSUME TypeOK, BooksBalance, UserStep
  PROVE  BooksBalance'
<1>0. /\ session \in Session /\ session.id \in Nat /\ nextId \in Nat \ {0}
      /\ state # "Idle" => session.id # 0
  BY DEF TypeOK, Session, BooksBalance, IdleIffNone
<1>1. NewSession \in Session /\ NewSession.id = nextId /\ NewSession.quick = FALSE
      /\ NewSession.pins = 0
  BY <1>0, NoSessionType, BoundsAssumption DEF NewSession, NoSession, TypeOK, Session
\* A session that is born takes an id no book knows.
<1>2. ASSUME nextId' = nextId + 1, session'.id = nextId, Free,
             session'.quick = FALSE, state' # "Idle",
             state' = "Recording" => attempts' = attempts,
             state' \in {"Rectifying", "Preview"} => session'.frozen,
             \A a \in attempts' : a \in attempts \/ a.sid = nextId,
             UNCHANGED <<pastes, gate, landed, aborted>>
      PROVE  BooksBalance'
  <2>1. nextId \notin Born /\ Born \subseteq Born' /\ nextId \in Born'
    BY <1>0, <1>2 DEF Born
  <2>2. IdleIffNone' /\ FrozenBeforePreview' /\ NeverQuickInPreview'
        /\ PinnedNeverQuick' /\ LandedOnce' /\ CancelHasNoOutput'
    BY <1>0, <1>2
    DEF BooksBalance, IdleIffNone, FrozenBeforePreview, NeverQuickInPreview,
        PinnedNeverQuick, LandedOnce, CancelHasNoOutput
  <2>3. IdsAreBorn'
    BY <1>2, <2>1 DEF BooksBalance, IdsAreBorn
  <2>4. UnfinishedWork'
    BY <1>2, <2>1
    DEF BooksBalance, IdsAreBorn, UnfinishedWork, Unfinished, Inserting, Free
  <2>5. AttemptsFollow'
    BY <1>2, <2>1 DEF BooksBalance, IdsAreBorn, AttemptsFollow
  <2>6. PasteIsFrozen'
    BY <1>2, <2>1 DEF BooksBalance, IdsAreBorn, PasteIsFrozen, Free
  <2>7. QED
    BY <2>2, <2>3, <2>4, <2>5, <2>6 DEF BooksBalance
<1>3. CASE StartSession
  <2>1. session' = NewSession /\ state' = "Recording" /\ nextId' = nextId + 1
        /\ Free /\ UNCHANGED <<attempts, pastes, gate, landed, aborted>>
    BY <1>3 DEF StartSession, Command
  <2>2. QED
    BY <1>1, <1>2, <2>1
<1>4. ASSUME NEW words \in 0 .. MaxWords, NEW sentinels \in 0 .. 1,
             RectifyText(words, sentinels)
      PROVE  BooksBalance'
  <2> DEFINE s == [NewSession EXCEPT !.heard = words, !.pins = sentinels,
                     !.frozen = TRUE,
                     !.raw = Words("raw", nextId, words + sentinels)]
  <2>1. words \in Nat /\ sentinels \in Nat
    BY BoundsAssumption
  <2>2. Words("raw", nextId, words + sentinels) \in Text
    BY <1>0, <2>1, WordsIsText
  <2>3. s \in Session /\ s.id = nextId /\ s.quick = FALSE /\ s.frozen
    BY <1>1, <2>1, <2>2 DEF Session
  <2>4. Rectify(s, FALSE) /\ Free /\ nextId' = nextId + 1
        /\ UNCHANGED <<pastes, gate, landed, aborted>>
    BY <1>4 DEF RectifyText, Command
  <2> HIDE DEF s
  <2>5. /\ session'.id = nextId /\ session'.quick = FALSE /\ session'.frozen
        /\ state' = "Rectifying"
    BY <2>3, <2>4 DEF Rectify, Session
  <2>6. ASSUME NEW a \in attempts', a \notin attempts
        PROVE  a.sid = nextId
    <3>1. a = [plan |-> nextPlan, sid |-> s.id, quick |-> FALSE,
               pinned |-> s.pins > 0, cancelled |-> FALSE, out |-> <<>>]
      BY <2>4, <2>6 DEF Rectify
    <3>2. QED
      BY <2>3, <3>1
  <2>7. QED
    BY <1>2, <2>4, <2>5, <2>6
<1>5. CASE StopSession \/ Reroll
  <2>1. gate'.op \notin {"confirm", "paste"}
    BY <1>5 DEF StopSession, Reroll, Held
  <2>2. QED
    BY <1>5, <2>1, BooksQuiet
    DEF StopSession, Reroll, NothingPlanned, NoInsertStarts, taskVars, sharedVars
<1>6. CASE ConfirmInsert
  <2>1. /\ gate'.op = "confirm" /\ gate'.sid = session.id /\ session.id # 0
        /\ UNCHANGED <<state, session, nextId, attempts, pastes, landed, aborted>>
    BY <1>0, <1>6 DEF ConfirmInsert, Held, taskVars, sharedVars
  <2>2. UnfinishedWork'
    BY <2>1 DEF BooksBalance, UnfinishedWork, Unfinished, IdsAreBorn, Born
  <2>3. IdsAreBorn' /\ AttemptsFollow' /\ PasteIsFrozen'
    BY <2>1 DEF BooksBalance, IdsAreBorn, Born, AttemptsFollow, PasteIsFrozen
  <2>4. IdleIffNone' /\ FrozenBeforePreview' /\ NeverQuickInPreview'
        /\ PinnedNeverQuick' /\ LandedOnce' /\ CancelHasNoOutput'
    BY <2>1
    DEF BooksBalance, IdleIffNone, FrozenBeforePreview, NeverQuickInPreview,
        PinnedNeverQuick, LandedOnce, CancelHasNoOutput
  <2>5. QED
    BY <2>2, <2>3, <2>4 DEF BooksBalance
\* In Recording there is no attempt to contradict the flag, no preview yet.
<1>7. CASE PinPlaceholder \/ MarkQuick
  <2>1. /\ session'.id = session.id /\ session'.frozen = session.frozen
        /\ session'.quick => session'.pins = 0
        /\ state = "Recording"
        /\ UNCHANGED <<state, nextId, attempts, pastes, gate, landed, aborted>>
    <3>1. CASE PinPlaceholder
      BY <1>0, <3>1 DEF PinPlaceholder, Session, taskVars
    <3>2. CASE MarkQuick
      BY <1>0, <3>2 DEF MarkQuick, Session, taskVars
    <3>3. QED
      BY <1>7, <3>1, <3>2
  <2>2. UnfinishedWork' /\ IdsAreBorn' /\ PasteIsFrozen'
    BY <2>1 DEF BooksBalance, UnfinishedWork, Unfinished, Inserting, IdsAreBorn,
                Born, PasteIsFrozen
  <2>3. AttemptsFollow'
    BY <2>1 DEF BooksBalance, AttemptsFollow
  <2>4. IdleIffNone' /\ FrozenBeforePreview' /\ NeverQuickInPreview'
        /\ PinnedNeverQuick' /\ LandedOnce' /\ CancelHasNoOutput'
    BY <2>1
    DEF BooksBalance, IdleIffNone, FrozenBeforePreview, NeverQuickInPreview,
        PinnedNeverQuick, LandedOnce, CancelHasNoOutput
  <2>5. QED
    BY <2>2, <2>3, <2>4 DEF BooksBalance
<1>8. CASE \E held \in BOOLEAN : HoldGate(held)
  BY <1>0, <1>8, BooksQuiet
  DEF HoldGate, NothingPlanned, NoInsertStarts, Session, taskVars
<1>9. CASE UpdatePreviewText
  BY <1>0, <1>9, BooksQuiet
  DEF UpdatePreviewText, NothingPlanned, NoInsertStarts, Session, taskVars
<1>10. CASE \E settings \in Configs : Switch(settings)
  BY <1>10, BooksQuiet
  DEF Switch, NothingPlanned, NoInsertStarts, taskVars, sharedVars
<1>11. CASE CancelSession
  <2>1. NothingPlanned
    <3>1. ASSUME NEW a \in attempts'
          PROVE  \E b \in attempts : a.sid = b.sid /\ a.quick = b.quick
      <4>1. PICK b \in attempts :
              a = [b EXCEPT !.cancelled = @ \/ b.plan = session.token]
        BY <1>11 DEF CancelSession
      <4>2. b \in Attempt
        BY DEF TypeOK
      <4>3. QED
        BY <4>1, <4>2 DEF Attempt
    <3>2. QED
      BY <1>11, <3>1 DEF CancelSession, NothingPlanned
  <2>2. QED
    BY <1>0, <1>11, <2>1, BooksEnd
    DEF CancelSession, Finish, Command, Free, Inserting, NoInsertStarts
<1>12. QED
  BY <1>3, <1>4, <1>5, <1>6, <1>7, <1>8, <1>9, <1>10, <1>11 DEF UserStep

\* So does every step of a gate holder.
LEMMA GateBooks ==
  ASSUME TypeOK, BooksBalance, GateStep
  PROVE  BooksBalance'
<1>0. /\ session \in Session /\ FreeGate.op = "free"
      /\ state # "Idle" => session.id # 0
  BY DEF TypeOK, BooksBalance, IdleIffNone, FreeGate
<1>1. CASE PlanHeld
  BY <1>0, <1>1, BooksPlan DEF PlanHeld, NoInsertStarts
\* What lands is unfinished business: neither landed before nor cancelled.
<1>2. CASE InsertLands
  <2>1. /\ gate.sid \in Born /\ Unfinished(gate.sid)
        /\ landed \in Seq([sid : Nat, raw : Text, text : Text])
    BY <1>2 DEF InsertLands, BooksBalance, UnfinishedWork, Inserting, TypeOK
  <2> DEFINE e == [sid |-> gate.sid, raw |-> gate.raw, text |-> gate.text]
  <2>2. e \in [sid : Nat, raw : Text, text : Text] /\ e.sid = gate.sid
    BY DEF TypeOK, Gate
  <2>3. /\ landed' = Append(landed, e) /\ state' = "Idle"
        /\ session' = NoSession /\ gate'.op = "free"
        /\ UNCHANGED <<nextId, attempts, pastes, aborted>>
    BY <1>0, <1>2 DEF InsertLands, Finish, taskVars
  <2> HIDE DEF e
  <2>4. /\ Len(landed) \in Nat /\ DOMAIN landed = 1 .. Len(landed)
        /\ DOMAIN landed' = 1 .. Len(landed) + 1
        /\ \A i \in 1 .. Len(landed) : landed'[i] = landed[i]
        /\ landed'[Len(landed) + 1] = e
    BY <2>1, <2>2, <2>3, AppendProperties, LenProperties
  <2>5. session'.id = 0 /\ session'.quick = FALSE /\ session'.pins = 0
    BY <2>3 DEF NoSession
  <2>6. LandedOnce'
    BY <2>1, <2>2, <2>4 DEF BooksBalance, LandedOnce, Unfinished
  <2>7. CancelHasNoOutput'
    BY <2>1, <2>2, <2>3, <2>4 DEF BooksBalance, CancelHasNoOutput, Unfinished
  <2>8. IdsAreBorn'
    BY <2>1, <2>2, <2>3, <2>4, <2>5 DEF BooksBalance, IdsAreBorn, Born
  <2>9. 0 \notin Born'
    BY DEF Born
  <2>10. UnfinishedWork'
    BY <2>3, <2>5, <2>8, <2>9 DEF UnfinishedWork, Unfinished, Inserting, IdsAreBorn
  <2>11. AttemptsFollow' /\ PasteIsFrozen'
    BY <2>3, <2>5, <2>8, <2>9 DEF AttemptsFollow, PasteIsFrozen, IdsAreBorn
  <2>12. IdleIffNone' /\ FrozenBeforePreview' /\ NeverQuickInPreview'
         /\ PinnedNeverQuick'
    BY <2>3, <2>5 DEF IdleIffNone, FrozenBeforePreview, NeverQuickInPreview,
                      PinnedNeverQuick
  <2>13. QED
    BY <2>6, <2>7, <2>8, <2>10, <2>11, <2>12 DEF BooksBalance
<1>3. CASE ConfirmFails
  BY <1>0, <1>3, BooksQuiet
  DEF ConfirmFails, NothingPlanned, NoInsertStarts, taskVars, sharedVars
<1>4. CASE PasteFails /\ state = gate.from /\ Matches(gate.sid)
  <2>1. /\ session.id # 0 /\ gate.op = "paste" /\ gate.sid = session.id
        /\ session' = [session EXCEPT !.preview = gate.text, !.quick = FALSE]
        /\ state' = "Preview" /\ gate'.op = "free"
        /\ UNCHANGED <<nextId, attempts, pastes, landed, aborted>>
    BY <1>0, <1>4 DEF PasteFails, Matches, taskVars
  <2>2. session.frozen
    BY <2>1 DEF BooksBalance, PasteIsFrozen
  <2>3. /\ session'.id = session.id /\ session'.frozen
        /\ session'.pins = session.pins /\ session'.quick = FALSE
    BY <1>0, <2>1, <2>2 DEF Session
  <2>4. QED
    BY <2>1, <2>3, BooksMove DEF NoInsertStarts
<1>5. CASE PasteFails /\ ~(state = gate.from /\ Matches(gate.sid))
  BY <1>0, <1>5, BooksQuiet
  DEF PasteFails, NothingPlanned, NoInsertStarts, taskVars
<1>6. QED
  BY <1>1, <1>2, <1>3, <1>4, <1>5 DEF GateStep

\* So does every step of a session's open task and consume_asr, the planner
\* call that may find another session included.
LEMMA AsrBooks ==
  ASSUME TypeOK, BooksBalance, NEW s \in Sids, AsrStep(s)
  PROVE  BooksBalance'
<1>0. session \in Session
  BY DEF TypeOK
<1>1. CASE \/ OpenSucceeds(s) \/ AsrCancelled(s) \/ StreamEnds(s)
           \/ StaleEvent(s) \/ SilenceEvent(s)
           \/ \E event \in AsrEvents : EventPulled(s, event)
  <2>1. SharedSame
    BY <1>1 DEF OpenSucceeds, AsrCancelled, StreamEnds, StaleEvent,
                SilenceEvent, EventPulled
  <2>2. QED
    BY <2>1, BooksQuiet DEF SharedSame, sharedVars, NothingPlanned, NoInsertStarts
<1>2. CASE OpenFails(s) /\ Matches(s) /\ state = "Recording"
  BY <1>2, BooksEnd DEF OpenFails, Finish, NothingPlanned, NoInsertStarts
<1>3. CASE OpenFails(s) /\ ~(Matches(s) /\ state = "Recording")
  BY <1>3, BooksQuiet DEF OpenFails, NothingPlanned, NoInsertStarts
<1>4. CASE FailedEvent(s)
  BY <1>4, BooksEnd DEF FailedEvent, Finish, NothingPlanned, NoInsertStarts
<1>5. CASE \/ \E speaking \in BOOLEAN : SpeechEvent(s, speaking)
           \/ \E heard \in 0 .. MaxWords : TextEvent(s, heard)
  BY <1>0, <1>5, BooksQuiet
  DEF SpeechEvent, TextEvent, Session, NothingPlanned, NoInsertStarts
<1>6. CASE AutoEnd(s)
  BY <1>6, BooksPlan DEF AutoEnd, NoInsertStarts
<1>7. QED
  BY <1>1, <1>2, <1>3, <1>4, <1>5, <1>6 DEF AsrStep

\* So does every step of a rectify task, current or orphaned.
LEMMA AttemptBooks ==
  ASSUME TypeOK, BooksBalance, NEW a \in attempts, AttemptStep(a)
  PROVE  BooksBalance'
<1>0. session \in Session /\ a \in Attempt
  BY DEF TypeOK
<1>1. Stands(a) => /\ session.id # 0 /\ a.sid = session.id /\ session.frozen
                   /\ session.quick => a.quick
  BY DEF Stands, Matches, BooksBalance, FrozenBeforePreview, AttemptsFollow
<1>2. CASE AttemptCancelled(a)
  BY <1>2, BooksQuiet
  DEF AttemptCancelled, AttemptOver, AttemptSame, NothingPlanned, NoInsertStarts
<1>3. CASE Chunk(a)
  <2>1. NothingPlanned
    <3>1. [a EXCEPT !.out = @ \o Words("body", a.plan, 1)].sid = a.sid
          /\ [a EXCEPT !.out = @ \o Words("body", a.plan, 1)].quick = a.quick
      BY <1>0 DEF Attempt
    <3>2. QED
      BY <1>3, <3>1 DEF Chunk, AttemptOver, NothingPlanned
  <2>2. QED
    BY <1>3, <2>1, BooksQuiet DEF Chunk, AttemptSame, NoInsertStarts
<1>4. CASE AttemptFails(a) /\ ~Stands(a)
  BY <1>4, BooksQuiet
  DEF AttemptFails, AttemptOver, AttemptSame, NothingPlanned, NoInsertStarts
<1>5. CASE AttemptFails(a) /\ Stands(a) /\ ~session.quick
  BY <1>5, BooksEnd
  DEF AttemptFails, Finish, AttemptOver, AttemptSame, NothingPlanned,
      NoInsertStarts
<1>6. CASE AttemptFails(a) /\ Stands(a) /\ session.quick
  <2>1. /\ session' = [session EXCEPT !.preview = a.out, !.quick = FALSE]
        /\ state' = "Preview" /\ attempts' = attempts \ {a}
        /\ UNCHANGED <<pastes, nextId, gate, landed, aborted>>
    BY <1>6 DEF AttemptFails, AttemptOver, AttemptSame
  <2>2. /\ session'.id = session.id /\ session'.frozen
        /\ session'.pins = session.pins /\ session'.quick = FALSE
    BY <1>0, <1>1, <1>6, <2>1 DEF Session
  <2>3. QED
    BY <1>1, <1>6, <2>1, <2>2, BooksMove DEF NoInsertStarts
<1>7. ASSUME NEW tail \in Tails(a), AttemptLands(a, tail), Stands(a)
      PROVE  BooksBalance'
  <2>1. /\ session' = [session EXCEPT !.preview = Body(a, tail)]
        /\ state' = "Preview" /\ attempts' = attempts \ {a} /\ ~a.quick
        /\ UNCHANGED <<pastes, nextId, gate, landed, aborted>>
    BY <1>7 DEF AttemptLands, AttemptOver, AttemptSame
  <2>2. /\ session'.id = session.id /\ session'.frozen
        /\ session'.pins = session.pins /\ session'.quick = session.quick
    BY <1>0, <1>1, <1>7, <2>1 DEF Session
  <2>3. QED
    BY <1>1, <1>7, <2>1, <2>2, BooksMove DEF NoInsertStarts
<1>8. ASSUME NEW tail \in Tails(a), AttemptPastes(a, tail), Stands(a)
      PROVE  BooksBalance'
  <2> DEFINE p == [plan |-> a.plan, sid |-> a.sid, text |-> Body(a, tail),
                   raw |-> session.raw, from |-> "Rectifying",
                   announce |-> FALSE]
  <2>1. /\ session' = [session EXCEPT !.preview = Body(a, tail)]
        /\ pastes' = pastes \cup {p} /\ state' = "Rectifying"
        /\ attempts' = attempts \ {a}
        /\ UNCHANGED <<nextId, gate, landed, aborted>>
    BY <1>8 DEF AttemptPastes, AttemptOver, AttemptSame, Stands
  <2>2. p.sid = session.id
    BY <1>1, <1>8
  <2> HIDE DEF p
  <2>3. /\ session'.id = session.id /\ session'.frozen
        /\ session'.pins = session.pins /\ session'.quick = session.quick
    BY <1>0, <1>1, <1>8, <2>1 DEF Session
  <2>4. \A q \in pastes' : q \in pastes \/ q.sid = session.id
    BY <2>1, <2>2
  <2>5. QED
    BY <1>1, <1>8, <2>1, <2>3, <2>4, BooksMove DEF NoInsertStarts
<1>9. CASE /\ ~Stands(a)
           /\ \E tail \in Tails(a) : AttemptLands(a, tail) \/ AttemptPastes(a, tail)
  BY <1>9, BooksQuiet
  DEF AttemptLands, AttemptPastes, AttemptOver, AttemptSame, NothingPlanned,
      NoInsertStarts
<1>10. QED
  BY <1>2, <1>3, <1>4, <1>5, <1>6, <1>7, <1>8, <1>9 DEF AttemptStep

\* So does a paste that is given the gate: its check, under the gate, is that
\* its session is still the current one.
LEMMA PasteBooks ==
  ASSUME TypeOK, BooksBalance, NEW p \in pastes, PasteTakesGate(p)
  PROVE  BooksBalance'
<1>1. CASE ~(state = p.from /\ Matches(p.sid))
  BY <1>1, BooksQuiet
  DEF PasteTakesGate, NothingPlanned, NoInsertStarts, sharedVars
<1>2. CASE state = p.from /\ Matches(p.sid)
  <2>1. /\ gate'.sid = session.id /\ pastes' \subseteq pastes /\ p.sid = session.id
        /\ UNCHANGED <<state, session, nextId, attempts, landed, aborted>>
    BY <1>2 DEF PasteTakesGate, Matches, sharedVars
  <2>2. UnfinishedWork' /\ IdsAreBorn'
    BY <2>1 DEF BooksBalance, UnfinishedWork, Unfinished, IdsAreBorn, Born
  <2>3. AttemptsFollow' /\ PasteIsFrozen'
    BY <2>1 DEF BooksBalance, AttemptsFollow, PasteIsFrozen
  <2>4. IdleIffNone' /\ FrozenBeforePreview' /\ NeverQuickInPreview'
        /\ PinnedNeverQuick' /\ LandedOnce' /\ CancelHasNoOutput'
    BY <2>1
    DEF BooksBalance, IdleIffNone, FrozenBeforePreview, NeverQuickInPreview,
        PinnedNeverQuick, LandedOnce, CancelHasNoOutput
  <2>5. QED
    BY <2>2, <2>3, <2>4 DEF BooksBalance
<1>3. QED
  BY <1>1, <1>2

\* The books balance in every reachable state, with as many sessions, plans
\* and settings as one likes and tasks interleaved at every lock region.
THEOREM BooksAlwaysBalance == Spec => []BooksBalance
<1>1. Init => BooksBalance
  BY DEF Init, NoSession, FreeGate, BooksBalance, IdleIffNone,
         FrozenBeforePreview, NeverQuickInPreview, PinnedNeverQuick, LandedOnce,
         CancelHasNoOutput, IdsAreBorn, UnfinishedWork, Unfinished, Inserting,
         AttemptsFollow, PasteIsFrozen, Born
<1>2. TypeOK /\ BooksBalance /\ [Next]_vars => BooksBalance'
  <2>1. ASSUME TypeOK, BooksBalance, UNCHANGED vars
        PROVE  BooksBalance'
    BY <2>1, BooksQuiet DEF vars, NothingPlanned, NoInsertStarts
  <2>2. QED
    BY <2>1, UserBooks, GateBooks, AsrBooks, AttemptBooks, PasteBooks DEF Next
<1>3. QED
  BY <1>1, <1>2, TypeCorrect, PTL DEF Spec

\* A session's text reaches the target at most once: the stop, the auto-end
\* and every paste planned for it share one insert.
THEOREM InsertedAtMostOnce == Spec => []LandedOnce
BY BooksAlwaysBalance, PTL DEF BooksBalance

\* A session the user cancelled never puts text on the target, whatever
\* attempt, paste or recogniser event was still in flight.
THEOREM CancelIsFinal == Spec => []CancelHasNoOutput
BY BooksAlwaysBalance, PTL DEF BooksBalance

\* A quick session reaches a preview only as an ordinary session.
THEOREM QuickDegrades == Spec => []NeverQuickInPreview
BY BooksAlwaysBalance, PTL DEF BooksBalance

\* The unwraps of the code are safe: an active state has a session, and a
\* rectifying or previewing one has frozen its utterance.
THEOREM UnwrapsAreSafe == Spec => [](IdleIffNone /\ FrozenBeforePreview)
BY BooksAlwaysBalance, PTL DEF BooksBalance

-----------------------------------------------------------------------------
(* One response at a time, with any runtime *)

Running(a) == a.sid = session.id /\ ~a.cancelled

\* The pastes of the current session that wait for the gate or hold it.
Waiting(p, from) == p.sid = session.id /\ p.from = from
Pasting(from) == gate.op = "paste" /\ Waiting(gate, from)

\* No two attempts share a plan, and the next one is unused.
PlansAreUnique ==
  /\ \A a \in attempts : a.plan < nextPlan
  /\ \A a, b \in attempts : a.plan = b.plan => a = b

\* An attempt that runs is the session's only response, and the shell has
\* been shown what it has streamed.
AttemptIsShown ==
  \A a \in attempts : Running(a) =>
    /\ state = "Rectifying" /\ shown = a.out
    /\ session.pins = 0 => ~a.pinned

\* A quick attempt's request carries no sentinel.
QuickIsUnpinned == \A a \in attempts : a.quick => ~a.pinned

\* A response on its way to the target is the session's only one as well.
PasteIsOnly ==
  /\ \A p \in pastes : Waiting(p, "Rectifying") => ~Pasting("Rectifying")
  /\ \A p, q \in pastes :
       Waiting(p, "Rectifying") /\ Waiting(q, "Rectifying") => p = q
  /\ Pasting("Rectifying") \/ (\E p \in pastes : Waiting(p, "Rectifying")) =>
       state = "Rectifying" /\ \A a \in attempts : ~Running(a)

\* What a paste would leave in a preview, should it fail, is what the shell
\* shows, or will show once the paste announces it.
PasteShows(p) ==
  /\ p.from \in {"Recording", "Rectifying"}
  /\ p.announce = (p.from = "Recording")
  /\ Waiting(p, "Rectifying") => shown = p.text
PasteIsShown ==
  /\ \A p \in pastes : PasteShows(p)
  /\ gate.op = "paste" => PasteShows(gate)
  /\ state = "Recording" => shown = <<>>

OneResponse ==
  /\ PlansAreUnique /\ TokenIsLive /\ AttemptIsShown /\ QuickIsUnpinned
  /\ PasteIsOnly /\ PasteIsShown /\ ShownIsPreview

\* Nothing is planned: of the attempts and pastes some may be gone.
NothingNew ==
  /\ attempts' \subseteq attempts /\ pastes' \subseteq pastes
  /\ nextPlan' = nextPlan
  /\ gate' = gate \/ gate'.op # "paste"

\* A step that plans nothing and leaves what the user sees keeps the response.
LEMMA ResponseQuiet ==
  ASSUME OneResponse, NothingNew, UNCHANGED <<state, shown>>,
         session'.id = session.id, session'.pins = session.pins,
         session'.token = session.token, session'.preview = session.preview
  PROVE  OneResponse'
<1>1. PlansAreUnique' /\ TokenIsLive'
  BY DEF OneResponse, PlansAreUnique, TokenIsLive, NothingNew
<1>2. AttemptIsShown' /\ QuickIsUnpinned'
  BY DEF OneResponse, AttemptIsShown, QuickIsUnpinned, Running, NothingNew
<1>3. PasteIsOnly'
  BY DEF OneResponse, PasteIsOnly, Waiting, Pasting, Running, NothingNew
<1>4. PasteIsShown' /\ ShownIsPreview'
  BY DEF OneResponse, PasteIsShown, PasteShows, Waiting, ShownIsPreview, NothingNew
<1>5. QED
  BY <1>1, <1>2, <1>3, <1>4 DEF OneResponse

\* What an id that no book knows has: no attempt and no paste.
Unbooked(sid) ==
  /\ \A a \in attempts : a.sid # sid
  /\ \A p \in pastes : p.sid # sid
  /\ gate.op = "paste" => gate.sid # sid

\* No task is booked under no session, or under one still to come.
LEMMA StrangersAreUnbooked ==
  ASSUME TypeOK, BooksBalance
  PROVE  Unbooked(0) /\ Unbooked(nextId)
<1>1. 0 \notin Born /\ nextId \notin Born
  BY DEF Born, TypeOK
<1>2. QED
  BY <1>1 DEF BooksBalance, IdsAreBorn, UnfinishedWork, Inserting, Unbooked

\* A session that ends or begins leaves the others' tasks as strangers.
LEMMA ResponseTurns ==
  ASSUME OneResponse, Unbooked(session'.id), shown' = <<>>, state' # "Preview",
         pastes' \subseteq pastes, nextPlan' = nextPlan,
         gate' = gate \/ gate'.op # "paste",
         \A a \in attempts' : \E b \in attempts :
           /\ a.plan = b.plan /\ a.sid = b.sid
           /\ a.quick = b.quick /\ a.pinned = b.pinned,
         \A a, b \in attempts' : a.plan = b.plan => a = b
  PROVE  OneResponse'
<1>1. \A a \in attempts' : a.sid # session'.id
  BY DEF Unbooked
<1>2. \A p \in pastes' : p.sid # session'.id
  BY DEF Unbooked
<1>3. gate'.op = "paste" => gate' = gate /\ gate'.sid # session'.id
  BY DEF Unbooked
<1>4. PlansAreUnique'
  BY DEF OneResponse, PlansAreUnique
<1>5. TokenIsLive' /\ AttemptIsShown' /\ QuickIsUnpinned'
  BY <1>1 DEF OneResponse, TokenIsLive, AttemptIsShown, QuickIsUnpinned, Running
<1>6. PasteIsOnly'
  BY <1>1, <1>2, <1>3 DEF PasteIsOnly, Waiting, Pasting
<1>7. PasteIsShown' /\ ShownIsPreview'
  BY <1>2, <1>3 DEF OneResponse, PasteIsShown, PasteShows, Waiting, ShownIsPreview
<1>8. QED
  BY <1>4, <1>5, <1>6, <1>7 DEF OneResponse

\* A new attempt, where the session has no response yet, is the response.
LEMMA ResponseStarts ==
  ASSUME TypeOK, OneResponse, NEW s \in Session, NEW quick \in BOOLEAN,
         Rectify(s, quick), pastes' = pastes,
         gate' = gate \/ gate'.op # "paste",
         \A a \in attempts : a.sid = s.id => a.cancelled,
         \A p \in pastes : ~(p.sid = s.id /\ p.from = "Rectifying"),
         gate.op = "paste" => ~(gate.sid = s.id /\ gate.from = "Rectifying"),
         quick => s.pins = 0
  PROVE  OneResponse'
<1> DEFINE n == [plan |-> nextPlan, sid |-> s.id, quick |-> quick,
                 pinned |-> s.pins > 0, cancelled |-> FALSE, out |-> <<>>]
<1>0. s.pins = 0 => ~n.pinned
  <2>1. s.pins = 0 => (s.pins > 0) = FALSE
    OBVIOUS
  <2>2. n.pinned = (s.pins > 0)
    BY Zenon
  <2>3. QED
    BY <2>1, <2>2, Zenon
<1>1. /\ n.plan = nextPlan /\ n.sid = s.id /\ n.out = <<>> /\ n.quick = quick
      /\ s.pins \in Nat /\ nextPlan \in Nat
  BY DEF TypeOK, Session
<1>2. attempts' = attempts \cup {n} /\ nextPlan' = nextPlan + 1
      /\ session' = [s EXCEPT !.token = nextPlan] /\ state' = "Rectifying"
      /\ shown' = <<>>
  BY DEF Rectify
<1> HIDE DEF n
<1>3. session'.id = s.id /\ session'.token = nextPlan /\ session'.pins = s.pins
  BY <1>2 DEF Session
<1>4. \A a \in attempts : a.plan \in Nat /\ a.plan < nextPlan
  BY DEF OneResponse, PlansAreUnique, TypeOK, Attempt
<1>5. PlansAreUnique'
  BY <1>1, <1>2, <1>4 DEF OneResponse, PlansAreUnique
<1>6. \A a \in attempts' : a.sid = session'.id /\ ~a.cancelled => a = n
  BY <1>2, <1>3
<1>7. TokenIsLive'
  BY <1>1, <1>3, <1>6 DEF TokenIsLive
<1>8. AttemptIsShown'
  BY <1>0, <1>1, <1>2, <1>3, <1>6 DEF AttemptIsShown, Running
<1>9. /\ \A p \in pastes' : ~Waiting(p, "Rectifying")'
      /\ ~Pasting("Rectifying")'
  BY <1>3 DEF Waiting, Pasting
<1>10. PasteIsOnly'
  BY <1>9 DEF PasteIsOnly
<1>11. PasteIsShown'
  BY <1>2, <1>9 DEF OneResponse, PasteIsShown, PasteShows, Pasting
<1>12. ShownIsPreview'
  BY <1>2 DEF ShownIsPreview
<1>13. QuickIsUnpinned'
  BY <1>0, <1>1, <1>2 DEF OneResponse, QuickIsUnpinned
<1>14. QED
  BY <1>5, <1>7, <1>8, <1>10, <1>11, <1>12, <1>13 DEF OneResponse

\* The stop planner keeps it to one response in whatever state it is called.
LEMMA ResponsePlan ==
  ASSUME TypeOK, BooksBalance, OneResponse, BeginRectify,
         gate' = gate \/ gate'.op # "paste"
  PROVE  OneResponse'
<1>0. session \in Session /\ Frozen \in Session
  BY FrozenType DEF TypeOK
<1>1. CASE state \notin {"Recording", "Preview"}
  BY <1>1, ResponseQuiet DEF BeginRectify, NothingNew
<1>2. CASE state = "Recording" /\ ~HasUtterance
  <2>1. /\ session'.id = 0 /\ shown' = <<>> /\ state' = "Idle"
        /\ UNCHANGED <<nextPlan, attempts, pastes>>
    BY <1>2 DEF BeginRectify, Finish, NoSession
  <2>2. QED
    BY <2>1, StrangersAreUnbooked, ResponseTurns DEF OneResponse, PlansAreUnique
<1>3. CASE /\ state = "Recording" /\ HasUtterance
           /\ session.quick /\ ~session.quickRectify
  <2> DEFINE p == [plan |-> nextPlan, sid |-> session.id, text |-> Frozen.raw,
                   raw |-> Frozen.raw, from |-> "Recording", announce |-> TRUE]
  <2>1. /\ session' = Frozen /\ pastes' = pastes \cup {p}
        /\ nextPlan' = nextPlan + 1 /\ UNCHANGED <<state, shown, attempts>>
    BY <1>3 DEF BeginRectify
  <2>2. p.from = "Recording" /\ p.announce = TRUE
    OBVIOUS
  <2>3. /\ session'.id = session.id /\ session'.pins = session.pins
        /\ session'.token = session.token /\ session'.preview = session.preview
    BY <1>0, <2>1 DEF Frozen, Session
  <2> HIDE DEF p
  <2>4. \A a \in attempts : a.plan \in Nat /\ nextPlan \in Nat
    BY DEF TypeOK, Attempt
  <2>5. PlansAreUnique' /\ TokenIsLive'
    BY <2>1, <2>3, <2>4 DEF OneResponse, PlansAreUnique, TokenIsLive
  <2>6. AttemptIsShown' /\ QuickIsUnpinned' /\ ShownIsPreview'
    BY <1>3, <2>1, <2>3
    DEF OneResponse, AttemptIsShown, QuickIsUnpinned, Running, ShownIsPreview
  <2>7. PasteIsOnly'
    BY <2>1, <2>2, <2>3 DEF OneResponse, PasteIsOnly, Waiting, Pasting, Running
  <2>8. PasteIsShown'
    BY <2>1, <2>2, <2>3 DEF OneResponse, PasteIsShown, PasteShows, Waiting
  <2>9. QED
    BY <2>5, <2>6, <2>7, <2>8 DEF OneResponse
<1>4. CASE /\ state = "Recording" /\ HasUtterance
           /\ ~(session.quick /\ ~session.quickRectify)
  <2>1. Rectify(Frozen, session.quick) /\ pastes' = pastes /\ session.quick \in BOOLEAN
    BY <1>0, <1>4 DEF BeginRectify, Session
  <2>2. Frozen.id = session.id /\ (session.quick => Frozen.pins = 0)
    BY <1>0 DEF Frozen, Session, BooksBalance, PinnedNeverQuick
  <2>3. \A a \in attempts : a.sid # session.id
    BY <1>4 DEF BooksBalance, AttemptsFollow
  <2>4. /\ \A p \in pastes : ~Waiting(p, "Rectifying")
        /\ ~Pasting("Rectifying")
    BY <1>4 DEF OneResponse, PasteIsOnly
  <2>5. QED
    BY <1>0, <2>1, <2>2, <2>3, <2>4, ResponseStarts DEF Waiting, Pasting
<1>5. CASE state = "Preview"
  <2>1. Rectify(session, FALSE) /\ pastes' = pastes
    BY <1>5 DEF BeginRectify
  <2>2. \A a \in attempts : a.sid = session.id => a.cancelled
    BY <1>5 DEF OneResponse, AttemptIsShown, Running
  <2>3. /\ \A p \in pastes : ~Waiting(p, "Rectifying")
        /\ ~Pasting("Rectifying")
    BY <1>5 DEF OneResponse, PasteIsOnly
  <2>4. QED
    BY <1>0, <2>1, <2>2, <2>3, ResponseStarts DEF Waiting, Pasting
<1>6. QED
  BY <1>1, <1>2, <1>3, <1>4, <1>5

\* Every command keeps it to one response.
LEMMA UserResponse ==
  ASSUME TypeOK, BooksBalance, OneResponse, UserStep
  PROVE  OneResponse'
<1>0. session \in Session
  BY DEF TypeOK
<1>1. CASE StartSession
  <2>1. /\ session'.id = nextId /\ state' = "Recording" /\ shown' = <<>>
        /\ UNCHANGED <<nextPlan, attempts, pastes, gate>>
    BY <1>1 DEF StartSession, NewSession, NoSession
  <2>2. QED
    BY <2>1, StrangersAreUnbooked, ResponseTurns DEF OneResponse, PlansAreUnique
<1>2. ASSUME NEW words \in 0 .. MaxWords, NEW sentinels \in 0 .. 1,
             RectifyText(words, sentinels)
      PROVE  OneResponse'
  <2> DEFINE s == [NewSession EXCEPT !.heard = words, !.pins = sentinels,
                     !.frozen = TRUE,
                     !.raw = Words("raw", nextId, words + sentinels)]
  <2>1. words \in Nat /\ sentinels \in Nat /\ nextId \in Nat
    BY BoundsAssumption DEF TypeOK
  <2>2. Words("raw", nextId, words + sentinels) \in Text
    BY <2>1, WordsIsText
  <2>3. NewSession \in Session /\ NewSession.id = nextId
    BY <2>1, NoSessionType, BoundsAssumption
    DEF NewSession, NoSession, TypeOK, Session
  <2>4. s \in Session /\ s.id = nextId
    BY <2>1, <2>2, <2>3 DEF Session
  <2>5. Rectify(s, FALSE) /\ UNCHANGED <<pastes, gate>>
    BY <1>2 DEF RectifyText
  <2> HIDE DEF s
  <2>6. QED
    BY <2>4, <2>5, StrangersAreUnbooked, ResponseStarts DEF Unbooked
<1>3. CASE StopSession \/ Reroll \/ ConfirmInsert
  <2>1. gate'.op # "paste"
    BY <1>3 DEF StopSession, Reroll, ConfirmInsert, Held
  <2>2. QED
    BY <1>3, <2>1, ResponseQuiet
    DEF StopSession, Reroll, ConfirmInsert, NothingNew, taskVars, sharedVars
\* A recording has no response that a pin could reach.
<1>4. CASE PinPlaceholder
  <2>1. /\ session'.id = session.id /\ session'.token = session.token
        /\ state = "Recording" /\ UNCHANGED <<state, shown, gate, taskVars>>
    BY <1>0, <1>4 DEF PinPlaceholder, Session
  <2>2. \A a \in attempts : ~Running(a)
    BY <2>1 DEF BooksBalance, AttemptsFollow, Running
  <2>3. /\ \A p \in pastes : ~Waiting(p, "Rectifying")
        /\ ~Pasting("Rectifying")
    BY <2>1 DEF OneResponse, PasteIsOnly
  <2>4. PlansAreUnique' /\ TokenIsLive' /\ AttemptIsShown' /\ QuickIsUnpinned'
    BY <2>1, <2>2
    DEF OneResponse, PlansAreUnique, TokenIsLive, AttemptIsShown,
        QuickIsUnpinned, Running, taskVars
  <2>5. PasteIsOnly' /\ PasteIsShown'
    BY <2>1, <2>3
    DEF OneResponse, PasteIsOnly, PasteIsShown, PasteShows, Waiting, Pasting, taskVars
  <2>6. ShownIsPreview'
    BY <2>1 DEF ShownIsPreview
  <2>7. QED
    BY <2>4, <2>5, <2>6 DEF OneResponse
<1>5. CASE MarkQuick \/ \E held \in BOOLEAN : HoldGate(held)
  BY <1>0, <1>5, ResponseQuiet DEF MarkQuick, HoldGate, NothingNew, Session, taskVars
\* The attempts of a cancelled session keep their plans, so they stay apart.
<1>6. CASE CancelSession
  <2>1. \A a \in attempts :
          LET b == [a EXCEPT !.cancelled = @ \/ a.plan = session.token] IN
          /\ b.plan = a.plan /\ b.sid = a.sid
          /\ b.quick = a.quick /\ b.pinned = a.pinned
    BY DEF TypeOK, Attempt
  <2>2. attempts' = {[a EXCEPT !.cancelled = @ \/ a.plan = session.token] :
                       a \in attempts}
    BY <1>6 DEF CancelSession
  <2>3. \A a \in attempts' : \E b \in attempts :
          /\ a.plan = b.plan /\ a.sid = b.sid
          /\ a.quick = b.quick /\ a.pinned = b.pinned
    BY <2>1, <2>2
  <2>4. ASSUME NEW a \in attempts', NEW b \in attempts', a.plan = b.plan
        PROVE  a = b
    <3>1. PICK x \in attempts :
            a = [x EXCEPT !.cancelled = @ \/ x.plan = session.token]
      BY <2>2
    <3>2. PICK y \in attempts :
            b = [y EXCEPT !.cancelled = @ \/ y.plan = session.token]
      BY <2>2
    <3>3. a.plan = x.plan /\ b.plan = y.plan
      BY <2>1, <3>1, <3>2
    <3>4. x = y
      BY <2>4, <3>3 DEF OneResponse, PlansAreUnique
    <3>5. QED
      BY <3>1, <3>2, <3>4
  <2>5. /\ session'.id = 0 /\ state' = "Idle" /\ shown' = <<>>
        /\ UNCHANGED <<nextPlan, pastes, gate>>
    BY <1>6 DEF CancelSession, Finish, NoSession
  <2>6. QED
    BY <2>3, <2>4, <2>5, StrangersAreUnbooked, ResponseTurns
\* An edit is shown as it is taken; a preview has no response to disagree.
<1>7. CASE UpdatePreviewText
  <2>1. /\ session'.id = session.id /\ session'.token = session.token
        /\ session'.pins = session.pins /\ state = "Preview"
        /\ shown' = session'.preview /\ UNCHANGED <<state, gate, taskVars>>
    BY <1>0, <1>7 DEF UpdatePreviewText, Session
  <2>2. \A a \in attempts : ~Running(a)
    BY <2>1 DEF OneResponse, AttemptIsShown
  <2>3. /\ \A p \in pastes : ~Waiting(p, "Rectifying")
        /\ ~Pasting("Rectifying")
    BY <2>1 DEF OneResponse, PasteIsOnly
  <2>4. PlansAreUnique' /\ TokenIsLive' /\ AttemptIsShown' /\ QuickIsUnpinned'
    BY <2>1, <2>2
    DEF OneResponse, PlansAreUnique, TokenIsLive, AttemptIsShown,
        QuickIsUnpinned, Running, taskVars
  <2>5. PasteIsOnly' /\ PasteIsShown'
    BY <2>1, <2>3
    DEF OneResponse, PasteIsOnly, PasteIsShown, PasteShows, Waiting, Pasting, taskVars
  <2>6. ShownIsPreview'
    BY <2>1 DEF ShownIsPreview
  <2>7. QED
    BY <2>4, <2>5, <2>6 DEF OneResponse
<1>8. CASE \E settings \in Configs : Switch(settings)
  BY <1>8, ResponseQuiet DEF Switch, NothingNew, taskVars, sharedVars
<1>9. QED
  BY <1>1, <1>2, <1>3, <1>4, <1>5, <1>6, <1>7, <1>8 DEF UserStep

\* So does every step of a gate holder.
LEMMA GateResponse ==
  ASSUME TypeOK, BooksBalance, OneResponse, GateStep
  PROVE  OneResponse'
<1>0. /\ session \in Session /\ FreeGate.op = "free"
      /\ gate.text \in Text
  BY DEF TypeOK, Gate, FreeGate
<1>1. CASE PlanHeld
  BY <1>0, <1>1, ResponsePlan DEF PlanHeld
<1>2. CASE InsertLands
  <2>1. /\ session'.id = 0 /\ shown' = <<>> /\ state' = "Idle" /\ gate'.op = "free"
        /\ UNCHANGED <<nextPlan, attempts, pastes>>
    BY <1>0, <1>2 DEF InsertLands, Finish, NoSession, taskVars
  <2>2. QED
    BY <2>1, StrangersAreUnbooked, ResponseTurns DEF OneResponse, PlansAreUnique
<1>3. CASE ConfirmFails
  BY <1>0, <1>3, ResponseQuiet DEF ConfirmFails, NothingNew, taskVars, sharedVars
\* The failed paste leaves in the preview what the shell shows by then.
<1>4. CASE PasteFails /\ state = gate.from /\ Matches(gate.sid)
  <2>1. /\ gate.op = "paste" /\ Waiting(gate, state) /\ PasteShows(gate)
        /\ session' = [session EXCEPT !.preview = gate.text, !.quick = FALSE]
        /\ state' = "Preview" /\ gate'.op = "free"
        /\ shown' = IF gate.announce THEN shown \o gate.text ELSE shown
        /\ UNCHANGED <<nextPlan, attempts, pastes>>
    BY <1>0, <1>4
    DEF PasteFails, Matches, Waiting, OneResponse, PasteIsShown, taskVars
  <2>2. /\ session'.id = session.id /\ session'.token = session.token
        /\ session'.pins = session.pins /\ session'.preview = gate.text
    BY <1>0, <2>1 DEF Session
  <2>3. \A a \in attempts : ~Running(a)
    BY <2>1
    DEF BooksBalance, AttemptsFollow, Running, PasteShows, OneResponse,
        PasteIsOnly, Pasting, Waiting
  <2>4. \A p \in pastes : ~Waiting(p, "Rectifying")
    BY <2>1 DEF OneResponse, PasteIsOnly, Pasting, PasteShows, Waiting
  <2>5. PlansAreUnique' /\ TokenIsLive' /\ AttemptIsShown' /\ QuickIsUnpinned'
    BY <2>1, <2>2, <2>3
    DEF OneResponse, PlansAreUnique, TokenIsLive, AttemptIsShown,
        QuickIsUnpinned, Running
  <2>6. PasteIsOnly' /\ PasteIsShown'
    BY <2>1, <2>2, <2>4
    DEF OneResponse, PasteIsOnly, PasteIsShown, PasteShows, Waiting, Pasting
  <2>7. state = "Recording" => shown' = gate.text
    <3>1. <<>> \o gate.text = gate.text
      BY <1>0, ConcatEmptySeq DEF Text
    <3>2. QED
      BY <2>1, <3>1 DEF PasteShows, Waiting, OneResponse, PasteIsShown
  <2>8. ShownIsPreview'
    BY <2>1, <2>2, <2>7 DEF ShownIsPreview, PasteShows, Waiting
  <2>9. QED
    BY <2>5, <2>6, <2>8 DEF OneResponse
<1>5. CASE PasteFails /\ ~(state = gate.from /\ Matches(gate.sid))
  BY <1>0, <1>5, ResponseQuiet DEF PasteFails, NothingNew, taskVars
<1>6. QED
  BY <1>1, <1>2, <1>3, <1>4, <1>5 DEF GateStep

\* So does every step of a session's open task and consume_asr.
LEMMA AsrResponse ==
  ASSUME TypeOK, BooksBalance, OneResponse, NEW s \in Sids, AsrStep(s)
  PROVE  OneResponse'
<1>0. session \in Session
  BY DEF TypeOK
<1>1. CASE \/ OpenSucceeds(s) \/ AsrCancelled(s) \/ StreamEnds(s)
           \/ StaleEvent(s) \/ SilenceEvent(s)
           \/ \E event \in AsrEvents : EventPulled(s, event)
  <2>1. SharedSame
    BY <1>1 DEF OpenSucceeds, AsrCancelled, StreamEnds, StaleEvent,
                SilenceEvent, EventPulled
  <2>2. QED
    BY <2>1, ResponseQuiet DEF SharedSame, sharedVars, NothingNew
<1>2. CASE \/ FailedEvent(s)
           \/ OpenFails(s) /\ Matches(s) /\ state = "Recording"
  <2>1. /\ session'.id = 0 /\ shown' = <<>> /\ state' = "Idle"
        /\ UNCHANGED <<nextPlan, attempts, pastes, gate>>
    BY <1>2 DEF OpenFails, FailedEvent, Finish, NoSession
  <2>2. QED
    BY <2>1, StrangersAreUnbooked, ResponseTurns DEF OneResponse, PlansAreUnique
<1>3. CASE OpenFails(s) /\ ~(Matches(s) /\ state = "Recording")
  BY <1>3, ResponseQuiet DEF OpenFails, NothingNew
<1>4. CASE \/ \E speaking \in BOOLEAN : SpeechEvent(s, speaking)
           \/ \E heard \in 0 .. MaxWords : TextEvent(s, heard)
  BY <1>0, <1>4, ResponseQuiet DEF SpeechEvent, TextEvent, Session, NothingNew
<1>5. CASE AutoEnd(s)
  BY <1>5, ResponsePlan DEF AutoEnd
<1>6. QED
  BY <1>1, <1>2, <1>3, <1>4, <1>5 DEF AsrStep

\* The running attempt is the only one: what else runs belongs to others.
LEMMA OnlyRunning ==
  ASSUME OneResponse, NEW a \in attempts, Stands(a), ~a.cancelled
  PROVE  /\ Running(a) /\ state = "Rectifying" /\ shown = a.out
         /\ session.pins = 0 => ~a.pinned
         /\ \A b \in attempts : Running(b) => b = a
         /\ \A p \in pastes : ~Waiting(p, "Rectifying")
         /\ ~Pasting("Rectifying")
<1>1. Running(a)
  BY DEF Stands, Matches, Running
<1>2. \A b \in attempts : Running(b) => b = a
  BY <1>1 DEF OneResponse, TokenIsLive, PlansAreUnique, Running
<1>3. QED
  BY <1>1, <1>2 DEF OneResponse, AttemptIsShown, PasteIsOnly

\* Where nothing is held back the body that lands is what was streamed.
LEMMA NothingHeldBack ==
  ASSUME NEW a \in Attempt
  PROVE  Body(a, 0) = a.out
<1>1. Words("body", a.plan, 0) = <<>>
  BY DEF Words
<1>2. a.out \o <<>> = a.out
  BY ConcatEmptySeq DEF Attempt, Text
<1>3. QED
  BY <1>1, <1>2 DEF Body

\* Without a sentinel in the request the splitter holds nothing back.
LEMMA BodyIsStreamed ==
  ASSUME NEW a \in Attempt, ~a.pinned, NEW tail \in Tails(a)
  PROVE  Body(a, tail) = a.out
BY NothingHeldBack DEF Tails

\* So does every step of a rectify task, current or orphaned.
LEMMA AttemptResponse ==
  ASSUME TypeOK, BooksBalance, OneResponse, NEW a \in attempts, AttemptStep(a)
  PROVE  OneResponse'
<1>0. session \in Session /\ a \in Attempt
  BY DEF TypeOK
<1>1. CASE AttemptCancelled(a)
  BY <1>1, ResponseQuiet
  DEF AttemptCancelled, AttemptOver, AttemptSame, NothingNew
<1>2. CASE /\ ~Stands(a)
           /\ \/ Chunk(a) \/ AttemptFails(a)
              \/ \E tail \in Tails(a) : AttemptLands(a, tail) \/ AttemptPastes(a, tail)
  BY <1>2, ResponseQuiet
  DEF Chunk, AttemptFails, AttemptLands, AttemptPastes, AttemptOver, AttemptSame,
      NothingNew
\* A chunk goes to the attempt and to the screen alike.
<1>3. CASE Chunk(a) /\ Stands(a)
  <2> DEFINE b == [a EXCEPT !.out = @ \o Words("body", a.plan, 1)]
  <2>1. b.plan = a.plan /\ b.sid = a.sid /\ b.cancelled = a.cancelled
        /\ b.pinned = a.pinned /\ b.quick = a.quick /\ b.out = a.out \o Words("body", a.plan, 1)
    BY <1>0 DEF Attempt
  <2>2. /\ attempts' = (attempts \ {a}) \cup {b} /\ ~a.cancelled
        /\ shown' = shown \o Words("body", a.plan, 1)
        /\ UNCHANGED <<state, session, pastes, gate, nextPlan>>
    BY <1>3 DEF Chunk, AttemptSame
  <2> HIDE DEF b
  <2>3. /\ Running(a) /\ state = "Rectifying" /\ shown = a.out
        /\ session.pins = 0 => ~a.pinned
        /\ \A c \in attempts : Running(c) => c = a
        /\ \A p \in pastes : ~Waiting(p, "Rectifying")
        /\ ~Pasting("Rectifying")
    BY <1>3, <2>2, OnlyRunning
  <2>4. shown' = b.out
    BY <2>1, <2>2, <2>3
  <2>5. PlansAreUnique'
    BY <2>1, <2>2 DEF OneResponse, PlansAreUnique
  <2>6. TokenIsLive'
    BY <2>1, <2>2, <2>3 DEF OneResponse, TokenIsLive, Running
  <2>7. AttemptIsShown' /\ QuickIsUnpinned'
    BY <2>1, <2>2, <2>3, <2>4
    DEF OneResponse, AttemptIsShown, QuickIsUnpinned, Running
  <2>8. PasteIsOnly' /\ PasteIsShown' /\ ShownIsPreview'
    BY <2>2, <2>3
    DEF OneResponse, PasteIsOnly, PasteIsShown, PasteShows, ShownIsPreview,
        Waiting, Pasting
  <2>9. QED
    BY <2>5, <2>6, <2>7, <2>8 DEF OneResponse
<1>4. CASE AttemptFails(a) /\ Stands(a) /\ ~session.quick
  <2>1. /\ session'.id = 0 /\ shown' = <<>> /\ state' = "Idle"
        /\ attempts' \subseteq attempts /\ UNCHANGED <<nextPlan, pastes, gate>>
    BY <1>4 DEF AttemptFails, Finish, NoSession, AttemptOver, AttemptSame
  <2>2. QED
    BY <2>1, StrangersAreUnbooked, ResponseTurns DEF OneResponse, PlansAreUnique
\* What a whole or a partial response leaves in a preview has been streamed.
<1>5. ASSUME Stands(a), ~a.cancelled, attempts' = attempts \ {a},
             state' = "Preview", session'.id = session.id,
             session'.token = session.token, session'.pins = session.pins,
             \/ session'.preview = a.out
             \/ /\ session.pins > 0
                /\ session'.preview = a.out \o Words("body", session.token, 1),
             UNCHANGED <<shown, pastes, gate, nextPlan>>
      PROVE  OneResponse'
  <2>1. /\ shown = a.out /\ \A b \in attempts : Running(b) => b = a
        /\ \A p \in pastes : ~Waiting(p, "Rectifying")
        /\ ~Pasting("Rectifying")
    BY <1>5, OnlyRunning
  <2>2. PlansAreUnique' /\ TokenIsLive'
    BY <1>5 DEF OneResponse, PlansAreUnique, TokenIsLive
  <2>3. AttemptIsShown' /\ QuickIsUnpinned' /\ ShownIsPreview'
    BY <1>5, <2>1
    DEF OneResponse, AttemptIsShown, QuickIsUnpinned, ShownIsPreview, Running
  <2>4. PasteIsOnly' /\ PasteIsShown'
    BY <1>5, <2>1
    DEF OneResponse, PasteIsOnly, PasteIsShown, PasteShows, Waiting, Pasting
  <2>5. QED
    BY <2>2, <2>3, <2>4 DEF OneResponse
<1>6. CASE AttemptFails(a) /\ Stands(a) /\ session.quick
  <2>1. /\ session' = [session EXCEPT !.preview = a.out, !.quick = FALSE]
        /\ state' = "Preview" /\ attempts' = attempts \ {a} /\ ~a.cancelled
        /\ UNCHANGED <<shown, pastes, gate, nextPlan>>
    BY <1>6 DEF AttemptFails, AttemptOver, AttemptSame
  <2>2. QED
    BY <1>0, <1>5, <1>6, <2>1 DEF Session
<1>7. ASSUME NEW tail \in Tails(a), AttemptLands(a, tail), Stands(a)
      PROVE  OneResponse'
  <2>1. /\ session' = [session EXCEPT !.preview = Body(a, tail)]
        /\ state' = "Preview" /\ attempts' = attempts \ {a} /\ ~a.cancelled
        /\ UNCHANGED <<shown, pastes, gate, nextPlan>>
    BY <1>7 DEF AttemptLands, AttemptOver, AttemptSame
  <2>2. (session.pins = 0 => ~a.pinned) /\ a.plan = session.token
    BY <1>7, <2>1, OnlyRunning DEF OneResponse, TokenIsLive, Running
  <2>3. CASE tail = 0
    <3>1. Body(a, tail) = a.out
      BY <1>0, <2>3, NothingHeldBack
    <3>2. QED
      BY <1>0, <1>5, <1>7, <2>1, <3>1 DEF Session
  <2>4. CASE tail = 1
    <3>1. a.pinned /\ session.pins > 0
      BY <1>0, <1>7, <2>2, <2>4 DEF Tails, Session
    <3>2. Body(a, tail) = a.out \o Words("body", session.token, 1)
      BY <2>2, <2>4 DEF Body
    <3>3. QED
      BY <1>0, <1>5, <1>7, <2>1, <3>1, <3>2 DEF Session
  <2>5. QED
    BY <1>7, <2>3, <2>4 DEF Tails
\* A quick attempt hands over to its paste and is gone.
<1>8. ASSUME NEW tail \in Tails(a), AttemptPastes(a, tail), Stands(a)
      PROVE  OneResponse'
  <2> DEFINE p == [plan |-> a.plan, sid |-> a.sid, text |-> Body(a, tail),
                   raw |-> session.raw, from |-> "Rectifying",
                   announce |-> FALSE]
  <2>1. /\ session' = [session EXCEPT !.preview = Body(a, tail)]
        /\ pastes' = pastes \cup {p} /\ ~a.cancelled
        /\ attempts' = attempts \ {a}
        /\ UNCHANGED <<state, shown, gate, nextPlan>>
    BY <1>8 DEF AttemptPastes, AttemptOver, AttemptSame, Stands
  <2>2. p.from = "Rectifying" /\ p.announce = FALSE /\ p.text = Body(a, tail)
    OBVIOUS
  <2> HIDE DEF p
  <2>3. /\ state = "Rectifying" /\ shown = a.out /\ ~a.pinned
        /\ \A b \in attempts : Running(b) => b = a
        /\ \A q \in pastes : ~Waiting(q, "Rectifying")
        /\ ~Pasting("Rectifying")
    BY <1>8, <2>1, OnlyRunning DEF OneResponse, QuickIsUnpinned, AttemptPastes
  <2>4. p.text = shown
    BY <1>0, <2>2, <2>3, BodyIsStreamed
  <2>5. /\ session'.id = session.id /\ session'.pins = session.pins
        /\ session'.token = session.token
    BY <1>0, <2>1 DEF Session
  <2>6. PlansAreUnique' /\ TokenIsLive'
    BY <2>1, <2>5 DEF OneResponse, PlansAreUnique, TokenIsLive
  <2>7. AttemptIsShown' /\ QuickIsUnpinned' /\ ShownIsPreview'
    BY <2>1, <2>3, <2>5
    DEF OneResponse, AttemptIsShown, QuickIsUnpinned, ShownIsPreview, Running
  <2>8. PasteIsOnly'
    BY <2>1, <2>3, <2>5 DEF PasteIsOnly, Waiting, Pasting, Running
  <2>9. PasteIsShown'
    BY <2>1, <2>2, <2>3, <2>4, <2>5
    DEF OneResponse, PasteIsShown, PasteShows, Waiting, Pasting
  <2>10. QED
    BY <2>6, <2>7, <2>8, <2>9 DEF OneResponse
<1>9. QED
  BY <1>1, <1>2, <1>3, <1>4, <1>6, <1>7, <1>8 DEF AttemptStep

\* So does a paste that is given the gate.
LEMMA PasteResponse ==
  ASSUME TypeOK, OneResponse, NEW p \in pastes, PasteTakesGate(p)
  PROVE  OneResponse'
<1>1. CASE ~(state = p.from /\ Matches(p.sid))
  BY <1>1, ResponseQuiet DEF PasteTakesGate, NothingNew, sharedVars
<1>2. CASE state = p.from /\ Matches(p.sid)
  <2>1. /\ gate.op = "free" /\ gate'.op = "paste" /\ gate'.sid = p.sid
        /\ gate'.from = p.from /\ gate'.text = p.text
        /\ gate'.announce = p.announce /\ pastes' = pastes \ {p}
        /\ UNCHANGED <<state, session, shown, nextPlan, attempts>>
    BY <1>2 DEF PasteTakesGate, Command, Free, sharedVars
  <2>2. /\ PlansAreUnique' /\ TokenIsLive' /\ AttemptIsShown'
        /\ QuickIsUnpinned' /\ ShownIsPreview'
    BY <2>1
    DEF OneResponse, PlansAreUnique, TokenIsLive, AttemptIsShown,
        QuickIsUnpinned, Running, ShownIsPreview
  <2>3. PasteIsOnly'
    BY <2>1 DEF OneResponse, PasteIsOnly, Waiting, Pasting, Running
  <2>4. PasteIsShown'
    BY <2>1 DEF OneResponse, PasteIsShown, PasteShows, Waiting
  <2>5. QED
    BY <2>2, <2>3, <2>4 DEF OneResponse
<1>3. QED
  BY <1>1, <1>2

\* A session has one response under way at a time, an attempt and then a
\* paste, and the shell shows what it would leave.
THEOREM OneResponseAtATime == Spec => []OneResponse
<1>1. Init => OneResponse
  BY DEF Init, NoSession, FreeGate, OneResponse, PlansAreUnique, TokenIsLive,
         AttemptIsShown, QuickIsUnpinned, PasteIsOnly, Pasting, PasteIsShown,
         PasteShows, ShownIsPreview
<1>2. TypeOK /\ BooksBalance /\ OneResponse /\ [Next]_vars => OneResponse'
  <2>1. ASSUME OneResponse, UNCHANGED vars
        PROVE  OneResponse'
    BY <2>1, ResponseQuiet DEF vars, NothingNew
  <2>2. QED
    BY <2>1, UserResponse, GateResponse, AsrResponse, AttemptResponse,
       PasteResponse DEF Next
<1>3. QED
  BY <1>1, <1>2, TypeCorrect, BooksAlwaysBalance, PTL DEF Spec

\* A cancel reaches the model call that still runs for the session: the token
\* the session would fire is that attempt's.
THEOREM CancelReachesTheCall == Spec => []TokenIsLive
BY OneResponseAtATime, PTL DEF OneResponse

\* What a preview shows is what a confirm would insert, whichever attempt,
\* edit or failed paste put it there, and however tasks interleave: the run
\* the splitter of a pinned session may hold back is all it can leave out.
THEOREM PreviewIsWhatIsInserted == Spec => []ShownIsPreview
BY OneResponseAtATime, PTL DEF OneResponse

-----------------------------------------------------------------------------
(* One task polled at a time *)

\* What a task that is between two lock regions relies on.
Polled(s) == asr[s] \in AsrEvents \cup {"ending"}
OnePoll ==
  /\ \A s, t \in Sids : Polled(s) /\ Polled(t) => s = t
  /\ gate.op \in {"stop", "reroll"} => \A s \in Sids : ~Polled(s)
  /\ \A s \in Sids : Polled(s) => s \notin fired

\* A reader whose token has not fired has its session recording, unfrozen.
ReaderIsCurrent ==
  \A s \in Sids : asr[s] \notin {"none", "done"} /\ s \notin fired =>
    Current(s) /\ ~session.frozen

\* So has a paste that holds the gate its session where it found it.
PasteUndisturbed ==
  gate.op = "paste" => state = gate.from /\ Matches(gate.sid)

\* A session ends once: the current one and those to come have not.
NotEnded ==
  /\ nextId <= MaxSession + 1
  /\ \A s \in Sids : s >= nextId \/ s = session.id => ends[s] = <<>>

OneTask ==
  /\ OnePoll /\ ReaderIsCurrent /\ ConfirmUndisturbed /\ PasteUndisturbed
  /\ NoOrphanAttempt /\ NotEnded

-----------------------------------------------------------------------------
(* Each task undisturbed by the others: one thread *)

\* What a step that passes the scheduler knows: no task is between two regions.
LEMMA NoTaskMidway ==
  ASSUME ~MultiThread, Scheduled
  PROVE  (\A s \in Sids : ~Polled(s)) /\ gate.op \notin {"stop", "reroll"}
BY DEF Scheduled, MidPoll, Polled

\* A step that leaves the machine, the readers and the gate where they are, or
\* frees the gate, leaves the tasks undisturbed.
LEMMA TaskQuiet ==
  ASSUME OneTask, UNCHANGED <<state, nextId, asr, fired, ends>>,
         session'.id = session.id, session'.frozen = session.frozen,
         gate' = gate \/ gate'.op = "free",
         \A a \in attempts' : \E b \in attempts :
           a.sid = b.sid /\ a.cancelled = b.cancelled,
         session'.held = session.held \/ \A s \in Sids : ~Polled(s)
  PROVE  OneTask'
<1>1. OnePoll'
  BY DEF OneTask, OnePoll, Polled
<1>2. ReaderIsCurrent'
  BY DEF OneTask, ReaderIsCurrent, Current, Matches
<1>3. ConfirmUndisturbed' /\ PasteUndisturbed'
  BY DEF OneTask, ConfirmUndisturbed, PasteUndisturbed, Matches
<1>4. NoOrphanAttempt'
  BY DEF OneTask, NoOrphanAttempt, Matches
<1>5. NotEnded'
  BY DEF OneTask, NotEnded
<1>6. QED
  BY <1>1, <1>2, <1>3, <1>4, <1>5 DEF OneTask

\* A session that ends takes its reader and its attempt with it.
LEMMA TaskEnds ==
  ASSUME TypeOK, BooksBalance, OneTask, NEW terminal, OnePoll',
         Finish(session.id, terminal), session.id # 0, nextId' = nextId,
         \A s \in Sids : asr'[s] \in {"none", "done"} \/ s \in fired',
         gate'.op \notin {"confirm", "paste"},
         \A a \in attempts' : a.cancelled
  PROVE  OneTask'
<1>1. ReaderIsCurrent' /\ ConfirmUndisturbed' /\ PasteUndisturbed' /\ NoOrphanAttempt'
  BY DEF ReaderIsCurrent, ConfirmUndisturbed, PasteUndisturbed, NoOrphanAttempt
<1>2. session.id \in 1 .. nextId - 1 /\ nextId \in Nat
  BY DEF BooksBalance, IdsAreBorn, Born, TypeOK
<1>3. session'.id = 0 /\ ends' = [ends EXCEPT ![session.id] = Append(@, terminal)]
  BY DEF Finish, NoSession
<1>4. 0 \notin Sids
  BY DEF Sids
<1>5. ASSUME NEW s \in Sids, s >= nextId
      PROVE  ends'[s] = <<>>
  <2>1. s # session.id /\ s \in DOMAIN ends
    BY <1>2, <1>5 DEF TypeOK, Sids
  <2>2. QED
    BY <1>3, <1>5, <2>1 DEF OneTask, NotEnded
<1>6. NotEnded'
  BY <1>3, <1>4, <1>5 DEF OneTask, NotEnded
<1>7. QED
  BY <1>1, <1>6 DEF OneTask

\* While a session's reader is unfired no insert is under way, and the
\* recording it reads for has no attempt.
LEMMA ReaderExcludesInsert ==
  ASSUME BooksBalance, OneTask, NEW s \in Sids, s \notin fired,
         asr[s] \notin {"none", "done"}
  PROVE  /\ Current(s) /\ gate.op \notin {"confirm", "paste"}
         /\ \A a \in attempts : a.cancelled
<1>1. Current(s) /\ ~session.frozen
  BY DEF OneTask, ReaderIsCurrent
<1>2. gate.op # "confirm"
  BY <1>1 DEF OneTask, ConfirmUndisturbed, Current
<1>3. gate.op # "paste"
  BY <1>1 DEF OneTask, PasteUndisturbed, BooksBalance, PasteIsFrozen, Matches
<1>4. \A a \in attempts : a.cancelled
  BY <1>1 DEF OneTask, NoOrphanAttempt, BooksBalance, AttemptsFollow, Current, Matches
<1>5. QED
  BY <1>1, <1>2, <1>3, <1>4

\* Nor does an unfired reader meet a session that is past its recording.
LEMMA NoReaderElsewhere ==
  ASSUME OneTask, state # "Recording" \/ session.frozen,
         NEW s \in Sids
  PROVE  asr[s] \in {"none", "done"} \/ s \in fired
BY DEF OneTask, ReaderIsCurrent, Current

\* The stop planner, called with no other task midway.
LEMMA TaskPlan ==
  ASSUME TypeOK, BooksBalance, OneResponse, OneTask, BeginRectify,
         nextId' = nextId,
         gate'.op \in {"free", gate.op}, gate.op \notin {"confirm", "paste"},
         \A s \in Sids : asr'[s] \in {asr[s], "done"} /\ ~Polled(s)'
  PROVE  OneTask'
<1>0. /\ session \in Session /\ session.quick \in BOOLEAN
      /\ Frozen \in Session /\ Frozen.id = session.id
      /\ state \in {"Recording", "Preview"} => session.id # 0
  BY FrozenType
  DEF TypeOK, Session, Frozen, BooksBalance, IdleIffNone
<1>1. OnePoll' /\ ConfirmUndisturbed' /\ PasteUndisturbed'
  BY DEF OnePoll, ConfirmUndisturbed, PasteUndisturbed, Polled
<1>2. CASE state \notin {"Recording", "Preview"}
  <2>1. UNCHANGED <<state, session, ends, fired, attempts>>
    BY <1>2 DEF BeginRectify
  <2>2. ReaderIsCurrent' /\ NoOrphanAttempt' /\ NotEnded'
    BY <2>1
    DEF OneTask, ReaderIsCurrent, NoOrphanAttempt, NotEnded, Current, Matches
  <2>3. QED
    BY <1>1, <2>2 DEF OneTask
\* In a recording every reader that is left belongs to the session that stops.
<1>3. ASSUME state = "Recording", fired' = fired \cup {session.id}
      PROVE  /\ \A s \in Sids : asr'[s] \in {"none", "done"} \/ s \in fired'
             /\ \A a \in attempts : a.cancelled
  BY <1>3
  DEF OneTask, ReaderIsCurrent, NoOrphanAttempt, Current, Matches,
      BooksBalance, AttemptsFollow
<1>4. CASE state = "Recording" /\ ~HasUtterance
  <2>1. /\ Finish(session.id, "Cancelled") /\ attempts' = attempts
        /\ fired' = fired \cup {session.id}
    BY <1>4 DEF BeginRectify
  <2>2. QED
    BY <1>0, <1>1, <1>3, <1>4, <2>1, TaskEnds
<1>5. CASE /\ state = "Recording" /\ HasUtterance
           /\ session.quick /\ ~session.quickRectify
  <2>1. /\ session'.id = session.id /\ fired' = fired \cup {session.id}
        /\ UNCHANGED <<ends, attempts>>
    BY <1>0, <1>5 DEF BeginRectify
  <2>2. ReaderIsCurrent' /\ NoOrphanAttempt'
    BY <1>3, <1>5, <2>1 DEF ReaderIsCurrent, NoOrphanAttempt
  <2>3. NotEnded'
    BY <2>1 DEF OneTask, NotEnded
  <2>4. QED
    BY <1>1, <2>2, <2>3 DEF OneTask
<1>6. ASSUME NEW s \in Session, NEW quick \in BOOLEAN, Rectify(s, quick),
             s.id = session.id, session.id # 0, ends' = ends,
             \A t \in Sids : asr'[t] \in {"none", "done"} \/ t \in fired'
      PROVE  OneTask'
  <2> DEFINE n == [plan |-> nextPlan, sid |-> s.id, quick |-> quick,
                   pinned |-> s.pins > 0, cancelled |-> FALSE, out |-> <<>>]
  <2>1. attempts' = attempts \cup {n} /\ session' = [s EXCEPT !.token = nextPlan]
    BY <1>6 DEF Rectify
  <2>2. n.sid = session.id
    BY <1>6
  <2> HIDE DEF n
  <2>3. session'.id = session.id
    BY <1>6, <2>1 DEF Session
  <2>4. NoOrphanAttempt'
    BY <1>6, <2>1, <2>2, <2>3 DEF OneTask, NoOrphanAttempt, Matches
  <2>5. NotEnded' /\ ReaderIsCurrent'
    BY <1>6, <2>3 DEF OneTask, NotEnded, ReaderIsCurrent
  <2>6. QED
    BY <1>1, <2>4, <2>5 DEF OneTask
<1>7. CASE /\ state = "Recording" /\ HasUtterance
           /\ ~(session.quick /\ ~session.quickRectify)
  <2>1. /\ Rectify(Frozen, session.quick) /\ ends' = ends
        /\ fired' = fired \cup {session.id}
    BY <1>7 DEF BeginRectify
  <2>2. QED
    BY <1>0, <1>3, <1>6, <1>7, <2>1
<1>8. CASE state = "Preview"
  <2>1. Rectify(session, FALSE) /\ UNCHANGED <<ends, fired>>
    BY <1>8 DEF BeginRectify
  <2>2. \A s \in Sids : asr'[s] \in {"none", "done"} \/ s \in fired'
    BY <1>8, <2>1, NoReaderElsewhere
  <2>3. QED
    BY <1>0, <1>6, <1>8, <2>1, <2>2
<1>9. QED
  BY <1>2, <1>4, <1>5, <1>7, <1>8

\* Every command leaves the tasks undisturbed: none starts while one is midway.
LEMMA UserTask ==
  ASSUME ~MultiThread, TypeOK, BooksBalance, OneResponse, OneTask, UserStep
  PROVE  OneTask'
<1>0. /\ session \in Session /\ nextId \in Nat \ {0}
      /\ Free /\ \A s \in Sids : ~Polled(s)
  BY NoTaskMidway
  DEF TypeOK, UserStep, StartSession, RectifyText, StopSession, Reroll,
      PinPlaceholder, MarkQuick, CancelSession, HoldGate, UpdatePreviewText,
      ConfirmInsert, Switch, Command
\* A session that begins finds no reader and no attempt of an earlier one.
<1>1. ASSUME state = "Idle", nextId <= MaxSession, nextId' = nextId + 1,
             session'.id = nextId, UNCHANGED <<fired, gate, ends>>,
             \A a \in attempts' : a \in attempts \/ a.sid = nextId,
             \/ asr' = asr
             \/ /\ asr' = [asr EXCEPT ![nextId] = "opening"]
                /\ state' = "Recording" /\ session'.frozen = FALSE
      PROVE  OneTask'
  <2>1. \A s \in Sids : asr[s] \in {"none", "done"} \/ s \in fired
    BY <1>1, NoReaderElsewhere
  <2>2. \A s \in Sids : asr'[s] = asr[s] \/ asr'[s] = "opening"
    BY <1>1 DEF TypeOK
  <2>3. \A a \in attempts : a.cancelled
    BY <1>1 DEF OneTask, NoOrphanAttempt, Matches, BooksBalance, IdleIffNone
  <2>4. OnePoll' /\ ConfirmUndisturbed' /\ PasteUndisturbed'
    BY <1>0, <1>1, <2>2
    DEF OnePoll, ConfirmUndisturbed, PasteUndisturbed, Polled, Free, AsrEvents
  <2>5. ReaderIsCurrent'
    BY <1>0, <1>1, <2>1 DEF ReaderIsCurrent, Current, Matches, TypeOK
  <2>6. NoOrphanAttempt'
    BY <1>0, <1>1, <2>3 DEF NoOrphanAttempt, Matches
  <2>7. NotEnded'
    BY <1>0, <1>1, BoundsAssumption DEF OneTask, NotEnded, Sids
  <2>8. QED
    BY <2>4, <2>5, <2>6, <2>7 DEF OneTask
<1>2. CASE StartSession
  BY <1>1, <1>2 DEF StartSession, NewSession, NoSession
<1>3. ASSUME NEW words \in 0 .. MaxWords, NEW sentinels \in 0 .. 1,
             RectifyText(words, sentinels)
      PROVE  OneTask'
  <2> DEFINE s == [NewSession EXCEPT !.heard = words, !.pins = sentinels,
                     !.frozen = TRUE,
                     !.raw = Words("raw", nextId, words + sentinels)]
             n == [plan |-> nextPlan, sid |-> s.id, quick |-> FALSE,
                   pinned |-> s.pins > 0, cancelled |-> FALSE, out |-> <<>>]
  <2>1. s.id = nextId /\ n.sid = nextId
    BY DEF NewSession, NoSession
  <2>2. session' = [s EXCEPT !.token = nextPlan] /\ attempts' = attempts \cup {n}
    BY <1>3 DEF RectifyText, Rectify
  <2>3. session'.id = nextId
    BY <2>2 DEF NewSession, NoSession
  <2> HIDE DEF s, n
  <2>4. QED
    BY <1>1, <1>3, <2>1, <2>2, <2>3 DEF RectifyText
<1>4. CASE StopSession \/ Reroll \/ ConfirmInsert
  <2>1. /\ gate'.op \in {"stop", "reroll", "confirm"} /\ gate'.sid = session.id
        /\ gate'.op = "confirm" => state = "Preview"
        /\ UNCHANGED <<taskVars, sharedVars>>
    BY <1>4 DEF StopSession, Reroll, ConfirmInsert, Held
  <2>2. OnePoll'
    BY <1>0, <2>1 DEF OnePoll, Polled, taskVars
  <2>3. ReaderIsCurrent' /\ NoOrphanAttempt' /\ NotEnded'
    BY <2>1
    DEF OneTask, ReaderIsCurrent, NoOrphanAttempt, NotEnded, Current, Matches,
        taskVars, sharedVars
  <2>4. ConfirmUndisturbed' /\ PasteUndisturbed'
    BY <2>1
    DEF ConfirmUndisturbed, PasteUndisturbed, Matches, sharedVars, BooksBalance,
        IdleIffNone
  <2>5. QED
    BY <2>2, <2>3, <2>4 DEF OneTask
<1>5. CASE \/ PinPlaceholder \/ MarkQuick \/ \E held \in BOOLEAN : HoldGate(held)
           \/ UpdatePreviewText \/ \E settings \in Configs : Switch(settings)
  BY <1>0, <1>5, TaskQuiet
  DEF PinPlaceholder, MarkQuick, HoldGate, UpdatePreviewText, Switch, Session,
      taskVars, sharedVars
<1>6. CASE CancelSession
  <2>1. /\ Finish(session.id, "Cancelled") /\ session.id # 0 /\ nextId' = nextId
        /\ fired' = fired \cup {session.id} /\ UNCHANGED <<asr, gate>>
    BY <1>6 DEF CancelSession, BooksBalance, IdleIffNone
  <2>2. \A s \in Sids : asr'[s] \in {"none", "done"} \/ s \in fired'
    BY <2>1 DEF OneTask, ReaderIsCurrent, Current, Matches
  <2>3. ASSUME NEW a \in attempts'
        PROVE  a.cancelled
    <3>1. PICK b \in attempts :
            a = [b EXCEPT !.cancelled = @ \/ b.plan = session.token]
      BY <1>6 DEF CancelSession
    <3>2. b.cancelled \/ b.plan = session.token
      BY DEF OneTask, NoOrphanAttempt, Matches, OneResponse, TokenIsLive
    <3>3. b \in Attempt
      BY DEF TypeOK
    <3>4. QED
      BY <3>1, <3>2, <3>3, Zenon DEF Attempt
  <2>4. OnePoll'
    BY <1>0, <2>1 DEF OnePoll, Polled
  <2>5. QED
    BY <1>0, <2>1, <2>2, <2>3, <2>4, TaskEnds DEF Free
<1>7. QED
  BY <1>2, <1>3, <1>4, <1>5, <1>6 DEF UserStep

\* So does every step of a gate holder.
LEMMA GateTask ==
  ASSUME ~MultiThread, TypeOK, BooksBalance, OneResponse, OneTask, GateStep
  PROVE  OneTask'
<1>0. session \in Session /\ FreeGate.op = "free"
  BY DEF TypeOK, FreeGate
<1>1. CASE PlanHeld
  <2>1. \A s \in Sids : ~Polled(s)
    BY <1>1 DEF PlanHeld, OneTask, OnePoll
  <2>2. QED
    BY <1>0, <1>1, <2>1, TaskPlan DEF PlanHeld, Polled
<1>2. CASE InsertLands
  <2>1. /\ \A s \in Sids : ~Polled(s)
        /\ gate.op \in {"confirm", "paste"} /\ gate'.op = "free"
        /\ Finish(gate.sid, "Inserted") /\ UNCHANGED <<nextId, taskVars>>
    BY <1>0, <1>2, NoTaskMidway DEF InsertLands
  <2>2. session.id # 0 /\ session.id = gate.sid
    BY <2>1 DEF OneTask, ConfirmUndisturbed, PasteUndisturbed, Matches
  <2>3. state # "Recording" \/ session.frozen
    BY <2>1, <2>2
    DEF OneTask, ConfirmUndisturbed, BooksBalance, PasteIsFrozen
  <2>4. \A s \in Sids : asr[s] \in {"none", "done"} \/ s \in fired
    BY <2>3, NoReaderElsewhere
  <2>5. \A a \in attempts : ~Running(a)
    <3>1. CASE gate.op = "confirm"
      BY <3>1
      DEF OneTask, ConfirmUndisturbed, OneResponse, AttemptIsShown
    <3>2. CASE gate.op = "paste"
      <4>1. gate.from \in {"Recording", "Rectifying"} /\ state = gate.from
        BY <3>2
        DEF OneResponse, PasteIsShown, PasteShows, OneTask, PasteUndisturbed
      <4>2. QED
        BY <2>2, <3>2, <4>1
        DEF OneResponse, PasteIsOnly, Pasting, Waiting, AttemptIsShown
    <3>3. QED
      BY <2>1, <3>1, <3>2
  <2>6. \A a \in attempts : a.cancelled
    BY <2>5 DEF OneTask, NoOrphanAttempt, Matches, Running
  <2>7. OnePoll'
    BY <2>1 DEF OnePoll, Polled, taskVars
  <2>8. QED
    BY <2>1, <2>2, <2>4, <2>6, <2>7, TaskEnds DEF taskVars
<1>3. CASE ConfirmFails
  BY <1>0, <1>3, TaskQuiet DEF ConfirmFails, taskVars, sharedVars
<1>4. CASE PasteFails
  <2>1. /\ state = gate.from /\ Matches(gate.sid) /\ session.frozen
        /\ \A s \in Sids : ~Polled(s)
    BY <1>4, NoTaskMidway
    DEF PasteFails, OneTask, PasteUndisturbed, BooksBalance, PasteIsFrozen, Matches
  <2>2. /\ session'.id = session.id /\ gate'.op = "free"
        /\ UNCHANGED <<nextId, ends, taskVars>>
    BY <1>0, <1>4, <2>1 DEF PasteFails, Session
  <2>3. \A s \in Sids : asr[s] \in {"none", "done"} \/ s \in fired
    BY <2>1, NoReaderElsewhere
  <2>4. OnePoll' /\ ConfirmUndisturbed' /\ PasteUndisturbed'
    BY <2>1, <2>2
    DEF OnePoll, ConfirmUndisturbed, PasteUndisturbed, Polled, taskVars
  <2>5. ReaderIsCurrent' /\ NoOrphanAttempt' /\ NotEnded'
    BY <2>2, <2>3
    DEF OneTask, ReaderIsCurrent, NoOrphanAttempt, NotEnded, Matches, taskVars
  <2>6. QED
    BY <2>4, <2>5 DEF OneTask
<1>5. QED
  BY <1>1, <1>2, <1>3, <1>4 DEF GateStep

\* So does every step of a session's open task and consume_asr.
LEMMA AsrTask ==
  ASSUME ~MultiThread, TypeOK, BooksBalance, OneResponse, OneTask,
         NEW s \in Sids, AsrStep(s)
  PROVE  OneTask'
<1>0. session \in Session /\ asr \in [Sids -> AsrSteps]
  BY DEF TypeOK
\* A reader that moves on, with the machine where it was.
<1>1. ASSUME NEW step \in AsrSteps, AsrMoves(s, step),
             UNCHANGED <<state, nextId, ends, fired, attempts, gate>>,
             session'.id = session.id, session'.frozen = session.frozen,
             session'.held = session.held,
             step \in {"none", "done"} \/
               (asr[s] \notin {"none", "done"} /\ s \notin fired),
             step \in {"none", "done", "opening", "listening"} \/
               Polled(s) \/ (gate.op \notin {"stop", "reroll"} /\ \A t \in Sids : ~Polled(t)),
             step = "ending" => ~session.held
      PROVE  OneTask'
  <2>1. asr'[s] = step /\ \A t \in Sids : t # s => asr'[t] = asr[t]
    BY <1>0, <1>1 DEF AsrMoves
  <2>2. \A t \in Sids : Polled(t)' =>
          IF t = s THEN step \in AsrEvents \cup {"ending"} ELSE Polled(t)
    BY <2>1 DEF Polled
  <2>3. OnePoll'
    BY <1>1, <2>1, <2>2 DEF OneTask, OnePoll, AsrEvents
  <2>4. ReaderIsCurrent'
    BY <1>1, <2>1 DEF OneTask, ReaderIsCurrent, Current, Matches
  <2>5. ConfirmUndisturbed' /\ PasteUndisturbed' /\ NoOrphanAttempt' /\ NotEnded'
    BY <1>1
    DEF OneTask, ConfirmUndisturbed, PasteUndisturbed, NoOrphanAttempt, NotEnded,
        Matches
  <2>6. QED
    BY <2>3, <2>4, <2>5 DEF OneTask
<1>2. CASE OpenSucceeds(s)
  BY <1>1, <1>2
  DEF OpenSucceeds, SharedSame, sharedVars, AsrSteps
<1>3. CASE AsrCancelled(s) \/ StreamEnds(s) \/ StaleEvent(s)
  BY <1>1, <1>3
  DEF AsrCancelled, StreamEnds, StaleEvent, SharedSame, sharedVars, AsrSteps
<1>4. CASE \E event \in AsrEvents : EventPulled(s, event)
  <2>1. (\A t \in Sids : ~Polled(t)) /\ gate.op \notin {"stop", "reroll"}
    BY <1>4, NoTaskMidway DEF EventPulled
  <2>2. QED
    BY <1>1, <1>4, <2>1
    DEF EventPulled, SharedSame, sharedVars, AsrSteps, AsrEvents
<1>5. CASE SilenceEvent(s)
  <2>1. Polled(s) /\ s \notin fired
    BY <1>5 DEF SilenceEvent, OneTask, OnePoll, Polled, AsrEvents
  <2>2. CASE session.passage \/ session.held
    BY <1>1, <1>5, <2>1, <2>2
    DEF SilenceEvent, SharedSame, sharedVars, AsrSteps
  <2>3. CASE ~(session.passage \/ session.held)
    BY <1>1, <1>5, <2>1, <2>3
    DEF SilenceEvent, SharedSame, sharedVars, AsrSteps
  <2>4. QED
    BY <2>2, <2>3
<1>6. CASE \/ \E speaking \in BOOLEAN : SpeechEvent(s, speaking)
           \/ \E heard \in 0 .. MaxWords : TextEvent(s, heard)
  <2>1. Polled(s) /\ s \notin fired
    BY <1>6 DEF SpeechEvent, TextEvent, OneTask, OnePoll, Polled, AsrEvents
  <2>2. QED
    BY <1>0, <1>1, <1>6, <2>1 DEF SpeechEvent, TextEvent, Session, AsrSteps
\* A recording that ends on the recogniser's word: its reader is the last.
<1>7. ASSUME s \notin fired, asr[s] \notin {"none", "done"},
             AsrMoves(s, "done"), Finish(s, "Cancelled"),
             UNCHANGED <<nextId, fired, attempts, gate>>
      PROVE  OneTask'
  <2>1. /\ Current(s) /\ gate.op \notin {"confirm", "paste"}
        /\ \A a \in attempts : a.cancelled
    BY <1>7, ReaderExcludesInsert
  <2>2. asr'[s] = "done" /\ \A t \in Sids : t # s => asr'[t] = asr[t]
    BY <1>0, <1>7 DEF AsrMoves
  <2>3. \A t \in Sids : asr'[t] \in {"none", "done"} \/ t \in fired'
    BY <1>7, <2>1, <2>2 DEF OneTask, ReaderIsCurrent, Current, Matches
  <2>4. \A t \in Sids : ~Polled(t)'
    BY <1>7, <2>2, <2>3 DEF OneTask, OnePoll, Polled, AsrEvents
  <2>5. OnePoll'
    BY <2>4 DEF OnePoll, Polled
  <2>6. QED
    BY <1>7, <2>1, <2>3, <2>5, TaskEnds DEF Current, Matches
<1>8. CASE OpenFails(s)
  <2>1. Current(s)
    BY <1>8, ReaderExcludesInsert DEF OpenFails
  <2>2. QED
    BY <1>7, <1>8, <2>1 DEF OpenFails, Current
<1>9. CASE FailedEvent(s)
  <2>1. s \notin fired /\ asr[s] = "Failed"
    BY <1>9 DEF FailedEvent, OneTask, OnePoll, Polled, AsrEvents
  <2>2. QED
    BY <1>7, <1>9, <2>1 DEF FailedEvent
<1>10. CASE AutoEnd(s)
  <2>1. Polled(s) /\ s \notin fired /\ asr[s] = "ending"
    BY <1>10 DEF AutoEnd, OneTask, OnePoll, Polled
  <2>2. gate.op \notin {"confirm", "paste"}
    BY <2>1, ReaderExcludesInsert
  <2>3. asr'[s] = "done" /\ \A t \in Sids : t # s => asr'[t] = asr[t] /\ ~Polled(t)
    BY <1>0, <1>10, <2>1 DEF AutoEnd, AsrMoves, OneTask, OnePoll
  <2>4. \A t \in Sids : asr'[t] \in {asr[t], "done"} /\ ~Polled(t)'
    BY <2>3 DEF Polled, AsrEvents
  <2>5. QED
    BY <1>10, <2>2, <2>4, TaskPlan DEF AutoEnd
<1>11. QED
  BY <1>2, <1>3, <1>4, <1>5, <1>6, <1>8, <1>9, <1>10 DEF AsrStep

\* So does every step of a rectify task: only a session in Rectifying stands,
\* and no insert holds the gate then.
LEMMA AttemptTask ==
  ASSUME ~MultiThread, TypeOK, BooksBalance, OneResponse, OneTask,
         NEW a \in attempts, AttemptStep(a)
  PROVE  OneTask'
<1>0. /\ session \in Session /\ a \in Attempt
      /\ \A s \in Sids : ~Polled(s)
  BY NoTaskMidway
  DEF TypeOK, AttemptStep, AttemptCancelled, Chunk, AttemptFails, AttemptLands,
      AttemptPastes
<1>1. CASE AttemptCancelled(a)
  BY <1>1, TaskQuiet DEF AttemptCancelled, AttemptOver, AttemptSame
<1>2. CASE /\ ~Stands(a)
           /\ \/ Chunk(a) \/ AttemptFails(a)
              \/ \E tail \in Tails(a) : AttemptLands(a, tail) \/ AttemptPastes(a, tail)
  BY <1>2, TaskQuiet
  DEF Chunk, AttemptFails, AttemptLands, AttemptPastes, AttemptOver, AttemptSame
<1>3. CASE Chunk(a) /\ Stands(a)
  <2> DEFINE b == [a EXCEPT !.out = @ \o Words("body", a.plan, 1)]
  <2>1. b.sid = a.sid /\ b.cancelled = a.cancelled
    BY <1>0 DEF Attempt
  <2>2. /\ attempts' = (attempts \ {a}) \cup {b}
        /\ UNCHANGED <<state, session, nextId, asr, fired, ends, gate>>
    BY <1>3 DEF Chunk, AttemptSame
  <2> HIDE DEF b
  <2>3. QED
    BY <2>1, <2>2, TaskQuiet
<1>4. ASSUME Stands(a), ~a.cancelled
      PROVE  /\ gate.op \notin {"confirm", "paste"} /\ session.id # 0
             /\ \A s \in Sids : asr[s] \in {"none", "done"} \/ s \in fired
             /\ \A b \in attempts \ {a} : b.cancelled
  <2>1. /\ state = "Rectifying" /\ ~Pasting("Rectifying") /\ a.sid = session.id
        /\ \A b \in attempts : Running(b) => b = a
    BY <1>4, OnlyRunning DEF Running
  <2>2. gate.op # "confirm" /\ gate.op # "paste" /\ session.id # 0
    BY <1>4, <2>1
    DEF OneTask, ConfirmUndisturbed, PasteUndisturbed, Matches, Pasting, Waiting,
        Stands
  <2>3. \A b \in attempts \ {a} : b.cancelled
    BY <2>1 DEF OneTask, NoOrphanAttempt, Matches, Running
  <2>4. \A s \in Sids : asr[s] \in {"none", "done"} \/ s \in fired
    BY <2>1, NoReaderElsewhere
  <2>5. QED
    BY <2>2, <2>3, <2>4
<1>5. CASE AttemptFails(a) /\ Stands(a) /\ ~session.quick
  <2>1. /\ Finish(session.id, "Cancelled") /\ ~a.cancelled
        /\ attempts' = attempts \ {a} /\ UNCHANGED <<nextId, asr, fired, gate>>
    BY <1>5 DEF AttemptFails, AttemptOver, AttemptSame, Stands, Matches
  <2>2. OnePoll'
    BY <1>0, <1>5, <2>1 DEF OneTask, OnePoll, Polled
  <2>3. QED
    BY <1>4, <1>5, <2>1, <2>2, TaskEnds
<1>6. CASE /\ Stands(a)
           /\ \/ AttemptFails(a) /\ session.quick
              \/ \E tail \in Tails(a) : AttemptLands(a, tail) \/ AttemptPastes(a, tail)
  <2>1. /\ session'.id = session.id /\ ~a.cancelled /\ attempts' = attempts \ {a}
        /\ UNCHANGED <<nextId, asr, fired, gate, ends>>
    BY <1>0, <1>6
    DEF AttemptFails, AttemptLands, AttemptPastes, AttemptOver, AttemptSame, Session
  <2>2. OnePoll'
    BY <1>0, <2>1 DEF OneTask, OnePoll, Polled
  <2>3. ReaderIsCurrent' /\ ConfirmUndisturbed' /\ PasteUndisturbed'
    BY <1>4, <1>6, <2>1 DEF ReaderIsCurrent, ConfirmUndisturbed, PasteUndisturbed
  <2>4. NoOrphanAttempt' /\ NotEnded'
    BY <1>4, <1>6, <2>1 DEF NoOrphanAttempt, OneTask, NotEnded
  <2>5. QED
    BY <2>2, <2>3, <2>4 DEF OneTask
<1>7. QED
  BY <1>1, <1>2, <1>3, <1>5, <1>6 DEF AttemptStep

\* So does a paste that is given the gate, with its session as it found it.
LEMMA PasteTask ==
  ASSUME OneTask, NEW p \in pastes, PasteTakesGate(p)
  PROVE  OneTask'
<1>1. UNCHANGED <<state, session, nextId, asr, fired, ends, attempts>>
  BY DEF PasteTakesGate, sharedVars
<1>2. CASE ~(state = p.from /\ Matches(p.sid))
  BY <1>1, <1>2, TaskQuiet DEF PasteTakesGate
<1>3. CASE state = p.from /\ Matches(p.sid)
  <2>1. gate'.op = "paste" /\ gate'.sid = p.sid /\ gate'.from = p.from
    BY <1>3 DEF PasteTakesGate
  <2>2. OnePoll' /\ ReaderIsCurrent'
    BY <1>1, <2>1 DEF OneTask, OnePoll, ReaderIsCurrent, Polled, Current, Matches
  <2>3. ConfirmUndisturbed' /\ PasteUndisturbed' /\ NoOrphanAttempt' /\ NotEnded'
    BY <1>1, <1>3, <2>1
    DEF OneTask, ConfirmUndisturbed, PasteUndisturbed, NoOrphanAttempt, NotEnded,
        Matches
  <2>4. QED
    BY <2>2, <2>3 DEF OneTask
<1>4. QED
  BY <1>2, <1>3

\* Where one task is polled at a time, none is disturbed by another.
THEOREM TasksUndisturbed ==
  ASSUME ~MultiThread
  PROVE  Spec => []OneTask
<1>1. Init => OneTask
  BY BoundsAssumption
  DEF Init, NoSession, FreeGate, OneTask, OnePoll, Polled, AsrEvents,
      ReaderIsCurrent, ConfirmUndisturbed, PasteUndisturbed, NoOrphanAttempt,
      NotEnded
<1>2. TypeOK /\ BooksBalance /\ OneResponse /\ OneTask /\ [Next]_vars => OneTask'
  <2>1. ASSUME OneTask, UNCHANGED vars
        PROVE  OneTask'
    BY <2>1, TaskQuiet DEF vars
  <2>2. QED
    BY <2>1, UserTask, GateTask, AsrTask, AttemptTask, PasteTask DEF Next
<1>3. QED
  BY <1>1, <1>2, TypeCorrect, BooksAlwaysBalance, OneResponseAtATime, PTL DEF Spec

\* The session a confirm hands to the inserter is the current one, in preview,
\* until the inserter answers.
THEOREM ConfirmStays ==
  ASSUME ~MultiThread
  PROVE  Spec => []ConfirmUndisturbed
BY TasksUndisturbed, PTL DEF OneTask

\* No model call outlives its session unaware.
THEOREM NoCallIsOrphaned ==
  ASSUME ~MultiThread
  PROVE  Spec => []NoOrphanAttempt
BY TasksUndisturbed, PTL DEF OneTask

-----------------------------------------------------------------------------
(* The engine implements the session contract *)

PhaseOf == [s \in Sids |-> Phase(s)]
Output == [i \in DOMAIN landed |-> landed[i].sid]

\* What the contract reads is as it was.
LEMMA ContractStutters ==
  ASSUME UNCHANGED <<nextId, ends, landed>>, session'.id = session.id
  PROVE  UNCHANGED <<PhaseOf, Output>>
<1>1. \A s \in Sids : Phase(s)' = Phase(s)
  BY DEF Phase
<1>2. QED
  BY <1>1 DEF PhaseOf, Output

\* A session that begins is the contract's next unborn one, and the only one.
LEMMA ContractOpens ==
  ASSUME TypeOK, BooksBalance, state = "Idle", nextId <= MaxSession,
         session'.id = nextId, nextId' = nextId + 1, UNCHANGED <<ends, landed>>
  PROVE  \E s \in Sids : Contract!Open(s)
<1>0. nextId \in Sids /\ session.id = 0
  <2>1. nextId \in Nat \ {0}
    BY DEF TypeOK
  <2>2. session.id = 0
    BY DEF BooksBalance, IdleIffNone
  <2>3. QED
    BY <2>1, <2>2, BoundsAssumption DEF Sids
<1> PICK new \in Sids : new = nextId
  BY <1>0
<1>1. /\ nextId = new /\ nextId' = new + 1 /\ new \in Nat \ {0}
      /\ session.id = 0 /\ session'.id = new
  BY <1>0 DEF Sids
<1>2. Phase(new) = "unborn" /\ Phase(new)' = "active"
  BY <1>1 DEF Phase
<1>3. ASSUME NEW s \in Sids
      PROVE  /\ Phase(s) # "active"
             /\ s < new => Phase(s) # "unborn"
             /\ s # new => Phase(s)' = Phase(s)
  BY <1>1 DEF Phase, Sids
<1>4. /\ PhaseOf[new] = "unborn"
      /\ \A s \in Sids : PhaseOf[s] # "active" /\ (s < new => PhaseOf[s] # "unborn")
      /\ PhaseOf' = [PhaseOf EXCEPT ![new] = "active"] /\ Output' = Output
  <2>1. PhaseOf' = [s \in Sids |-> IF s = new THEN "active" ELSE Phase(s)]
    BY <1>2, <1>3 DEF PhaseOf
  <2>2. [PhaseOf EXCEPT ![new] = "active"]
          = [s \in Sids |-> IF s = new THEN "active" ELSE Phase(s)]
    BY DEF PhaseOf
  <2>3. Output' = Output
    BY DEF Output
  <2>4. PhaseOf[new] = "unborn"
    BY <1>2 DEF PhaseOf
  <2>5. \A s \in Sids : PhaseOf[s] # "active" /\ (s < new => PhaseOf[s] # "unborn")
    BY <1>3 DEF PhaseOf
  <2>6. QED
    BY <2>1, <2>2, <2>3, <2>4, <2>5
<1>5. Contract!Open(new)
  BY <1>4 DEF Contract!Open, PhaseOf, Output
<1>6. QED
  BY <1>5

\* The phase a session that ends goes to is its terminal state's.
LEMMA PhaseEnds ==
  ASSUME TypeOK, BooksBalance, NotEnded, NEW id, id = session.id, id # 0, nextId' = nextId,
         NEW terminal \in {"Inserted", "Cancelled"}, Finish(id, terminal)
  PROVE  /\ id \in Sids /\ PhaseOf[id] = "active"
         /\ PhaseOf' = [PhaseOf EXCEPT ![id] =
              IF terminal = "Inserted" THEN "inserted" ELSE "cancelled"]
<1> DEFINE to == IF terminal = "Inserted" THEN "inserted" ELSE "cancelled"
<1>0. /\ nextId \in Nat /\ nextId <= MaxSession + 1 /\ id \in 1 .. nextId - 1
      /\ ends[id] = <<>> \/ id \notin Sids
  BY DEF TypeOK, BooksBalance, IdsAreBorn, Born, NotEnded
<1>1. /\ id \in Sids /\ id < nextId /\ nextId \in Nat /\ 0 \notin Sids
      /\ ends[id] = <<>>
  BY <1>0, BoundsAssumption DEF Sids
<1>2. /\ ends' = [ends EXCEPT ![id] = Append(@, terminal)]
      /\ ends \in [Sids -> Seq({"Inserted", "Cancelled"})]
      /\ session'.id = 0
  BY DEF TypeOK, Finish, NoSession
<1>3. ends'[id] = <<terminal>> /\ \A s \in Sids \ {id} : ends'[s] = ends[s]
  <2>1. ends'[id] = Append(ends[id], terminal) /\ \A s \in Sids \ {id} : ends'[s] = ends[s]
    BY <1>1, <1>2
  <2>2. Append(<<>>, terminal) = <<terminal>>
    OBVIOUS
  <2>3. QED
    BY <1>1, <2>1, <2>2
<1>4. Phase(id)' = to
  BY <1>1, <1>2, <1>3 DEF Phase, Sids
<1>5. \A s \in Sids \ {id} : Phase(s)' = Phase(s)
  BY <1>1, <1>2, <1>3 DEF Phase, Sids
<1>6. Phase(id) = "active"
  BY <1>1 DEF Phase, Sids
<1>7. QED
  <2> HIDE DEF to
  <2>1. PhaseOf' = [s \in Sids |-> IF s = id THEN to ELSE Phase(s)]
    BY <1>4, <1>5 DEF PhaseOf
  <2>2. [PhaseOf EXCEPT ![id] = to] = [s \in Sids |-> IF s = id THEN to ELSE Phase(s)]
    BY DEF PhaseOf
  <2>3. PhaseOf[id] = "active"
    BY <1>1, <1>6 DEF PhaseOf
  <2>4. QED
    BY <1>1, <2>1, <2>2, <2>3 DEF to

\* A session that ends without an insert is the contract's discard.
LEMMA ContractDiscards ==
  ASSUME TypeOK, BooksBalance, NotEnded, session.id # 0,
         UNCHANGED <<nextId, landed>>, Finish(session.id, "Cancelled")
  PROVE  \E s \in Sids : Contract!Discard(s)
<1> PICK id : id = session.id
  OBVIOUS
<1>1. /\ id \in Sids /\ PhaseOf[id] = "active"
      /\ PhaseOf' = [PhaseOf EXCEPT ![id] = "cancelled"]
  BY PhaseEnds
<1>2. Output' = Output
  BY DEF Output
<1>3. Contract!Discard(id)
  BY <1>1, <1>2 DEF Contract!Discard, PhaseOf, Output
<1>4. QED
  BY <1>1, <1>3

\* The insert that lands is the contract's delivery: the output grows in the
\* very step that ends its session.
LEMMA ContractDelivers ==
  ASSUME TypeOK, BooksBalance, OneTask, InsertLands
  PROVE  \E s \in Sids : Contract!Deliver(s)
<1> PICK e : e = [sid |-> gate.sid, raw |-> gate.raw, text |-> gate.text]
  OBVIOUS
<1> PICK id : id = session.id
  OBVIOUS
<1>1. /\ id # 0 /\ gate.sid = id /\ Finish(id, "Inserted") /\ nextId' = nextId
      /\ landed' = Append(landed, e)
  BY DEF InsertLands, OneTask, ConfirmUndisturbed, PasteUndisturbed, Matches
<1>2. /\ id \in Sids /\ PhaseOf[id] = "active"
      /\ PhaseOf' = [PhaseOf EXCEPT ![id] = "inserted"]
  BY <1>1, PhaseEnds DEF OneTask
<1>3. e \in [sid : Nat, raw : Text, text : Text] /\ e.sid = id
  BY <1>1 DEF TypeOK, Gate
<1>4. Output' = Append(Output, id)
  <2>1. landed \in Seq([sid : Nat, raw : Text, text : Text])
    BY DEF TypeOK
  <2> HIDE DEF Text
  <2>2. /\ Len(landed) \in Nat /\ DOMAIN landed = 1 .. Len(landed)
        /\ DOMAIN landed' = 1 .. Len(landed) + 1
        /\ \A i \in 1 .. Len(landed) : landed'[i] = landed[i]
        /\ landed'[Len(landed) + 1] = e
    BY <1>1, <1>3, <2>1, AppendProperties, LenProperties
  <2>3. Output \in Seq(Nat) /\ Len(Output) = Len(landed)
    <3>1. ASSUME NEW i \in 1 .. Len(landed)
          PROVE  landed[i].sid \in Nat
      <4>1. landed[i] \in [sid : Nat, raw : Text, text : Text]
        BY <2>1, ElementOfSeq
      <4>2. QED
        BY <4>1
    <3>2. Output \in [1 .. Len(landed) -> Nat]
      BY <2>2, <3>1 DEF Output
    <3>3. QED
      BY <2>2, <3>2
  <2>4. id \in Nat
    BY DEF TypeOK, Session
  <2>5. /\ Append(Output, id) \in Seq(Nat)
        /\ Len(Append(Output, id)) = Len(landed) + 1
        /\ \A i \in 1 .. Len(landed) : Append(Output, id)[i] = Output[i]
        /\ Append(Output, id)[Len(landed) + 1] = id
    BY <2>2, <2>3, <2>4, AppendProperties
  <2>6. Output' = [i \in 1 .. Len(landed) + 1 |-> landed'[i].sid]
    BY <2>2 DEF Output
  <2>7. \A i \in 1 .. Len(landed) + 1 : Output'[i] = Append(Output, id)[i]
    BY <1>3, <2>2, <2>5, <2>6 DEF Output
  <2>8. QED
    BY <2>2, <2>5, <2>6, <2>7
<1>5. Contract!Deliver(id)
  BY <1>2, <1>4 DEF Contract!Deliver, PhaseOf, Output
<1>6. QED
  BY <1>2, <1>5

\* The stop planner ends the session, or leaves it to the contract's eyes as
\* it was.
LEMMA ContractPlan ==
  ASSUME TypeOK, BooksBalance, OneTask, BeginRectify, UNCHANGED <<nextId, landed>>
  PROVE  \/ UNCHANGED <<PhaseOf, Output>>
         \/ \E s \in Sids : Contract!Discard(s)
<1>0. /\ session \in Session /\ Frozen \in Session /\ Frozen.id = session.id
      /\ state = "Recording" => session.id # 0
  BY FrozenType DEF TypeOK, Session, Frozen, BooksBalance, IdleIffNone
<1>1. CASE state = "Recording" /\ ~HasUtterance
  BY <1>0, <1>1, ContractDiscards DEF BeginRectify, OneTask
<1>2. CASE ~(state = "Recording" /\ ~HasUtterance)
  <2>1. ends' = ends /\ session'.id = session.id
    BY <1>0, <1>2 DEF BeginRectify, Rectify, Session
  <2>2. QED
    BY <2>1, ContractStutters
<1>3. QED
  BY <1>1, <1>2

\* Every step of the engine is a step of the contract or none.
LEMMA ContractStep ==
  ASSUME TypeOK, BooksBalance, OneTask, [Next]_vars
  PROVE  [Contract!Next]_<<PhaseOf, Output>>
<1> DEFINE Kept == UNCHANGED <<PhaseOf, Output>> \/ Contract!Next
<1>0. /\ session \in Session
      /\ state # "Idle" => session.id # 0
      /\ NotEnded
  BY DEF TypeOK, BooksBalance, IdleIffNone, OneTask
<1>1. CASE UserStep
  <2>1. CASE StartSession
    BY <2>1, ContractOpens DEF StartSession, NewSession, NoSession, Contract!Next
  <2>2. CASE \E words \in 0 .. MaxWords, sentinels \in 0 .. 1 :
               RectifyText(words, sentinels)
    BY <2>2, ContractOpens
    DEF RectifyText, Rectify, NewSession, NoSession, Contract!Next
  <2>3. CASE CancelSession
    BY <1>0, <2>3, ContractDiscards DEF CancelSession, Contract!Next
  <2>4. CASE \/ StopSession \/ Reroll \/ PinPlaceholder \/ MarkQuick
             \/ \E held \in BOOLEAN : HoldGate(held)
             \/ UpdatePreviewText \/ ConfirmInsert
             \/ \E settings \in Configs : Switch(settings)
    BY <1>0, <2>4, ContractStutters
    DEF StopSession, Reroll, PinPlaceholder, MarkQuick, HoldGate,
        UpdatePreviewText, ConfirmInsert, Switch, Session, taskVars, sharedVars
  <2>5. QED
    BY <1>1, <2>1, <2>2, <2>3, <2>4 DEF UserStep
<1>2. CASE GateStep
  <2>1. CASE PlanHeld
    BY <2>1, ContractPlan DEF PlanHeld, Contract!Next
  <2>2. CASE InsertLands
    BY <2>2, ContractDelivers DEF Contract!Next
  <2>3. CASE ConfirmFails \/ PasteFails
    BY <1>0, <2>3, ContractStutters
    DEF ConfirmFails, PasteFails, Session, taskVars, sharedVars
  <2>4. QED
    BY <1>2, <2>1, <2>2, <2>3 DEF GateStep
<1>3. ASSUME NEW s \in Sids, AsrStep(s)
      PROVE  Kept
  <2>1. CASE \/ FailedEvent(s)
             \/ OpenFails(s) /\ Matches(s) /\ state = "Recording"
    <3>1. /\ Finish(session.id, "Cancelled") /\ session.id # 0
          /\ UNCHANGED <<nextId, landed>>
      BY <2>1 DEF FailedEvent, OpenFails, Current, Matches
    <3>2. QED
      BY <1>0, <3>1, ContractDiscards DEF Contract!Next
  <2>2. CASE AutoEnd(s)
    BY <2>2, ContractPlan DEF AutoEnd, Contract!Next
  <2>3. CASE \/ OpenSucceeds(s) \/ AsrCancelled(s) \/ StreamEnds(s)
             \/ StaleEvent(s) \/ SilenceEvent(s)
             \/ \E event \in AsrEvents : EventPulled(s, event)
             \/ \E speaking \in BOOLEAN : SpeechEvent(s, speaking)
             \/ \E heard \in 0 .. MaxWords : TextEvent(s, heard)
             \/ OpenFails(s) /\ ~(Matches(s) /\ state = "Recording")
    BY <1>0, <2>3, ContractStutters
    DEF OpenSucceeds, AsrCancelled, StreamEnds, StaleEvent, SilenceEvent,
        EventPulled, SpeechEvent, TextEvent, OpenFails, SharedSame, Session,
        sharedVars
  <2>4. QED
    BY <1>3, <2>1, <2>2, <2>3 DEF AsrStep
<1>4. ASSUME NEW a \in attempts, AttemptStep(a)
      PROVE  Kept
  <2>1. CASE AttemptFails(a) /\ Stands(a) /\ ~session.quick
    <3>1. /\ Finish(session.id, "Cancelled") /\ session.id # 0
          /\ UNCHANGED <<nextId, landed>>
      BY <2>1 DEF AttemptFails, AttemptSame, Stands, Matches
    <3>2. QED
      BY <1>0, <3>1, ContractDiscards DEF Contract!Next
  <2>2. CASE ~(AttemptFails(a) /\ Stands(a) /\ ~session.quick)
    BY <1>0, <1>4, <2>2, ContractStutters
    DEF AttemptStep, AttemptCancelled, Chunk, AttemptFails, AttemptLands,
        AttemptPastes, AttemptSame, Session
  <2>3. QED
    BY <2>1, <2>2
<1>5. ASSUME NEW p \in pastes, PasteTakesGate(p)
      PROVE  Kept
  BY <1>5, ContractStutters DEF PasteTakesGate, sharedVars
<1>6. CASE UNCHANGED vars
  BY <1>6, ContractStutters DEF vars
<1>7. QED
  BY <1>1, <1>2, <1>3, <1>4, <1>5, <1>6 DEF Next

\* The engine implements the session contract: one session at a time, ended
\* once, its text on the target only as the step that ends it as inserted.
THEOREM ContractKept ==
  ASSUME ~MultiThread
  PROVE  Spec => ImplementsContract
<1>1. Init => Contract!Init
  BY DEF Init, Contract!Init, Phase, Sids
<1>2. TypeOK /\ BooksBalance /\ OneTask /\ [Next]_vars
        => [Contract!Next]_<<PhaseOf, Output>>
  BY ContractStep
<1>3. QED
  BY <1>1, <1>2, TypeCorrect, BooksAlwaysBalance, TasksUndisturbed, PTL
  DEF Spec, ImplementsContract, Contract!Spec, PhaseOf, Output

=============================================================================
