----------------------------- MODULE Insertion -----------------------------
(***************************************************************************)
(* Confirmed text on its way into the window the user types in:            *)
(* TargetInserter (crates/insertion/src/inserter.rs) over the Win32 calls  *)
(* (windows.rs) and the paced paste script (os.rs), with the calls of      *)
(* app/rust/src/api/engine.rs that note the target and hand the keyboard   *)
(* back.  The inserter is one thread that makes one call at a time; the    *)
(* user, the other programs and the window manager act between any two of  *)
(* its calls, and a keystroke reaches whatever window is in front when it  *)
(* is sent.                                                                *)
(*                                                                         *)
(* The text is a sequence of characters, line feeds and carriage returns;  *)
(* waits are places where the world may move, not lengths of time.         *)
(***************************************************************************)
EXTENDS Naturals, Sequences, FiniteSets

CONSTANTS
  Apps,      \* the windows of other programs
  Elevated,  \* those that injected input may not reach
  Text,      \* the confirmed text
  Tries,     \* how often each wait looks: the hand-over polled, the gate of the
             \* modifiers, the clipboard
  MaxMoves   \* bound: acts of the user, the programs and the window manager

ASSUME InsertionAssumption ==
  /\ Elevated \subseteq Apps /\ Apps \cap {"main", "settings", "none"} = {}
  /\ Text \in Seq({"char", "newline", "return"}) /\ Text # <<>>
  /\ Tries \in [{"poll", "gate", "clip"} -> Nat \ {0}] /\ MaxMoves \in Nat

VARIABLES
  front,     \* the foreground window, or none
  coming,    \* a window asked to the front that has not got there yet
  alive,     \* the windows of other programs that exist
  settings,  \* our settings window is on the screen
  held,      \* modifiers the user holds down
  clip,      \* the clipboard: our text, nothing, or somebody else's
  target,    \* Win32Os::target
  last,      \* LAST_FOREIGN_FOREGROUND
  mode,      \* the mode the settings hold
  session,   \* the engine: idle, at a preview, or inserting
  ins,       \* the insert: place, snapshot of the mode, looks, character
  ctrl,      \* an injected Ctrl is down
  hand,      \* a restore_focus between its look and its call
  sent,      \* what this insert has sent, and to which window
  ghost,     \* of this insert: the window in front at its start; whether the
             \* windows moved, our own one came to the front, the hand-over was
             \* given up; modifiers of the user's down (since the gate, in a
             \* paste), another copy since ours, a Ctrl left down by an earlier
             \* paste; and how it ended
  moves
world == <<front, coming, alive, settings, held, moves>>
notes == <<target, last>>
vars == <<world, notes, clip, mode, session, ins, ctrl, hand, sent, ghost>>

Ours == {"main", "settings"}
MainInFront == front = "main"
SubwindowVisible == settings
None == "none"

Places == {"rest", "focus", "note", "activate", "poll", "clip", "gate", "ctrl",
           "v", "up", "type", "end"}

\* Every variable holds a value of its kind.
TypeOK ==
  /\ front \in Apps \cup Ours \cup {None} /\ coming \in Apps \cup {None}
  /\ alive \subseteq Apps /\ settings \in BOOLEAN /\ held \in BOOLEAN
  /\ clip \in {"ours", "empty", "theirs"}
  /\ {target, last} \subseteq Apps \cup {None}
  /\ mode \in {"paste", "typing"} /\ session \in {"idle", "preview", "inserting"}
  /\ ins.pc \in Places /\ ins.at \in 1..Len(Text) + 1
  /\ ins.polls \in 0..IF ins.pc \in DOMAIN Tries THEN Tries[ins.pc] ELSE 0
  /\ ctrl \in BOOLEAN /\ hand \in BOOLEAN /\ moves \in 0..MaxMoves

NewGhost(start, moved, keys, stuck, result) ==
  [start |-> start, moved |-> moved, ours |-> FALSE, gaveUp |-> FALSE,
   keys |-> keys, copied |-> FALSE, stuck |-> stuck, result |-> result]
NoGhost == NewGhost(None, FALSE, FALSE, FALSE, "none")

Init ==
  /\ front \in Apps /\ coming = None /\ alive = Apps /\ settings = FALSE
  /\ held = FALSE /\ clip = "theirs" /\ target = None /\ last = None
  /\ mode \in {"paste", "typing"} /\ session = "idle"
  /\ ins = [pc |-> "rest", mode |-> mode, polls |-> 0, at |-> 1]
  /\ ctrl = FALSE /\ hand = FALSE /\ sent = <<>> /\ ghost = NoGhost /\ moves = 0

-----------------------------------------------------------------------------
(* The world *)

Acts ==
  /\ moves < MaxMoves /\ moves' = moves + 1
  /\ UNCHANGED <<target, mode, session, ins, ctrl, hand, sent>>

Moved(own) == Acts /\ ghost' = [ghost EXCEPT !.moved = TRUE, !.ours = @ \/ own]

\* The user brings a window to the front; opening the settings window does too.
Focuses(w) ==
  /\ w # front /\ w \in alive \cup Ours \cup {None}
  /\ front' = w /\ settings' = (settings \/ w = "settings")
  /\ Moved(w \in Ours)
  /\ UNCHANGED <<coming, alive, held, clip, last>>

ClosesSettings ==
  /\ settings /\ settings' = FALSE
  /\ front' \in IF front = "settings" THEN alive \cup {"main", None} ELSE {front}
  /\ Moved(front' # front /\ front' = "main")
  /\ UNCHANGED <<coming, alive, held, clip, last>>

ClosesApp(a) ==
  /\ a \in alive /\ alive' = alive \ {a}
  /\ front' \in IF front = a THEN alive' \cup {"main", None} ELSE {front}
  /\ coming' = IF coming = a THEN None ELSE coming
  /\ Moved(front' # front /\ front' = "main")
  /\ UNCHANGED <<settings, held, clip, last>>

PressesModifiers ==
  /\ ~held /\ held' = TRUE
  /\ Acts /\ ghost' = [ghost EXCEPT !.keys = TRUE]
  /\ UNCHANGED <<front, coming, alive, settings, clip, last>>

\* The user's Ctrl going up takes the injected one with it.
ReleasesModifiers ==
  /\ held /\ held' = FALSE /\ ctrl' \in {ctrl, FALSE}
  /\ UNCHANGED <<front, coming, alive, settings, clip, last, target, mode, session, ins, hand,
                 sent, ghost, moves>>

OthersCopy ==
  /\ clip # "theirs" /\ clip' = "theirs"
  /\ Acts /\ ghost' = [ghost EXCEPT !.copied = TRUE]
  /\ UNCHANGED <<front, coming, alive, settings, held, last>>

\* The window asked for arrives, or never does.
SwitchLands ==
  /\ coming # None
  /\ front' = coming /\ coming' = None
  /\ UNCHANGED <<alive, settings, held, moves, notes, clip, mode, session, ins, ctrl, hand, sent,
                 ghost>>

\* foreground_changed and the poll: record_if_foreign.
Tracks ==
  /\ front \in alive /\ last' = front
  /\ UNCHANGED <<world, target, clip, mode, session, ins, ctrl, hand, sent, ghost>>

SetsConfig ==
  /\ mode' = IF mode = "paste" THEN "typing" ELSE "paste"
  /\ UNCHANGED <<world, notes, clip, session, ins, ctrl, hand, sent, ghost>>

-----------------------------------------------------------------------------
(* The OS seam *)

\* note_target: the window in front, or the last foreign one while it exists.
Noted == CASE front \in alive -> front
           [] front \notin alive /\ last \in alive -> last
           [] OTHER -> target

\* activate_target: the switch is only asked for, and may be refused to a
\* process that is not in front.
Activates(asked) ==
  /\ asked => target \in alive
  /\ (target \in alive /\ front \in Ours) => asked
  /\ coming' = IF asked THEN target ELSE coming

\* SendInput reaches the window in front unless that one is elevated.
Reaches == front \notin Elevated

Sends(items) == sent' = Append(sent, [win |-> front, items |-> items])

\* A character travels as text, Enter as a key that held modifiers turn into
\* another one (0).
Stroke(i) == IF Text[i] = "newline" /\ (held \/ ctrl) THEN 0 ELSE i

\* paced_paste_script: the batches, in order.
Script == <<"gate", "ctrl", "v", "up">>
After(batch) == Script[(CHOOSE i \in DOMAIN Script : Script[i] = batch) + 1]

\* with_clipboard, once it is open: filled, or the emptying or the filling fails.
Clipboard(ok) == clip' \in IF ok THEN {"ours"} ELSE {clip, "empty"}

-----------------------------------------------------------------------------
(* Sessions *)

\* execute(StartSession): the target is noted first; a refused start hands
\* the keyboard back.
Starts ==
  /\ target' = Noted
  /\ IF session = "idle" THEN session' = "preview" /\ hand' = hand
                         ELSE hand' = TRUE /\ session' = session
  /\ ghost' = [ghost EXCEPT !.moved = TRUE]
  /\ UNCHANGED <<world, last, clip, mode, ins, ctrl, sent>>

\* finish_session(Cancelled).
Cancels ==
  /\ session = "preview" /\ session' = "idle" /\ hand' = TRUE
  /\ UNCHANGED <<world, notes, clip, mode, ins, ctrl, sent, ghost>>

\* The quick panel closes.
PanelCloses ==
  /\ hand' = TRUE /\ ghost' = [ghost EXCEPT !.moved = TRUE]
  /\ UNCHANGED <<world, notes, clip, mode, session, ins, ctrl, sent>>

\* restore_focus looks, and only then calls.
Restores ==
  /\ hand /\ hand' = FALSE
  /\ IF MainInFront /\ ~SubwindowVisible THEN \E asked \in BOOLEAN : Activates(asked)
                                    ELSE UNCHANGED coming
  /\ UNCHANGED <<front, alive, settings, held, moves, notes, clip, mode, session, ins, ctrl,
                 sent, ghost>>

\* Confirm: insert() takes its snapshot of the config; no text, no call.
Confirms(empty) ==
  /\ session = "preview" /\ session' = "inserting"
  /\ ins' = [pc |-> IF empty THEN "end" ELSE "focus", mode |-> mode, polls |-> 0, at |-> 1]
  /\ sent' = <<>>
  /\ ghost' = NewGhost(front, hand \/ coming # None, held, ctrl,
                       IF empty THEN "nothing" ELSE "none")
  /\ UNCHANGED <<world, notes, clip, mode, ctrl, hand>>

-----------------------------------------------------------------------------
(* The insert *)

At(pc) == ins.pc = pc
Goes(pc) == ins' = [ins EXCEPT !.pc = pc, !.polls = 0]

\* A wait looks once more, while it has looks left.
Again == ins.polls < Tries[ins.pc] /\ ins' = [ins EXCEPT !.polls = @ + 1]
Ends(result) == Goes("end") /\ ghost' = [ghost EXCEPT !.result = result]
Still == UNCHANGED <<front, alive, settings, moves, last, mode, session, hand>>
Spent == ins.polls = Tries[ins.pc]

\* Where the mode the insert runs with goes once the keyboard is in place.
Focused == Goes(IF ins.mode = "paste" THEN "clip" ELSE "type")

\* Faulty: the remembered target comes first.
FaultyFocus ==
  /\ At("focus") /\ Goes(IF target = None /\ front \notin Ours THEN "clip" ELSE "activate")
  /\ Still /\ UNCHANGED <<coming, held, clip, target, ctrl, sent, ghost>>

\* focus_somewhere: a foreign window in front is the user's choice.
Focus ==
  /\ At("focus")
  /\ IF front \in Ours THEN Goes("note") ELSE Focused
  /\ Still /\ UNCHANGED <<coming, held, clip, target, ctrl, sent, ghost>>

Notes ==
  /\ At("note") /\ target' = Noted /\ Goes("activate")
  /\ Still /\ UNCHANGED <<coming, held, clip, ctrl, sent, ghost>>

\* Faulty: the switch is taken for done when it has been asked for.
FaultyActivate ==
  /\ At("activate")
  /\ \E asked \in BOOLEAN :
       /\ Activates(asked)
       /\ IF asked THEN Focused /\ UNCHANGED ghost ELSE Ends("err")
  /\ Still /\ UNCHANGED <<held, clip, target, ctrl, sent>>

Activate ==
  /\ At("activate")
  /\ \E asked \in BOOLEAN :
       /\ Activates(asked)
       /\ IF asked THEN Goes("poll") /\ UNCHANGED ghost ELSE Ends("err")
  /\ Still /\ UNCHANGED <<held, clip, target, ctrl, sent>>

\* Faulty: the polls are not counted.
FaultyPoll ==
  /\ At("poll")
  /\ IF front = target THEN Focused ELSE UNCHANGED ins
  /\ Still /\ UNCHANGED <<coming, held, clip, target, ctrl, sent, ghost>>

\* await_focus_handed_over: past its budget the insert goes on all the same.
Poll ==
  /\ At("poll")
  /\ \/ front = target /\ Focused /\ UNCHANGED ghost
     \/ front # target /\ Again /\ UNCHANGED ghost
     \/ front # target /\ Spent /\ Focused /\ ghost' = [ghost EXCEPT !.gaveUp = TRUE]
  /\ Still /\ UNCHANGED <<coming, held, clip, target, ctrl, sent>>

\* Faulty: the tries of a busy clipboard are not counted.
FaultySetsClipboard ==
  /\ At("clip")
  /\ \/ Clipboard(TRUE) /\ Goes(Head(Script)) /\ ghost' = [ghost EXCEPT !.copied = FALSE]
     \/ Clipboard(FALSE) /\ Ends("err")
     \/ ins' = [ins EXCEPT !.polls = 1 - @] /\ UNCHANGED <<clip, ghost>>
  /\ Still /\ UNCHANGED <<coming, held, target, ctrl, sent>>

\* insert_by_paste: another program may hold the clipboard open, through all the tries.
SetsClipboard ==
  /\ At("clip")
  /\ \/ Clipboard(TRUE) /\ Goes(Head(Script)) /\ ghost' = [ghost EXCEPT !.copied = FALSE]
     \/ Clipboard(FALSE) /\ Ends("err")
     \/ Again /\ UNCHANGED <<clip, ghost>>
     \/ Spent /\ Ends("err") /\ UNCHANGED clip
  /\ Still /\ UNCHANGED <<coming, held, target, ctrl, sent>>

\* The modifiers are up, or time is over and they are flushed as far as input
\* reaches the window in front; the script goes on either way.
Passes(flushed) ==
  /\ Goes(After("gate"))
  /\ IF flushed THEN held' = FALSE /\ ctrl' = FALSE ELSE UNCHANGED <<held, ctrl>>
  /\ ghost' = [ghost EXCEPT !.keys = held']

\* Faulty: a modifier that stays down is waited for without end.
FaultyGate ==
  /\ At("gate")
  /\ IF held \/ ctrl THEN UNCHANGED <<ins, held, ctrl, ghost>> ELSE Passes(FALSE)
  /\ Still /\ UNCHANGED <<coming, clip, target, sent>>

\* Faulty: the gate does not look at the modifiers.
BlindGate ==
  /\ At("gate") /\ Goes(After("gate")) /\ ghost' = [ghost EXCEPT !.keys = FALSE]
  /\ Still /\ UNCHANGED <<coming, held, ctrl, clip, target, sent>>

\* await_physical_modifiers_up.
Gate ==
  /\ At("gate")
  /\ \/ ~held /\ ~ctrl /\ Passes(FALSE)
     \/ (held \/ ctrl) /\ Again /\ UNCHANGED <<held, ctrl, ghost>>
     \/ (held \/ ctrl) /\ Spent /\ Passes(Reaches)
  /\ Still /\ UNCHANGED <<coming, clip, target, sent>>

\* send_paste fails fast at the first batch that is not delivered.
CtrlDown ==
  /\ At("ctrl")
  /\ IF Reaches THEN ctrl' = TRUE /\ Goes(After("ctrl")) /\ UNCHANGED ghost
                ELSE UNCHANGED ctrl /\ Ends("err")
  /\ Still /\ UNCHANGED <<coming, held, clip, target, sent>>

\* Ctrl and V paste the clipboard; with other modifiers down, or Ctrl up again,
\* the key is another one.
Chord == IF ctrl /\ ~held THEN clip ELSE "key"

\* Faulty: the batch with the V that is not delivered is passed over.
FaultyPastes ==
  /\ At("v") /\ Goes(After("v"))
  /\ IF Reaches THEN Sends(Chord) ELSE UNCHANGED sent
  /\ Still /\ UNCHANGED <<coming, held, clip, target, ctrl, ghost>>

Pastes ==
  /\ At("v")
  /\ IF Reaches THEN Sends(Chord) /\ Goes(After("v")) /\ UNCHANGED ghost
                ELSE UNCHANGED sent /\ Ends("err")
  /\ Still /\ UNCHANGED <<coming, held, clip, target, ctrl>>

CtrlUp ==
  /\ At("up")
  /\ IF Reaches THEN ctrl' = FALSE /\ Ends("ok") ELSE UNCHANGED ctrl /\ Ends("err")
  /\ Still /\ UNCHANGED <<coming, held, clip, target, sent>>

\* Faulty: a character that fails is passed over.
FaultyTypes ==
  /\ At("type")
  /\ IF ins.at > Len(Text) THEN Ends("ok") /\ UNCHANGED sent
     ELSE /\ ins' = [ins EXCEPT !.at = @ + 1] /\ UNCHANGED ghost
          /\ IF Text[ins.at] # "return" /\ Reaches THEN Sends(Stroke(ins.at)) ELSE UNCHANGED sent
  /\ Still /\ UNCHANGED <<coming, held, clip, target, ctrl>>

\* insert_by_typing: a bare return types nothing, a failure ends the insert.
Types ==
  /\ At("type")
  /\ CASE ins.at > Len(Text) -> Ends("ok") /\ UNCHANGED sent
       [] ins.at <= Len(Text) /\ Text[ins.at] = "return" ->
            ins' = [ins EXCEPT !.at = @ + 1] /\ UNCHANGED <<sent, ghost>>
       [] ins.at <= Len(Text) /\ Text[ins.at] # "return" /\ Reaches ->
            ins' = [ins EXCEPT !.at = @ + 1] /\ Sends(Stroke(ins.at)) /\ UNCHANGED ghost
       [] OTHER -> Ends("err") /\ UNCHANGED sent
  /\ Still /\ UNCHANGED <<coming, held, clip, target, ctrl>>

\* The engine hears how it ended: the session is over, or back at its preview.
Answers ==
  /\ At("end") /\ Goes("rest")
  /\ session' = IF ghost.result = "err" THEN "preview" ELSE "idle"
  /\ sent' = <<>> /\ ghost' = NoGhost
  /\ UNCHANGED <<world, notes, clip, mode, ctrl, hand>>

InsertStep == \/ Focus \/ Notes \/ Activate \/ Poll \/ SetsClipboard \/ Gate
              \/ CtrlDown \/ Pastes \/ CtrlUp \/ Types \/ Answers

World == \/ \E w \in Apps \cup Ours \cup {None} : Focuses(w)
         \/ \E a \in Apps : ClosesApp(a)
         \/ ClosesSettings \/ PressesModifiers \/ ReleasesModifiers \/ OthersCopy
         \/ SwitchLands \/ Tracks \/ SetsConfig

Session == \/ Starts \/ Cancels \/ PanelCloses \/ Restores
           \/ \E empty \in BOOLEAN : Confirms(empty)

Next == InsertStep \/ World \/ Session

Spec == Init /\ [][Next]_vars

\* The inserter's thread runs on; nothing else is promised to.
FairSpec == Spec /\ WF_vars(InsertStep)

-----------------------------------------------------------------------------
\* While nobody else moves anything, every keystroke of an insert goes to one
\* window: the foreign one the user was in at the confirm, and only otherwise
\* the remembered target, however the sessions before it left that target.
\* Our own windows take one only when the user put one of them in front after
\* the confirm, or when the hand-over was given up after all its polls
\* (focus_somewhere, await_focus_handed_over: the switch is asked for and has
\* to become a fact first).
LandsWhereTheUserIs ==
  \A i \in DOMAIN sent :
    /\ sent[i].win \in Ours => ghost.ours \/ ghost.gaveUp
    /\ ~ghost.moved /\ ~ghost.gaveUp =>
         sent[i].win = IF ghost.start \in Apps \cup {None} THEN ghost.start ELSE target

\* How many keystrokes the first k characters of the text take.
Keys(k) == Cardinality({i \in 1..k : Text[i] # "return"})

\* Whatever fails, wherever the focus goes and whatever the settings do, an
\* insert sends the text once and in order: typing the keystrokes of a prefix of
\* it, each at its place, pasting at most one chord; and it is reported done only
\* when all the text, or the chord, has been sent.  What arrives is the text but
\* for three things: another program's copy after ours is what a paste brings;
\* modifiers the user holds down - past the gate, in a paste - turn a V or an
\* Enter into another key; so does, for the Enters of typing, which has no
\* gate, a Ctrl that an earlier paste of ours failed to put up.
SentOnce ==
  LET Sent(i) == sent[i].items
      Done == ghost.result = "ok"
      Turned(k) == Text[k] = "newline" /\ (ghost.keys \/ ghost.stuck)
  IN  session = "inserting" =>
        CASE ins.mode = "typing" ->
               /\ Len(sent) <= Keys(Len(Text))
               /\ Done => Len(sent) = Keys(Len(Text))
               /\ \A k \in DOMAIN Text :
                    Text[k] # "return" /\ Keys(k) <= Len(sent) =>
                      Sent(Keys(k)) = k \/ (Turned(k) /\ Sent(Keys(k)) = 0)
          [] ins.mode = "paste" ->
               /\ Len(sent) <= 1
               /\ Done => Len(sent) = 1
               /\ \A i \in DOMAIN sent :
                    \/ Sent(i) = "ours"
                    \/ Sent(i) = "theirs" /\ ghost.copied
                    \/ Sent(i) = "key" /\ ghost.keys

\* An insert ends whatever the target, the user's modifiers and the programs that
\* hold the clipboard open do: the confirm that waits for it holds the engine's
\* command gate.
InsertEnds == (session = "inserting") ~> (session # "inserting")
=============================================================================
