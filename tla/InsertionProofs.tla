-------------------------- MODULE InsertionProofs --------------------------
(***************************************************************************)
(* Theorems of Insertion, for any text, any set of programs, elevated or   *)
(* not, and any number of polls and of acts of the world: an insert lands  *)
(* in the window the user is in, a paste is sent once, and typing sends    *)
(* each character of the text once and in order.                           *)
(***************************************************************************)
EXTENDS Insertion, FiniteSetTheorems, TLAPS

-----------------------------------------------------------------------------
(* Types *)

Windows == Apps \cup Ours \cup {None}
Modes == {"paste", "typing"}
Inserts == [pc : Places, mode : Modes, polls : Nat, at : 1 .. Len(Text) + 1]
Results == {"none", "ok", "err", "nothing"}
Ghosts == [start : Windows, moved : BOOLEAN, ours : BOOLEAN, gaveUp : BOOLEAN,
           keys : BOOLEAN, copied : BOOLEAN, stuck : BOOLEAN, result : Results]

\* What the places an insert lands at ask of its history.
SameCourse(before, after) ==
  /\ after.start = before.start /\ after.moved = before.moved
  /\ after.ours = before.ours /\ after.gaveUp = before.gaveUp

\* What the text it sends asks of it.
SameText(before, after) ==
  /\ after.keys = before.keys /\ after.copied = before.copied /\ after.stuck = before.stuck

WorldType ==
  /\ front \in Windows /\ coming \in Apps \cup {None} /\ alive \subseteq Apps
  /\ settings \in BOOLEAN /\ held \in BOOLEAN /\ moves \in 0 .. MaxMoves
  /\ target \in Apps \cup {None} /\ last \in Apps \cup {None}
  /\ clip \in {"ours", "empty", "theirs"} /\ mode \in Modes

InsertType ==
  /\ session \in {"idle", "preview", "inserting"} /\ ins \in Inserts
  /\ ctrl \in BOOLEAN /\ hand \in BOOLEAN /\ ghost \in Ghosts

-----------------------------------------------------------------------------
(* Where an insert lands *)

Pasting == {"clip", "gate", "ctrl", "v", "up"}
Sending == Pasting \cup {"type"}
Asking  == {"focus", "note", "activate", "poll"}

\* What is sent to a window: a chord that pastes the clipboard, or the key of
\* a character.
Chords  == [win : Windows, items : {"ours", "empty", "theirs", "key"}]
Strokes == [win : Windows, items : 0 .. Len(Text)]

\* What has been sent is of the insert in hand, which runs in one mode.
Running ==
  /\ sent \in Seq(IF ins.mode = "paste" THEN Chords ELSE Strokes)
  /\ session = "inserting" <=> ins.pc # "rest"
  /\ ins.pc \in Asking \cup {"rest"} => sent = <<>>
  /\ ins.pc \in Pasting => ins.mode = "paste"
  /\ ins.pc = "type" => ins.mode = "typing"

\* One of our windows gets no keystroke but by the user's own doing, or after
\* the polls have given up.
OursExcused(w) == w \in Ours => ghost.ours \/ ghost.gaveUp
Excused ==
  /\ ins.pc \in Sending => OursExcused(front)
  /\ \A i \in DOMAIN sent : OursExcused(sent[i].win)

\* Where an insert belongs whose target has been noted.
Place == IF ghost.start \in Apps \cup {None} THEN ghost.start ELSE target

\* While nobody else moves anything, the window in front is the one of the
\* confirm, or the target the insert itself has asked for.
Unmoved == session = "inserting" /\ ~ghost.moved
Placed ==
  Unmoved =>
    /\ ~hand
    /\ ins.pc \in {"focus", "note", "activate"} => front = ghost.start /\ coming = None
    /\ ins.pc \in {"note", "activate", "poll"} => ghost.start \in Ours
    /\ coming = None \/ (ghost.start \in Ours /\ coming = target)
    /\ ins.pc \in Sending /\ ~ghost.gaveUp => front = Place
    /\ ~ghost.gaveUp => \A i \in DOMAIN sent : sent[i].win = Place

LandInv == WorldType /\ InsertType /\ Running /\ Excused /\ Placed

\* Our own windows are not programs', and no window is none.
LEMMA OursApart == Ours \cap (Apps \cup {None}) = {} /\ None \notin Apps
BY InsertionAssumption DEF Ours, None

\* The window the session noted is an application's, or none.
LEMMA NotedType ==
  ASSUME WorldType
  PROVE  Noted \in Apps \cup {None}
BY DEF WorldType, Noted

\* What is recorded when somebody moves something.
LEMMA GhostMoves ==
  ASSUME ghost \in Ghosts, NEW own \in BOOLEAN
  PROVE  LET after == [ghost EXCEPT !.moved = TRUE, !.ours = @ \/ own]
         IN  /\ after \in Ghosts /\ after.moved /\ after.start = ghost.start
             /\ after.gaveUp = ghost.gaveUp /\ after.result = ghost.result
             /\ after.ours = (ghost.ours \/ own) /\ SameText(ghost, after)
<1> DEFINE moved == [ghost EXCEPT !.moved = TRUE]
           ours  == ghost.ours \/ own
<1>1. /\ moved \in Ghosts /\ moved.moved /\ moved.start = ghost.start
      /\ moved.gaveUp = ghost.gaveUp /\ moved.result = ghost.result /\ moved.ours = ghost.ours
      /\ ours \in BOOLEAN /\ SameText(ghost, moved)
  BY DEF Ghosts, SameText
<1>2. [ghost EXCEPT !.moved = TRUE, !.ours = @ \/ own] = [moved EXCEPT !.ours = ours]
  OBVIOUS
<1> HIDE DEF moved, ours
<1>3. /\ [moved EXCEPT !.ours = ours] \in Ghosts
      /\ [moved EXCEPT !.ours = ours].moved = moved.moved
      /\ [moved EXCEPT !.ours = ours].start = moved.start
      /\ [moved EXCEPT !.ours = ours].gaveUp = moved.gaveUp
      /\ [moved EXCEPT !.ours = ours].result = moved.result
      /\ [moved EXCEPT !.ours = ours].ours = ours
      /\ SameText(moved, [moved EXCEPT !.ours = ours])
  BY <1>1 DEF Ghosts, SameText
<1>4. QED
  BY <1>1, <1>2, <1>3 DEF ours, SameText

\* Keys that go down, and another copy, are recorded and no more.
LEMMA GhostNotes ==
  ASSUME ghost \in Ghosts, NEW down \in BOOLEAN,
         \/ ghost' = [ghost EXCEPT !.keys = down]
         \/ ghost' = [ghost EXCEPT !.copied = down]
  PROVE  /\ ghost' \in Ghosts /\ SameCourse(ghost, ghost') /\ ghost'.result = ghost.result
         /\ ghost'.stuck = ghost.stuck
         /\ \/ ghost'.keys = down /\ ghost'.copied = ghost.copied
            \/ ghost'.copied = down /\ ghost'.keys = ghost.keys
BY DEF Ghosts, SameCourse

\* The world may move the keyboard to a window of ours only by showing one.
LEMMA MovedLands ==
  ASSUME LandInv, NEW own \in BOOLEAN, Moved(own),
         front' \in Windows, front' \in Ours => front \in Ours \/ own,
         coming' \in Apps \cup {None}, alive' \subseteq Apps, settings' \in BOOLEAN,
         held' \in BOOLEAN, clip' \in {"ours", "empty", "theirs"}, last' = last
  PROVE  LandInv'
<1>0. /\ ghost \in Ghosts /\ moves \in 0 .. MaxMoves /\ MaxMoves \in Nat
  BY InsertionAssumption DEF LandInv, WorldType, InsertType
<1>1. /\ moves' \in 0 .. MaxMoves
      /\ UNCHANGED <<target, mode, session, ins, ctrl, hand, sent>>
  BY <1>0 DEF Moved, Acts
<1>2. /\ ghost' \in Ghosts /\ ghost'.moved /\ ghost'.start = ghost.start
      /\ ghost'.gaveUp = ghost.gaveUp /\ ghost'.ours = (ghost.ours \/ own)
  <2>1. ghost' = [ghost EXCEPT !.moved = TRUE, !.ours = @ \/ own]
    BY DEF Moved
  <2>2. QED
    BY <1>0, <2>1, GhostMoves
<1>3. WorldType' /\ InsertType'
  BY <1>1, <1>2 DEF LandInv, WorldType, InsertType
<1>4. Running' /\ Placed'
  BY <1>1, <1>2 DEF LandInv, Running, Placed, Unmoved
<1>5. Excused'
  BY <1>1, <1>2 DEF LandInv, Excused, OursExcused
<1>6. QED
  BY <1>3, <1>4, <1>5 DEF LandInv

\* Whatever the desktop does, the invariant holds.
LEMMA WorldLands ==
  ASSUME LandInv, World
  PROVE  LandInv'
<1>0. WorldType /\ alive \subseteq Apps /\ Apps \cap Ours = {}
  BY OursApart DEF LandInv, WorldType
<1>1. ASSUME NEW w \in Windows, Focuses(w)
      PROVE  LandInv'
  <2>1. (w \in Ours) \in BOOLEAN /\ Moved(w \in Ours)
    BY <1>1 DEF Focuses
  <2>2. QED
    BY <1>0, <1>1, <2>1, MovedLands DEF Focuses, WorldType
<1>2. CASE ClosesSettings
  <2>1. (front' # front /\ front' = "main") \in BOOLEAN /\ Moved(front' # front /\ front' = "main")
    BY <1>2 DEF ClosesSettings
  <2>2. front' \in Windows /\ (front' \in Ours => front \in Ours)
    BY <1>0, <1>2 DEF ClosesSettings, WorldType, Windows, Ours
  <2>3. QED
    BY <1>0, <1>2, <2>1, <2>2, MovedLands DEF ClosesSettings, WorldType
<1>3. ASSUME NEW a \in Apps, ClosesApp(a)
      PROVE  LandInv'
  <2>1. (front' # front /\ front' = "main") \in BOOLEAN /\ Moved(front' # front /\ front' = "main")
    BY <1>3 DEF ClosesApp
  <2>2. alive' \subseteq Apps /\ coming' \in Apps \cup {None}
    BY <1>0, <1>3 DEF ClosesApp, WorldType
  <2>3. /\ front' \in Windows
        /\ front' \in Ours => front \in Ours \/ (front' # front /\ front' = "main")
    BY <1>0, <1>3, <2>2, OursApart DEF ClosesApp, WorldType, Windows, Ours
  <2>4. QED
    BY <1>0, <1>3, <2>1, <2>2, <2>3, MovedLands DEF ClosesApp, WorldType
<1>4. ASSUME /\ held' \in BOOLEAN /\ ctrl' \in BOOLEAN /\ clip' \in {"ours", "empty", "theirs"}
             /\ mode' \in Modes /\ moves' \in 0 .. MaxMoves
             /\ ghost' \in Ghosts /\ SameCourse(ghost, ghost')
             /\ UNCHANGED <<front, coming, alive, settings, last, target, session, ins, hand, sent>>
      PROVE  LandInv'
  BY <1>4
  DEF LandInv, WorldType, InsertType, Running, Excused, OursExcused, Placed, Unmoved, Place,
      SameCourse
<1>5. SameCourse(ghost, ghost) /\ ghost \in Ghosts /\ ctrl \in BOOLEAN /\ held \in BOOLEAN
      /\ clip \in {"ours", "empty", "theirs"} /\ mode \in Modes /\ moves \in 0 .. MaxMoves
  BY DEF SameCourse, LandInv, WorldType, InsertType
<1>6. CASE PressesModifiers \/ OthersCopy
  <2>1. moves' \in 0 .. MaxMoves
    <3>1. moves \in 0 .. MaxMoves /\ MaxMoves \in Nat /\ moves < MaxMoves /\ moves' = moves + 1
      BY <1>5, <1>6, InsertionAssumption DEF PressesModifiers, OthersCopy, Acts
    <3>2. QED
      BY <3>1
  <2>2. ghost' \in Ghosts /\ SameCourse(ghost, ghost')
    BY <1>5, <1>6, GhostNotes DEF PressesModifiers, OthersCopy
  <2>3. /\ held' \in BOOLEAN /\ clip' \in {"ours", "empty", "theirs"}
        /\ UNCHANGED <<front, coming, alive, settings, last, target, session, ins, hand, sent, ctrl, mode>>
    BY <1>5, <1>6 DEF PressesModifiers, OthersCopy, Acts
  <2>4. QED
    BY <1>4, <1>5, <2>1, <2>2, <2>3
<1>10. CASE ReleasesModifiers
  <2>1. /\ held' \in BOOLEAN /\ ctrl' \in BOOLEAN
        /\ UNCHANGED <<front, coming, alive, settings, last, target, session, ins, hand, sent,
                       mode, moves, clip, ghost>>
    BY <1>5, <1>10 DEF ReleasesModifiers
  <2>2. QED
    BY <1>4, <1>5, <2>1
<1>11. CASE SetsConfig
  <2>1. /\ mode' \in Modes
        /\ UNCHANGED <<front, coming, alive, settings, last, target, session, ins, hand, sent,
                       held, ctrl, moves, clip, ghost>>
    BY <1>11 DEF SetsConfig, Modes, world, notes
  <2>2. QED
    BY <1>4, <1>5, <2>1
<1>7. CASE Tracks
  <2>1. /\ last' \in Apps
        /\ UNCHANGED <<world, target, clip, mode, session, ins, ctrl, hand, sent, ghost>>
    BY <1>0, <1>7 DEF Tracks
  <2>2. QED
    BY <2>1
    DEF world, LandInv, WorldType, InsertType, Running, Excused, OursExcused, Placed, Unmoved,
        Place
<1>8. CASE SwitchLands
  <2>1. /\ front' = coming /\ coming' = None /\ coming \in Apps
        /\ UNCHANGED <<alive, settings, held, moves, target, last, clip, mode, session, ins,
                       ctrl, hand, sent, ghost>>
    BY <1>0, <1>8 DEF SwitchLands, WorldType, notes
  <2>2. WorldType' /\ InsertType' /\ Running'
    BY <2>1 DEF LandInv, WorldType, InsertType, Running, Windows
  <2>3. Excused'
    BY <1>0, <2>1 DEF LandInv, Excused, OursExcused
  <2>4. Placed'
    <3>0. coming # None
      BY <2>1, OursApart
    <3>1. Unmoved => ghost.start \in Ours /\ coming = target /\ ~hand
      BY <3>0 DEF LandInv, Placed
    <3>2. Unmoved => ins.pc \notin {"focus", "note", "activate"}
      BY <3>0 DEF LandInv, Placed
    <3>3. ghost.start \in Ours => Place = target
      BY OursApart DEF Place
    <3>4. QED
      BY <2>1, <3>1, <3>2, <3>3 DEF LandInv, Placed, Unmoved, Place
  <2>5. QED
    BY <2>2, <2>3, <2>4 DEF LandInv
<1>9. QED
  BY <1>1, <1>2, <1>3, <1>6, <1>7, <1>8, <1>10, <1>11 DEF World, Windows

-----------------------------------------------------------------------------
\* The sessions: a start, a cancel and a closed panel hand the keyboard back,
\* and a confirm looks where the user is.
LEMMA ConfirmGhost ==
  ASSUME NEW moved \in BOOLEAN, NEW keys \in BOOLEAN, NEW stuck \in BOOLEAN,
         NEW result \in Results, NEW start \in Windows,
         ghost' = NewGhost(start, moved, keys, stuck, result)
  PROVE  /\ ghost' \in Ghosts /\ ghost'.start = start /\ ghost'.moved = moved
         /\ ghost'.keys = keys /\ ghost'.stuck = stuck
         /\ ghost'.result = result /\ ~ghost'.gaveUp /\ ~ghost'.ours
BY DEF NewGhost, Ghosts

\* restore_focus and the insert ask for the target, which is a program's window.
LEMMA AsksTarget ==
  ASSUME WorldType, NEW asked \in BOOLEAN, Activates(asked)
  PROVE  /\ coming' \in Apps \cup {None} /\ (coming' = coming \/ coming' = target)
         /\ asked => coming' = target
         /\ (asked /\ target \in Apps) \/ ~asked
BY DEF WorldType, Activates

\* So it does when a session starts or ends,
LEMMA SessionLands ==
  ASSUME LandInv, Session
  PROVE  LandInv'
<1>1. CASE Starts
  <2>1. target' \in Apps \cup {None}
    BY <1>1, NotedType DEF LandInv, Starts
  <2>2. ghost' \in Ghosts /\ ghost'.moved /\ ghost'.ours = ghost.ours /\ ghost'.gaveUp = ghost.gaveUp
    BY <1>1 DEF LandInv, InsertType, Starts, Ghosts
  <2>3. /\ UNCHANGED <<world, last, clip, mode, ins, ctrl, sent>> /\ hand' \in BOOLEAN
        /\ session' = session \/ (session = "idle" /\ session' = "preview")
    BY <1>1 DEF LandInv, InsertType, Starts
  <2>4. WorldType' /\ InsertType'
    BY <2>1, <2>2, <2>3 DEF world, LandInv, WorldType, InsertType
  <2>5. Running' /\ Placed'
    BY <2>2, <2>3 DEF LandInv, Running, Placed, Unmoved
  <2>6. Excused'
    BY <2>2, <2>3 DEF world, LandInv, Excused, OursExcused
  <2>7. QED
    BY <2>4, <2>5, <2>6 DEF LandInv
<1>2. CASE Cancels
  <2>1. /\ session = "preview" /\ session' = "idle" /\ hand' = TRUE
        /\ UNCHANGED <<world, target, last, clip, mode, ins, ctrl, sent, ghost>>
    BY <1>2 DEF Cancels, notes
  <2>2. WorldType' /\ InsertType'
    BY <2>1 DEF world, LandInv, WorldType, InsertType
  <2>3. Running' /\ Excused' /\ Placed'
    BY <2>1 DEF world, LandInv, Running, Excused, OursExcused, Placed, Unmoved
  <2>4. QED
    BY <2>2, <2>3 DEF LandInv
<1>3. CASE PanelCloses
  <2>1. ghost' \in Ghosts /\ ghost'.moved /\ ghost'.ours = ghost.ours /\ ghost'.gaveUp = ghost.gaveUp
    BY <1>3 DEF LandInv, InsertType, PanelCloses, Ghosts
  <2>2. hand' = TRUE /\ UNCHANGED <<world, target, last, clip, mode, session, ins, ctrl, sent>>
    BY <1>3 DEF PanelCloses, notes
  <2>3. WorldType' /\ InsertType'
    BY <2>1, <2>2 DEF world, LandInv, WorldType, InsertType
  <2>4. Running' /\ Placed'
    BY <2>1, <2>2 DEF LandInv, Running, Placed, Unmoved
  <2>5. Excused'
    BY <2>1, <2>2 DEF world, LandInv, Excused, OursExcused
  <2>6. QED
    BY <2>3, <2>4, <2>5 DEF LandInv
<1>4. CASE Restores
  <2>1. /\ hand /\ hand' = FALSE
        /\ UNCHANGED <<front, alive, settings, held, moves, target, last, clip, mode, session,
                       ins, ctrl, sent, ghost>>
    BY <1>4 DEF Restores, notes
  <2>2. coming' \in Apps \cup {None}
    BY <1>4, AsksTarget DEF LandInv, WorldType, Restores
  <2>3. WorldType' /\ InsertType'
    BY <2>1, <2>2 DEF LandInv, WorldType, InsertType
  <2>4. Running' /\ Excused'
    BY <2>1 DEF LandInv, Running, Excused, OursExcused
  <2>5. ~Unmoved /\ ~Unmoved'
    BY <2>1 DEF LandInv, Placed, Unmoved
  <2>6. QED
    BY <2>3, <2>4, <2>5 DEF LandInv, Placed
<1>5. ASSUME NEW empty \in BOOLEAN, Confirms(empty)
      PROVE  LandInv'
  <2> DEFINE moved  == hand \/ coming # None
             result == IF empty THEN "nothing" ELSE "none"
  <2>1. /\ session' = "inserting" /\ sent' = <<>>
        /\ UNCHANGED <<world, target, last, clip, mode, ctrl, hand>>
        /\ ins' = [pc |-> IF empty THEN "end" ELSE "focus", mode |-> mode, polls |-> 0, at |-> 1]
        /\ ghost' = NewGhost(front, moved, held, ctrl, result)
    BY <1>5 DEF Confirms, notes
  <2>2. /\ moved \in BOOLEAN /\ result \in Results /\ front \in Windows
        /\ held \in BOOLEAN /\ ctrl \in BOOLEAN
    BY DEF LandInv, WorldType, InsertType, Results
  <2>3. /\ ghost' \in Ghosts /\ ghost'.start = front /\ ghost'.moved = moved
        /\ ~ghost'.gaveUp
    <3> HIDE DEF moved, result
    <3>1. QED
      BY <2>1, <2>2, ConfirmGhost
  <2>4. /\ ins' \in Inserts /\ ins'.pc \in {"end", "focus"}
    <3>1. 0 \in Nat /\ 1 \in 1 .. Len(Text) + 1
      <4>1. Len(Text) \in Nat
        BY InsertionAssumption
      <4>2. QED
        BY <4>1
    <3>2. mode \in Modes /\ (IF empty THEN "end" ELSE "focus") \in Places
      BY DEF LandInv, WorldType, Places
    <3>3. QED
      BY <2>1, <3>1, <3>2 DEF Inserts
  <2>5. WorldType' /\ InsertType'
    BY <2>1, <2>3, <2>4 DEF world, LandInv, WorldType, InsertType
  <2>6. Running' /\ Excused'
    BY <2>1, <2>4 DEF Running, Excused, Pasting, Sending, Asking
  <2>7. Placed'
    <3>1. ~ghost'.moved => ~hand' /\ coming' = None /\ front' = ghost'.start
      BY <2>1, <2>3 DEF world
    <3>2. QED
      BY <2>1, <2>4, <3>1 DEF Placed, Unmoved, Sending, Pasting
  <2>8. QED
    BY <2>5, <2>6, <2>7 DEF LandInv
<1>6. QED
  BY <1>1, <1>2, <1>3, <1>4, <1>5 DEF Session

-----------------------------------------------------------------------------
(* The insert's own steps *)

\* What a step to another place does to the bookkeeping of the insert.
LEMMA GoesTo ==
  ASSUME ins \in Inserts, NEW pc \in Places, Goes(pc)
  PROVE  /\ ins' \in Inserts /\ ins'.pc = pc /\ ins'.mode = ins.mode
         /\ ins'.polls = 0 /\ ins'.at = ins.at
BY DEF Inserts, Goes

\* One more look at the same place.
LEMMA LooksAgain ==
  ASSUME ins \in Inserts, Again
  PROVE  /\ ins' \in Inserts /\ ins'.pc = ins.pc /\ ins'.mode = ins.mode /\ ins'.at = ins.at
<1>1. ins.polls \in Nat /\ ins.polls + 1 \in Nat
  BY DEF Inserts
<1>2. QED
  BY <1>1 DEF Inserts, Again

\* The end of an insert, with its result.
LEMMA EndsWith ==
  ASSUME ins \in Inserts, ghost \in Ghosts, NEW result \in {"ok", "err"}, Ends(result)
  PROVE  /\ ins' \in Inserts /\ ins'.pc = "end" /\ ins'.mode = ins.mode
         /\ ins'.polls = 0 /\ ins'.at = ins.at
         /\ ghost' \in Ghosts /\ ghost'.start = ghost.start /\ ghost'.moved = ghost.moved
         /\ ghost'.ours = ghost.ours /\ ghost'.gaveUp = ghost.gaveUp
         /\ SameText(ghost, ghost') /\ ghost'.result = result
<1>1. "end" \in Places /\ Goes("end") /\ ghost' = [ghost EXCEPT !.result = result]
  BY DEF Ends, Places
<1>2. /\ ghost' \in Ghosts /\ ghost'.start = ghost.start /\ ghost'.moved = ghost.moved
      /\ ghost'.ours = ghost.ours /\ ghost'.gaveUp = ghost.gaveUp
      /\ SameText(ghost, ghost') /\ ghost'.result = result
  BY <1>1 DEF Ghosts, Results, SameText
<1>3. QED
  BY <1>1, <1>2, GoesTo

\* The four batches of a paste, in their order.
LEMMA ScriptOrder ==
  /\ Head(Script) = "gate"
  /\ After("gate") = "ctrl" /\ After("ctrl") = "v" /\ After("v") = "up"
<1>1. Script \in Seq({"gate", "ctrl", "v", "up"}) /\ DOMAIN Script = 1 .. 4
  BY DEF Script
<1>2. Script[1] = "gate" /\ Script[2] = "ctrl" /\ Script[3] = "v" /\ Script[4] = "up"
  BY DEF Script
<1>3. ASSUME NEW k \in 1 .. 4
      PROVE  (CHOOSE i \in DOMAIN Script : Script[i] = Script[k]) = k
  BY <1>1, <1>2
<1>4. QED
  BY <1>1, <1>2, <1>3 DEF After, Script

\* A step of the insert that sends nothing and leaves the windows alone keeps
\* the invariant when it goes to a place where nothing more is claimed, or
\* where what is claimed is shown.
LEMMA QuietLands ==
  ASSUME LandInv, session = "inserting",
         ins' \in Inserts, ins'.pc # "rest", ins'.mode = ins.mode,
         ghost' \in Ghosts, ghost'.start = ghost.start, ghost'.moved = ghost.moved,
         ghost'.ours = ghost.ours, ghost.gaveUp => ghost'.gaveUp,
         UNCHANGED <<front, alive, settings, moves, last, mode, session, hand, sent>>,
         held' \in BOOLEAN, ctrl' \in BOOLEAN, clip' \in {"ours", "empty", "theirs"},
         target' \in Apps \cup {None}, coming' \in Apps \cup {None},
         ins'.pc \in Asking => sent = <<>>,
         ins'.pc \in Pasting => ins'.mode = "paste",
         ins'.pc = "type" => ins'.mode = "typing",
         ins'.pc \in Sending => (front \in Ours => ghost.ours \/ ghost'.gaveUp),
         target' = target \/ (sent = <<>> /\ ins'.pc \in Asking),
         Unmoved =>
           /\ ins'.pc \in {"focus", "note", "activate"} => front = ghost.start /\ coming' = None
           /\ ins'.pc \in {"note", "activate", "poll"} => ghost.start \in Ours
           /\ coming' = None \/ (ghost.start \in Ours /\ coming' = target')
           /\ ins'.pc \in Sending /\ ~ghost'.gaveUp => front = Place
  PROVE  LandInv'
<1>1. WorldType' /\ InsertType'
  BY DEF LandInv, WorldType, InsertType
<1>2. Running'
  BY DEF LandInv, Running, Asking, Pasting
<1>3. Excused'
  BY DEF LandInv, Excused, OursExcused
<1>4. Placed'
  <2>1. Unmoved' = Unmoved
    BY DEF Unmoved
  <2>2. target' = target => Place' = Place
    BY DEF Place
  <2>3. ins'.pc \in Sending => target' = target
    BY DEF Sending, Pasting, Asking
  <2>4. ASSUME Unmoved, ~ghost'.gaveUp
        PROVE  \A i \in DOMAIN sent' : sent'[i].win = Place'
    <3>1. CASE target' = target
      BY <2>2, <2>4, <3>1 DEF LandInv, Placed, InsertType, Ghosts
    <3>2. CASE sent = <<>>
      BY <3>2
    <3>3. QED
      BY <3>1, <3>2
  <2>5. QED
    BY <2>1, <2>2, <2>3, <2>4 DEF LandInv, Placed, Unmoved
<1>5. QED
  BY <1>1, <1>2, <1>3, <1>4 DEF LandInv

\* A keystroke goes to the window in front.
LEMMA SendLands ==
  ASSUME LandInv, ins.pc \in Sending, NEW items, Sends(items),
         IF ins.mode = "paste" THEN items \in {"ours", "empty", "theirs", "key"}
                               ELSE items \in 0 .. Len(Text),
         ins' \in Inserts, ins'.mode = ins.mode,
         ins'.pc \in IF ins.mode = "paste" THEN Pasting ELSE {"type"},
         UNCHANGED <<world, target, last, clip, mode, session, ctrl, hand, ghost>>
  PROVE  LandInv'
<1> DEFINE T   == IF ins.mode = "paste" THEN Chords ELSE Strokes
           new == [win |-> front, items |-> items]
<1>0. /\ session = "inserting" /\ front \in Windows /\ sent \in Seq(T)
      /\ ins.mode \in Modes
  BY DEF LandInv, Running, WorldType, InsertType, Inserts, Sending, Pasting
<1>1. WorldType' /\ InsertType'
  BY DEF world, LandInv, WorldType, InsertType
<1>2. new \in T /\ new.win = front
  BY <1>0 DEF Chords, Strokes
<1>3. /\ sent' = Append(sent, new) /\ sent' \in Seq(T) /\ Len(sent') = Len(sent) + 1
      /\ \A i \in DOMAIN sent' : IF i = Len(sent) + 1 THEN sent'[i] = new
                                 ELSE i \in DOMAIN sent /\ sent'[i] = sent[i]
  <2>1. sent' = Append(sent, new)
    BY DEF Sends
  <2> HIDE DEF T, new
  <2>2. QED
    BY <1>0, <1>2, <2>1
<1>4. \A i \in DOMAIN sent' : sent'[i].win = front \/ (i \in DOMAIN sent /\ sent'[i] = sent[i])
  BY <1>2, <1>3
<1>5. Running'
  <2>1. sent' \in Seq(IF ins'.mode = "paste" THEN Chords ELSE Strokes)
    BY <1>3
  <2>2. session' = "inserting" /\ ins'.pc # "rest" /\ ins'.pc \notin Asking
    BY <1>0 DEF Asking, Pasting
  <2>3. /\ ins'.pc \in Pasting => ins'.mode = "paste"
        /\ ins'.pc = "type" => ins'.mode = "typing"
    BY <1>0 DEF Pasting, Modes
  <2>4. QED
    BY <2>1, <2>2, <2>3 DEF Running
<1>6. Excused'
  <2>1. OursExcused(front) /\ front' = front /\ ghost' = ghost
    BY DEF LandInv, Excused, world
  <2>2. \A i \in DOMAIN sent' : OursExcused(sent'[i].win)
    BY <1>4, <2>1 DEF LandInv, Excused, OursExcused
  <2>3. QED
    BY <2>1, <2>2 DEF Excused, OursExcused
<1>7. Placed'
  <2>1. Unmoved' = Unmoved /\ Place' = Place /\ front' = front /\ coming' = coming
    BY DEF Unmoved, Place, world
  <2>2. Unmoved /\ ~ghost.gaveUp => \A i \in DOMAIN sent' : sent'[i].win = Place
    BY <1>4 DEF LandInv, Placed
  <2>3. ins'.pc \notin Asking
    BY DEF Asking, Pasting
  <2>4. QED
    BY <2>1, <2>2, <2>3 DEF LandInv, Placed, Asking
<1>8. QED
  BY <1>1, <1>5, <1>6, <1>7 DEF LandInv

\* and at every step of an insert.
LEMMA InsertLands ==
  ASSUME LandInv, InsertStep
  PROVE  LandInv'
<1>0. /\ WorldType /\ InsertType /\ ins \in Inserts /\ ghost \in Ghosts
      /\ ins.mode \in Modes /\ front \in Windows /\ ghost.start \in Windows
      /\ held \in BOOLEAN /\ ctrl \in BOOLEAN /\ clip \in {"ours", "empty", "theirs"}
      /\ target \in Apps \cup {None} /\ coming \in Apps \cup {None}
  BY DEF LandInv, WorldType, InsertType, Inserts, Ghosts
<1>1. session = "inserting" <=> ins.pc # "rest"
  BY DEF LandInv, Running
<1>2. ASSUME Focused
      PROVE  /\ ins' \in Inserts /\ ins'.pc \in {"clip", "type"} /\ ins'.mode = ins.mode
             /\ ins'.pc \in Pasting => ins'.mode = "paste"
             /\ ins'.pc = "type" => ins'.mode = "typing"
  <2>1. "clip" \in Places /\ "type" \in Places /\ "type" \notin Pasting
    BY DEF Places, Pasting
  <2>2. QED
    BY <1>0, <1>2, <2>1, GoesTo DEF Focused, Modes
<1>3. CASE Focus
  <2>1. /\ ins.pc = "focus" /\ session = "inserting" /\ sent = <<>>
        /\ UNCHANGED <<front, alive, settings, moves, last, mode, session, hand, coming, held,
                       clip, target, ctrl, sent, ghost>>
    BY <1>1, <1>3 DEF Focus, At, Still, LandInv, Running, Asking
  <2>2. Unmoved => front = ghost.start /\ coming = None
    BY <2>1 DEF LandInv, Placed
  <2>3. CASE front \in Ours
    <3>1. ins' \in Inserts /\ ins'.pc = "note" /\ ins'.mode = ins.mode
      BY <1>0, <1>3, <2>3, GoesTo DEF Focus, Places
    <3>2. QED
      BY <1>0, <2>1, <2>2, <2>3, <3>1, QuietLands DEF Sending, Pasting, Asking
  <2>4. CASE front \notin Ours
    <3>1. Focused
      BY <1>3, <2>4 DEF Focus
    <3>2. Unmoved => front = Place
      BY <1>0, <2>2, <2>4 DEF Place, Windows
    <3>3. ins'.pc \in {"clip", "type"} /\ ins'.pc \notin Asking /\ ins' \in Inserts /\ ins'.mode = ins.mode
      BY <1>2, <3>1 DEF Asking
    <3>4. QED
      BY <1>0, <1>2, <2>1, <2>2, <2>4, <3>1, <3>2, <3>3, QuietLands
  <2>5. QED
    BY <2>3, <2>4
<1>4. CASE Notes
  <2>1. /\ ins.pc = "note" /\ session = "inserting" /\ sent = <<>> /\ target' = Noted
        /\ UNCHANGED <<front, alive, settings, moves, last, mode, session, hand, coming, held,
                       clip, ctrl, sent, ghost>>
    BY <1>1, <1>4 DEF Notes, At, Still, LandInv, Running, Asking
  <2>2. target' \in Apps \cup {None}
    BY <1>0, <2>1, NotedType
  <2>3. Unmoved => front = ghost.start /\ coming = None /\ ghost.start \in Ours
    BY <2>1 DEF LandInv, Placed
  <2>4. ins' \in Inserts /\ ins'.pc = "activate" /\ ins'.mode = ins.mode
    BY <1>0, <1>4, GoesTo DEF Notes, Places
  <2>5. QED
    BY <1>0, <2>1, <2>2, <2>3, <2>4, QuietLands DEF Sending, Pasting, Asking
<1>5. CASE Activate
  <2>1. /\ ins.pc = "activate" /\ session = "inserting" /\ sent = <<>>
        /\ UNCHANGED <<front, alive, settings, moves, last, mode, session, hand, held,
                       clip, target, ctrl, sent>>
    BY <1>1, <1>5 DEF Activate, At, Still, LandInv, Running, Asking
  <2>2. PICK asked \in BOOLEAN :
          /\ Activates(asked)
          /\ IF asked THEN Goes("poll") /\ UNCHANGED ghost ELSE Ends("err")
    BY <1>5 DEF Activate
  <2>3. coming' \in Apps \cup {None} /\ (coming' = coming \/ coming' = target)
    BY <1>0, <2>2, AsksTarget
  <2>4. Unmoved => coming = None /\ ghost.start \in Ours
    BY <2>1 DEF LandInv, Placed
  <2>5. CASE asked
    <3>1. ins' \in Inserts /\ ins'.pc = "poll" /\ ins'.mode = ins.mode /\ ghost' = ghost
      BY <1>0, <2>2, <2>5, GoesTo DEF Places
    <3>2. QED
      BY <1>0, <2>1, <2>3, <2>4, <3>1, QuietLands DEF Sending, Pasting, Asking
  <2>6. CASE ~asked
    <3>1. Ends("err")
      BY <2>2, <2>6
    <3>2. /\ ins' \in Inserts /\ ins'.pc = "end" /\ ins'.mode = ins.mode /\ ghost' \in Ghosts
          /\ ghost'.start = ghost.start /\ ghost'.moved = ghost.moved
          /\ ghost'.ours = ghost.ours /\ ghost'.gaveUp = ghost.gaveUp
      BY <1>0, <3>1, EndsWith
    <3>3. QED
      BY <1>0, <2>1, <2>3, <2>4, <3>2, QuietLands DEF Sending, Pasting, Asking
  <2>7. QED
    BY <2>5, <2>6
<1>6. CASE Poll
  <2>1. /\ ins.pc = "poll" /\ session = "inserting" /\ sent = <<>>
        /\ UNCHANGED <<front, alive, settings, moves, last, mode, session, hand, coming, held,
                       clip, target, ctrl, sent>>
    BY <1>1, <1>6 DEF Poll, At, Still, LandInv, Running, Asking
  <2>2. Unmoved => ghost.start \in Ours /\ Place = target /\ (coming = None \/ coming = target)
    BY <2>1, OursApart DEF LandInv, Placed, Place
  <2>3. CASE front = target /\ Focused /\ ghost' = ghost
    <3>1. Focused /\ ghost' = ghost
      BY <2>3
    <3>2. front \notin Ours
      BY <1>0, <2>3, OursApart
    <3>3. ins'.pc \in {"clip", "type"} /\ ins'.pc \notin Asking /\ ins' \in Inserts /\ ins'.mode = ins.mode
      BY <1>2, <3>1 DEF Asking
    <3>4. QED
      BY <1>0, <1>2, <2>1, <2>2, <2>3, <3>1, <3>2, <3>3, QuietLands
  <2>4. CASE Again /\ ghost' = ghost
    <3>1. ins' \in Inserts /\ ins'.pc = "poll" /\ ins'.mode = ins.mode
      BY <1>0, <2>1, <2>4, LooksAgain
    <3>2. QED
      BY <1>0, <2>1, <2>2, <2>4, <3>1, QuietLands DEF Sending, Pasting, Asking
  <2>5. CASE Focused /\ ghost' = [ghost EXCEPT !.gaveUp = TRUE]
    <3>1. Focused /\ ghost' = [ghost EXCEPT !.gaveUp = TRUE]
      BY <2>5
    <3>2. /\ ghost' \in Ghosts /\ ghost'.start = ghost.start /\ ghost'.moved = ghost.moved
          /\ ghost'.ours = ghost.ours /\ ghost'.gaveUp
      BY <1>0, <3>1 DEF Ghosts
    <3>3. ins'.pc \in {"clip", "type"} /\ ins'.pc \notin Asking /\ ins' \in Inserts /\ ins'.mode = ins.mode
      BY <1>2, <3>1 DEF Asking
    <3>4. QED
      BY <1>0, <1>2, <2>1, <2>2, <3>1, <3>2, <3>3, QuietLands
  <2>6. QED
    BY <1>6, <2>3, <2>4, <2>5 DEF Poll
<1>7. ASSUME ins.pc \in Pasting \cup {"type"}, ghost' \in Ghosts, ghost'.start = ghost.start,
             ghost'.moved = ghost.moved, ghost'.ours = ghost.ours,
             ghost'.gaveUp = ghost.gaveUp, ins' \in Inserts, ins'.mode = ins.mode,
             ins'.pc = "end" \/ ins'.pc = ins.pc \/ (ins.pc \in Pasting /\ ins'.pc \in Pasting),
             held' \in BOOLEAN, ctrl' \in BOOLEAN, clip' \in {"ours", "empty", "theirs"},
             UNCHANGED <<front, alive, settings, moves, last, mode, session, hand, coming,
                         target, sent>>
      PROVE  LandInv'
  <2>1. session = "inserting" /\ ins'.pc \notin Asking /\ ins'.pc # "rest"
    BY <1>1, <1>7 DEF Pasting, Asking
  <2>2. (front \in Ours => ghost.ours \/ ghost.gaveUp)
    BY <1>7 DEF LandInv, Excused, OursExcused, Sending
  <2>3. /\ ins'.pc \in Pasting => ins'.mode = "paste"
        /\ ins'.pc = "type" => ins'.mode = "typing"
    BY <1>7 DEF LandInv, Running, Pasting
  <2>4. Unmoved => /\ coming = None \/ (ghost.start \in Ours /\ coming = target)
                   /\ ~ghost.gaveUp => front = Place
    BY <1>7 DEF LandInv, Placed, Sending
  <2>5. QED
    BY <1>0, <1>7, <2>1, <2>2, <2>3, <2>4, QuietLands DEF Asking
<1>8. ASSUME NEW result \in {"ok", "err"}, Ends(result)
      PROVE  /\ ghost' \in Ghosts /\ ghost'.start = ghost.start
             /\ ghost'.moved = ghost.moved /\ ghost'.ours = ghost.ours
             /\ ghost'.gaveUp = ghost.gaveUp /\ ins' \in Inserts /\ ins'.mode = ins.mode
             /\ ins'.pc = "end"
  BY <1>0, <1>8, EndsWith
<1>9. ASSUME NEW pc \in Pasting, Goes(pc)
      PROVE  ins' \in Inserts /\ ins'.mode = ins.mode /\ ins'.pc = pc
  BY <1>0, <1>9, GoesTo DEF Pasting, Places
<1>10. CASE SetsClipboard
  <2>1. /\ ins.pc = "clip" /\ clip' \in {"ours", "empty", "theirs"}
        /\ UNCHANGED <<front, alive, settings, moves, last, mode, session, hand, coming, held,
                       target, ctrl, sent>>
    BY <1>0, <1>10 DEF SetsClipboard, Clipboard, At, Still
  <2>2. \/ Goes("gate") /\ ghost' = [ghost EXCEPT !.copied = FALSE]
        \/ Ends("err")
        \/ Again /\ ghost' = ghost
    BY <1>10, ScriptOrder DEF SetsClipboard
  <2>0. "gate" \in Pasting /\ "clip" \in Pasting
    BY DEF Pasting
  <2>3. CASE Goes("gate") /\ ghost' = [ghost EXCEPT !.copied = FALSE]
    <3>1. ghost' \in Ghosts /\ SameCourse(ghost, ghost')
      BY <1>0, <2>3, GhostNotes
    <3>2. QED
      BY <1>0, <1>7, <1>9, <2>0, <2>1, <2>3, <3>1 DEF SameCourse
  <2>4. CASE Ends("err")
    BY <1>0, <1>7, <1>8, <2>0, <2>1, <2>4
  <2>5. CASE Again /\ ghost' = ghost
    <3>1. ins' \in Inserts /\ ins'.pc = ins.pc /\ ins'.mode = ins.mode
      BY <1>0, <2>5, LooksAgain
    <3>2. QED
      BY <1>0, <1>7, <2>0, <2>1, <2>5, <3>1
  <2>6. QED
    BY <2>2, <2>3, <2>4, <2>5
<1>11. CASE Gate
  <2>1. /\ ins.pc = "gate"
        /\ UNCHANGED <<front, alive, settings, moves, last, mode, session, hand, coming, clip,
                       target, sent>>
    BY <1>11 DEF Gate, At, Still
  <2>2. "gate" \in Pasting /\ "ctrl" \in Pasting
    BY DEF Pasting
  <2>3. ASSUME NEW flushed, Passes(flushed)
        PROVE  LandInv'
    <3>1. Goes("ctrl") /\ held' \in BOOLEAN /\ ctrl' \in BOOLEAN /\ ghost' = [ghost EXCEPT !.keys = held']
      BY <1>0, <2>3, ScriptOrder DEF Passes
    <3>2. ghost' \in Ghosts /\ SameCourse(ghost, ghost')
      BY <1>0, <3>1, GhostNotes
    <3>3. QED
      BY <1>0, <1>7, <1>9, <2>1, <2>2, <3>1, <3>2 DEF SameCourse
  <2>4. CASE Again /\ UNCHANGED <<held, ctrl, ghost>>
    <3>1. ins' \in Inserts /\ ins'.pc = ins.pc /\ ins'.mode = ins.mode
      BY <1>0, <2>4, LooksAgain
    <3>2. QED
      BY <1>0, <1>7, <2>1, <2>2, <2>4, <3>1
  <2>5. CASE Passes(FALSE)
    BY <2>3, <2>5
  <2>6. CASE Passes(Reaches)
    BY <2>3, <2>6
  <2>7. QED
    BY <1>11, <2>4, <2>5, <2>6 DEF Gate
<1>12. CASE CtrlDown
  <2>1. /\ ins.pc = "ctrl" /\ ctrl' \in BOOLEAN
        /\ (Goes("v") /\ ghost' = ghost) \/ Ends("err")
        /\ UNCHANGED <<front, alive, settings, moves, last, mode, session, hand, coming, held,
                       clip, target, sent>>
    BY <1>0, <1>12, ScriptOrder DEF CtrlDown, At, Still
  <2>2. "v" \in Pasting /\ "ctrl" \in Pasting
    BY DEF Pasting
  <2>3. QED
    BY <1>0, <1>7, <1>8, <1>9, <2>1, <2>2
<1>13. CASE Pastes
  <2>1. /\ ins.pc = "v" /\ session = "inserting" /\ ins.mode = "paste"
        /\ UNCHANGED <<front, alive, settings, moves, last, mode, session, hand, coming, held,
                       clip, target, ctrl>>
    BY <1>1, <1>13 DEF Pastes, At, Still, LandInv, Running, Pasting
  <2>2. "v" \in Pasting /\ "up" \in Pasting /\ "v" \in Sending
    BY DEF Pasting, Sending
  <2>3. CASE Reaches
    <3>1. Sends(Chord) /\ Goes("up") /\ ghost' = ghost
      BY <1>13, <2>3, ScriptOrder DEF Pastes
    <3>2. Chord \in {"ours", "empty", "theirs", "key"}
      BY <1>0 DEF Chord
    <3>3. QED
      BY <1>9, <2>1, <2>2, <3>1, <3>2, SendLands DEF world
  <2>4. CASE ~Reaches
    <3>1. sent' = sent /\ Ends("err")
      BY <1>13, <2>4 DEF Pastes
    <3>2. QED
      BY <1>0, <1>7, <1>8, <2>1, <2>2, <3>1
  <2>5. QED
    BY <2>3, <2>4
<1>14. CASE CtrlUp
  <2>1. /\ ins.pc = "up" /\ ctrl' \in BOOLEAN /\ (Ends("ok") \/ Ends("err"))
        /\ UNCHANGED <<front, alive, settings, moves, last, mode, session, hand, coming, held,
                       clip, target, sent>>
    BY <1>0, <1>14 DEF CtrlUp, At, Still
  <2>2. "up" \in Pasting
    BY DEF Pasting
  <2>3. QED
    BY <1>0, <1>7, <1>8, <2>1, <2>2
<1>15. CASE Types
  <2>1. /\ ins.pc = "type" /\ session = "inserting" /\ ins.mode = "typing"
        /\ UNCHANGED <<front, alive, settings, moves, last, mode, session, hand, coming, held,
                       clip, target, ctrl>>
    BY <1>1, <1>15 DEF Types, At, Still, LandInv, Running
  <2>2. CASE /\ ins.at <= Len(Text)
             /\ ins' = [ins EXCEPT !.at = ins.at + 1] /\ ghost' = ghost
             /\ sent' = sent \/ Sends(Stroke(ins.at))
    <3>1. ins.at + 1 \in 1 .. Len(Text) + 1 /\ ins.at \in 0 .. Len(Text)
      <4>1. ins.at \in 1 .. Len(Text) + 1 /\ Len(Text) \in Nat
        BY <1>0, InsertionAssumption DEF Inserts
      <4>2. QED
        BY <2>2, <4>1
    <3>2. ins' \in Inserts /\ ins'.pc = "type" /\ ins'.mode = ins.mode
      BY <1>0, <2>1, <2>2, <3>1 DEF Inserts
    <3>3. Stroke(ins.at) \in 0 .. Len(Text)
      <4>1. Len(Text) \in Nat
        BY InsertionAssumption
      <4>2. QED
        BY <3>1, <4>1 DEF Stroke
    <3>4. CASE sent' = sent
      BY <1>0, <1>7, <2>1, <2>2, <3>2, <3>4
    <3>5. CASE Sends(Stroke(ins.at))
      <4>1. "type" \in Sending
        BY DEF Sending
      <4>2. QED
        BY <2>1, <2>2, <3>2, <3>3, <3>5, <4>1, SendLands DEF world
    <3>6. QED
      BY <2>2, <3>4, <3>5
  <2>3. CASE sent' = sent /\ (Ends("ok") \/ Ends("err"))
    BY <1>0, <1>7, <1>8, <2>1, <2>3
  <2>4. QED
    BY <1>15, <2>2, <2>3 DEF Types
<1>16. CASE Answers
  <2>1. /\ ins.pc = "end" /\ session' \in {"idle", "preview"} /\ sent' = <<>> /\ Goes("rest")
        /\ ghost' = NoGhost
        /\ UNCHANGED <<world, target, last, clip, mode, ctrl, hand>>
    BY <1>16 DEF Answers, At, notes
  <2>2. ins' \in Inserts /\ ins'.pc = "rest"
    BY <1>0, <2>1, GoesTo DEF Places
  <2>3. ghost' \in Ghosts
    BY <2>1 DEF NoGhost, NewGhost, Ghosts, Results, Windows
  <2>4. WorldType' /\ InsertType'
    BY <1>0, <2>1, <2>2, <2>3 DEF world, WorldType, InsertType
  <2>5. Running' /\ Excused' /\ Placed'
    BY <2>1, <2>2 DEF Running, Excused, Placed, Unmoved, Pasting, Sending
  <2>6. QED
    BY <2>4, <2>5 DEF LandInv
<1>17. QED
  BY <1>3, <1>4, <1>5, <1>6, <1>10, <1>11, <1>12, <1>13, <1>14, <1>15, <1>16 DEF InsertStep

-----------------------------------------------------------------------------
\* It holds at first.
LEMMA InitLands == Init => LandInv
<1> SUFFICES ASSUME Init
             PROVE  LandInv
  OBVIOUS
<1>1. /\ front \in Apps /\ coming = None /\ alive = Apps /\ settings = FALSE /\ held = FALSE
      /\ clip = "theirs" /\ target = None /\ last = None /\ mode \in {"paste", "typing"}
      /\ session = "idle" /\ ctrl = FALSE /\ hand = FALSE /\ sent = <<>> /\ moves = 0
      /\ ins = [pc |-> "rest", mode |-> mode, polls |-> 0, at |-> 1] /\ ghost = NoGhost
  BY DEF Init
<1>2. 0 \in Nat /\ 0 \in 0 .. MaxMoves /\ 1 \in 1 .. Len(Text) + 1
  <2>1. MaxMoves \in Nat /\ Len(Text) \in Nat
    BY InsertionAssumption
  <2>2. QED
    BY <2>1
<1>3. ins \in Inserts /\ ins.pc = "rest" /\ ghost \in Ghosts
  BY <1>1, <1>2 DEF Inserts, Places, Modes, Ghosts, Results, NoGhost, NewGhost, Windows
<1>4. WorldType /\ InsertType
  BY <1>1, <1>2, <1>3 DEF WorldType, InsertType, Windows, Modes
<1>5. Running /\ Excused /\ Placed
  BY <1>1, <1>3 DEF Running, Excused, Placed, Unmoved, Sending, Pasting
<1>6. QED
  BY <1>4, <1>5 DEF LandInv

\* While nobody else moves anything, every keystroke of an insert goes to the
\* window the user was in at the confirm, and only otherwise to the noted
\* target; a window of ours takes one only when the user has put it in front
\* or the polls have given up (TargetInserter::insert, focus_somewhere and
\* await_focus_handed_over, under every order of the user's, the programs' and
\* the window manager's steps).
THEOREM LandsThere == Spec => []LandsWhereTheUserIs
<1>1. LandInv /\ [Next]_vars => LandInv'
  <2> SUFFICES ASSUME LandInv, [Next]_vars
               PROVE  LandInv'
    OBVIOUS
  <2>1. CASE UNCHANGED vars
    BY <2>1
    DEF vars, world, notes, LandInv, WorldType, InsertType, Running, Excused, OursExcused,
        Placed, Unmoved, Place
  <2>2. QED
    BY <2>1, InsertLands, WorldLands, SessionLands DEF Next
<1>2. LandInv => LandsWhereTheUserIs
  <2> SUFFICES ASSUME LandInv
               PROVE  LandsWhereTheUserIs
    OBVIOUS
  <2>1. DOMAIN sent # {} => session = "inserting"
    BY DEF LandInv, Running, Asking
  <2>2. QED
    BY <2>1 DEF LandInv, Excused, OursExcused, Placed, Unmoved, Place, LandsWhereTheUserIs
<1>3. QED
  BY InitLands, <1>1, <1>2, PTL DEF Spec

-----------------------------------------------------------------------------
(* What an insert sends *)

\* What may arrive for a chord, and for the keystroke of a character.
ChordArrives(items) ==
  \/ items = "ours"
  \/ items = "theirs" /\ ghost.copied
  \/ items = "key" /\ ghost.keys

StrokeArrives(k, items) ==
  \/ items = k
  \/ Text[k] = "newline" /\ (ghost.keys \/ ghost.stuck) /\ items = 0

\* A paste has sent nothing before its chord and one chord after it, which
\* finds the clipboard as the insert has left it and its Ctrl down, unless
\* somebody else's doing is on record; typing has sent the keystrokes of the
\* characters it has passed, each at its place.
PasteInv ==
  /\ ins.pc \in Pasting \ {"up"} => sent = <<>>
  /\ ins.pc = "up" \/ ghost.result = "ok" => Len(sent) = 1
  /\ Len(sent) <= 1
  /\ ins.pc \in {"gate", "ctrl", "v"} => clip = "ours" \/ (clip = "theirs" /\ ghost.copied)
  /\ ins.pc = "v" /\ ~ctrl => ghost.keys
  /\ \A i \in DOMAIN sent : ChordArrives(sent[i].items)

TypeInv ==
  /\ ctrl => ghost.stuck
  /\ ins.pc \in Asking => ins.at = 1
  /\ Len(sent) = Keys(ins.at - 1)
  /\ \A k \in 1 .. ins.at - 1 :
       Text[k] # "return" => StrokeArrives(k, sent[Keys(k)].items)
  /\ ghost.result = "ok" => ins.at = Len(Text) + 1

SendInv ==
  session = "inserting" =>
    /\ held => ghost.keys
    /\ ins.pc # "end" => ghost.result = "none"
    /\ ins.mode = "paste" => PasteInv
    /\ ins.mode = "typing" => TypeInv

\* The keystrokes of a longer part of the text are as many, and more when its
\* last character takes one.
LEMMA KeysGrow ==
  ASSUME NEW k \in 0 .. Len(Text), NEW m \in 0 .. k
  PROVE  /\ Keys(m) \in Nat /\ Keys(k) \in Nat /\ Keys(m) <= Keys(k)
         /\ m < k /\ Text[k] # "return" => Keys(m) < Keys(k)
<1> DEFINE S(n) == {i \in 1 .. n : Text[i] # "return"}
<1>0. k \in Nat /\ m \in Nat /\ m <= k
  BY InsertionAssumption
<1>1. IsFiniteSet(S(k)) /\ S(m) \subseteq S(k) /\ IsFiniteSet(S(m))
  <2>1. IsFiniteSet(1 .. k) /\ S(k) \subseteq 1 .. k
    BY <1>0, FS_Interval
  <2>2. S(m) \subseteq S(k)
    BY <1>0
  <2>3. QED
    BY <2>1, <2>2, FS_Subset
<1>2. /\ Cardinality(S(m)) \in Nat /\ Cardinality(S(k)) \in Nat
      /\ Cardinality(S(m)) <= Cardinality(S(k))
  BY <1>1, FS_Subset, FS_CardinalityType
<1>3. ASSUME m < k, Text[k] # "return"
      PROVE  Cardinality(S(m)) < Cardinality(S(k))
  <2>1. k \in S(k) /\ k \notin S(m)
    BY <1>0, <1>3
  <2>2. Cardinality(S(k)) = Cardinality(S(m)) => S(k) = S(m)
    BY <1>1, FS_Subset
  <2> HIDE DEF S
  <2>3. QED
    BY <1>2, <2>1, <2>2
<1>4. QED
  BY <1>2, <1>3 DEF Keys

\* A character is a key of its own, a line break none.
LEMMA KeysStep ==
  ASSUME NEW k \in 1 .. Len(Text)
  PROVE  Keys(k) = IF Text[k] = "return" THEN Keys(k - 1) ELSE Keys(k - 1) + 1
<1> DEFINE S(n) == {i \in 1 .. n : Text[i] # "return"}
<1>0. k \in Nat /\ k - 1 \in Nat /\ k \in 1 .. k
  BY InsertionAssumption
<1>1. IsFiniteSet(S(k - 1)) /\ k \notin S(k - 1)
  <2>1. IsFiniteSet(1 .. k - 1) /\ S(k - 1) \subseteq 1 .. k - 1
    BY <1>0, FS_Interval
  <2>2. QED
    BY <1>0, <2>1, FS_Subset
<1>2. CASE Text[k] = "return"
  <2>1. S(k) = S(k - 1)
    BY <1>0, <1>2
  <2>2. QED
    BY <1>2, <2>1 DEF Keys
<1>3. CASE Text[k] # "return"
  <2>1. S(k) = S(k - 1) \cup {k}
    BY <1>0, <1>3
  <2>2. Cardinality(S(k)) = Cardinality(S(k - 1)) + 1
    BY <1>1, <2>1, FS_AddElement
  <2>3. QED
    BY <1>3, <2>2 DEF Keys
<1>4. QED
  BY <1>2, <1>3

\* Nothing typed is no key.
LEMMA NoKeys == Keys(0) = 0
<1>1. {i \in 1 .. 0 : Text[i] # "return"} = {}
  OBVIOUS
<1>2. QED
  BY <1>1, FS_EmptySet DEF Keys

\* Whoever acts meanwhile may disturb what the rest of the insert sends, and is
\* then on record, but not what it has sent.
LEMMA OutsideSends ==
  ASSUME LandInv, SendInv, UNCHANGED <<session, ins, sent>>,
         ghost'.result = ghost.result, ghost'.stuck = ghost.stuck,
         ghost.keys => ghost'.keys, ghost.copied => ghost'.copied,
         held' => held \/ ghost'.keys,
         ctrl' = ctrl \/ (ctrl' = FALSE /\ (session = "inserting" => ghost'.keys)),
         clip' = clip \/ (clip' = "theirs" /\ ghost'.copied)
  PROVE  SendInv'
<1> SUFFICES ASSUME session = "inserting"
             PROVE  SendInv'
  BY DEF SendInv
<1>3. PasteInv => PasteInv'
  <2> SUFFICES ASSUME PasteInv
               PROVE  PasteInv'
    OBVIOUS
  <2>1. (\A i \in DOMAIN sent : ChordArrives(sent[i].items))'
    BY DEF PasteInv, ChordArrives
  <2>2. ins'.pc = "v" /\ ~ctrl' => ghost'.keys
    BY DEF PasteInv
  <2>3. QED
    BY <2>1, <2>2 DEF PasteInv
<1>4. TypeInv => TypeInv'
  <2> SUFFICES ASSUME TypeInv
               PROVE  TypeInv'
    OBVIOUS
  <2>1. (\A k \in 1 .. ins.at - 1 :
           Text[k] # "return" => StrokeArrives(k, sent[Keys(k)].items))'
    BY DEF TypeInv, StrokeArrives
  <2>2. ctrl' => ghost'.stuck
    BY DEF TypeInv
  <2>3. QED
    BY <2>1, <2>2 DEF TypeInv
<1>5. QED
  BY <1>3, <1>4 DEF SendInv

\* The desktop sends nothing in the program's place.
LEMMA WorldSends ==
  ASSUME LandInv, SendInv, World
  PROVE  SendInv'
<1>0. ghost \in Ghosts /\ held \in BOOLEAN /\ ctrl \in BOOLEAN
  BY DEF LandInv, WorldType, InsertType
<1>1. ASSUME NEW own \in BOOLEAN, Moved(own), UNCHANGED <<held, clip>>
      PROVE  SendInv'
  <2>1. ghost' = [ghost EXCEPT !.moved = TRUE, !.ours = @ \/ own]
    BY <1>1 DEF Moved
  <2>2. SameText(ghost, ghost') /\ ghost'.result = ghost.result
    BY <1>0, <2>1, GhostMoves
  <2>3. UNCHANGED <<session, ins, ctrl, sent>>
    BY <1>1 DEF Moved, Acts
  <2>4. QED
    BY <1>1, <2>2, <2>3, OutsideSends DEF SameText
<1>3. ASSUME NEW w \in Apps \cup Ours \cup {None}, Focuses(w)
      PROVE  SendInv'
  <2>1. (w \in Ours) \in BOOLEAN /\ Moved(w \in Ours) /\ UNCHANGED <<held, clip>>
    BY <1>3 DEF Focuses
  <2>2. QED
    BY <1>1, <2>1
<1>4. ASSUME NEW a \in Apps, ClosesApp(a)
      PROVE  SendInv'
  BY <1>1, <1>4 DEF ClosesApp
<1>5. CASE ClosesSettings
  BY <1>1, <1>5 DEF ClosesSettings
<1>6. CASE PressesModifiers \/ OthersCopy
  <2>1. UNCHANGED <<session, ins, ctrl, sent>>
    BY <1>6 DEF PressesModifiers, OthersCopy, Acts
  <2>2. CASE PressesModifiers
    <3>1. ghost' = [ghost EXCEPT !.keys = TRUE] /\ clip' = clip
      BY <2>2 DEF PressesModifiers
    <3>2. ghost'.keys = TRUE /\ ghost'.copied = ghost.copied /\ ghost'.stuck = ghost.stuck
          /\ ghost'.result = ghost.result
      BY <1>0, <3>1 DEF Ghosts
    <3>3. QED
      BY <2>1, <3>1, <3>2, OutsideSends
  <2>3. CASE OthersCopy
    <3>1. ghost' = [ghost EXCEPT !.copied = TRUE] /\ clip' = "theirs" /\ held' = held
      BY <2>3 DEF OthersCopy
    <3>2. ghost'.copied = TRUE /\ ghost'.keys = ghost.keys /\ ghost'.stuck = ghost.stuck
          /\ ghost'.result = ghost.result
      BY <1>0, <3>1 DEF Ghosts
    <3>3. QED
      BY <2>1, <3>1, <3>2, OutsideSends
  <2>4. QED
    BY <1>6, <2>2, <2>3
<1>7. CASE ReleasesModifiers
  <2>1. held /\ held' = FALSE /\ ctrl' \in {ctrl, FALSE}
    BY <1>7 DEF ReleasesModifiers
  <2>2. UNCHANGED <<session, ins, sent, ghost, clip>>
    BY <1>7 DEF ReleasesModifiers
  <2>3. session = "inserting" => ghost'.keys
    BY <2>1, <2>2 DEF SendInv
  <2>4. QED
    BY <2>1, <2>2, <2>3, OutsideSends
<1>8. CASE SwitchLands \/ Tracks \/ SetsConfig
  <2>1. UNCHANGED <<session, ins, ctrl, sent, ghost, clip, held>>
    BY <1>8 DEF SwitchLands, Tracks, SetsConfig, world, notes
  <2>2. QED
    BY <2>1, OutsideSends
<1>9. QED
  BY <1>3, <1>4, <1>5, <1>6, <1>7, <1>8 DEF World

\* A session that starts or ends sends nothing.
LEMMA SessionSends ==
  ASSUME LandInv, SendInv, Session
  PROVE  SendInv'
<1>0. ghost \in Ghosts /\ (session = "inserting" <=> ins.pc # "rest")
  BY DEF LandInv, InsertType, Running
<1>1. CASE Starts \/ PanelCloses
  <2>1. /\ ghost' = [ghost EXCEPT !.moved = TRUE] /\ UNCHANGED <<ins, ctrl, sent>>
        /\ session' = session \/ (session = "idle" /\ session' = "preview")
    BY <1>1 DEF Starts, PanelCloses
  <2>2. SameText(ghost, ghost') /\ ghost'.result = ghost.result
    BY <1>0, <2>1 DEF Ghosts, SameText
  <2>3. CASE session' = session
    <3>1. UNCHANGED <<held, clip>>
      BY <1>1 DEF Starts, PanelCloses, world
    <3>2. QED
      BY <2>1, <2>2, <2>3, <3>1, OutsideSends DEF SameText
  <2>4. CASE session' = "preview"
    BY <2>4 DEF SendInv
  <2>5. QED
    BY <2>1, <2>3, <2>4
<1>2. CASE Cancels
  BY <1>2 DEF Cancels, SendInv
<1>3. CASE Restores
  BY <1>3, OutsideSends DEF Restores
<1>4. ASSUME NEW empty \in BOOLEAN, Confirms(empty)
      PROVE  SendInv'
  <2> DEFINE moved  == hand \/ coming # None
             result == IF empty THEN "nothing" ELSE "none"
  <2>1. /\ sent' = <<>> /\ UNCHANGED <<world, ctrl>>
        /\ ins' = [pc |-> IF empty THEN "end" ELSE "focus", mode |-> mode, polls |-> 0, at |-> 1]
        /\ ghost' = NewGhost(front, moved, held, ctrl, result)
    BY <1>4 DEF Confirms
  <2>2. /\ moved \in BOOLEAN /\ result \in Results /\ front \in Windows
        /\ held \in BOOLEAN /\ ctrl \in BOOLEAN
    BY DEF LandInv, WorldType, InsertType, Results
  <2>3. ghost'.keys = held /\ ghost'.stuck = ctrl /\ ghost'.result = result
    <3> HIDE DEF moved, result
    <3>1. QED
      BY <2>1, <2>2, ConfirmGhost
  <2>4. /\ held' => ghost'.keys
        /\ ctrl' => ghost'.stuck
        /\ ghost'.result # "ok" /\ (ins'.pc # "end" => ghost'.result = "none")
    BY <2>1, <2>3 DEF world
  <2>5. ins'.at = 1 /\ ins'.pc \in {"end", "focus"}
    BY <2>1
  <2>6. Len(sent') = 0 /\ Keys(ins'.at - 1) = 0 /\ 1 .. ins'.at - 1 = {} /\ DOMAIN sent' = {}
    BY <2>1, <2>5, NoKeys
  <2>7. PasteInv'
    BY <2>1, <2>4, <2>5, <2>6 DEF PasteInv
  <2>8. TypeInv'
    BY <2>4, <2>5, <2>6 DEF TypeInv
  <2>9. QED
    BY <2>4, <2>7, <2>8 DEF SendInv
<1>5. QED
  BY <1>1, <1>2, <1>3, <1>4 DEF Session

\* A step of the insert that sends nothing.
LEMMA QuietSends ==
  ASSUME LandInv, SendInv, session = "inserting", UNCHANGED <<session, sent>>,
         ins'.mode = ins.mode, ins'.at = ins.at, ghost'.stuck = ghost.stuck,
         held' => ghost'.keys,
         ins'.pc # "end" => ghost'.result = "none",
         ins.mode = "paste" =>
           /\ ins'.pc \in Pasting \ {"up"} => sent = <<>>
           /\ ins'.pc = "up" \/ ghost'.result = "ok" => Len(sent) = 1
           /\ ins'.pc \in {"gate", "ctrl", "v"} =>
                clip' = "ours" \/ (clip' = "theirs" /\ ghost'.copied)
           /\ ins'.pc = "v" /\ ~ctrl' => ghost'.keys
           /\ sent = <<>> \/ SameText(ghost, ghost'),
         ins.mode = "typing" =>
           /\ (ctrl' => ctrl) /\ SameText(ghost, ghost')
           /\ ins'.pc \in Asking => ins.pc \in Asking
           /\ ghost'.result = "ok" => ins.at = Len(Text) + 1
  PROVE  SendInv'
<1>1. ins.mode = "paste" => PasteInv'
  <2> SUFFICES ASSUME ins.mode = "paste"
               PROVE  PasteInv'
    OBVIOUS
  <2>1. PasteInv
    BY DEF SendInv
  <2>2. (\A i \in DOMAIN sent : ChordArrives(sent[i].items))'
    <3>1. CASE sent = <<>>
      BY <3>1
    <3>2. CASE SameText(ghost, ghost')
      BY <2>1, <3>2 DEF PasteInv, ChordArrives, SameText
    <3>3. QED
      BY <3>1, <3>2
  <2>3. QED
    BY <2>1, <2>2 DEF PasteInv
<1>2. ins.mode = "typing" => TypeInv'
  <2> SUFFICES ASSUME ins.mode = "typing"
               PROVE  TypeInv'
    OBVIOUS
  <2>1. TypeInv
    BY DEF SendInv
  <2>2. (\A k \in 1 .. ins.at - 1 :
           Text[k] # "return" => StrokeArrives(k, sent[Keys(k)].items))'
    BY <2>1 DEF TypeInv, StrokeArrives, SameText
  <2>3. QED
    BY <2>1, <2>2 DEF TypeInv
<1>3. QED
  BY <1>1, <1>2 DEF SendInv

\* Every step of an insert sends the next piece of the text or none.
LEMMA InsertSends ==
  ASSUME LandInv, SendInv, InsertStep
  PROVE  SendInv'
<1>0. /\ ins \in Inserts /\ ghost \in Ghosts /\ ins.mode \in Modes
      /\ sent \in Seq(IF ins.mode = "paste" THEN Chords ELSE Strokes)
      /\ session = "inserting" <=> ins.pc # "rest"
      /\ ins.pc \in Asking => sent = <<>>
      /\ ins.pc \in Pasting => ins.mode = "paste"
      /\ ins.pc = "type" => ins.mode = "typing"
  BY DEF LandInv, InsertType, Running, Inserts
<1>1. session = "inserting" =>
        /\ ins.pc # "end" => ghost.result = "none"
        /\ held => ghost.keys
  BY DEF SendInv
<1>2. ASSUME NEW pc \in Places, Goes(pc)
      PROVE  ins'.pc = pc /\ ins'.mode = ins.mode /\ ins'.at = ins.at
  BY <1>0, <1>2, GoesTo
<1>3. ASSUME NEW result \in {"ok", "err"}, Ends(result)
      PROVE  /\ ins'.pc = "end" /\ ins'.mode = ins.mode /\ ins'.at = ins.at
             /\ SameText(ghost, ghost') /\ ghost'.result = result
  BY <1>0, <1>3, EndsWith
<1>10. SameText(ghost, ghost)
  BY DEF SameText
<1>4. CASE Focus \/ Notes \/ Activate \/ Poll
  <2>1. /\ ins.pc \in Asking /\ UNCHANGED <<session, sent, held, ctrl>>
    BY <1>4 DEF Focus, Notes, Activate, Poll, At, Still, Asking
  <2>2. sent = <<>> /\ session = "inserting" /\ ghost.result = "none" /\ (held => ghost.keys)
    BY <1>0, <1>1, <2>1 DEF Asking
  <2>3. "clip" \in Places /\ "type" \in Places /\ "note" \in Places /\ "activate" \in Places
        /\ "poll" \in Places
    BY DEF Places
  <2>4. /\ ins'.mode = ins.mode /\ ins'.at = ins.at /\ SameText(ghost, ghost')
        /\ ins'.pc \in {"note", "activate", "poll", "clip", "type", "end"}
        /\ ghost'.result = IF ins'.pc = "end" THEN "err" ELSE "none"
    <3>1. CASE Focus \/ Notes
      BY <1>2, <1>10, <2>2, <2>3, <3>1 DEF Focus, Notes, Focused
    <3>2. CASE Activate
      BY <1>2, <1>3, <1>10, <2>2, <2>3, <3>2 DEF Activate
    <3>3. CASE Poll
      <4>1. CASE Focused /\ ghost' = ghost
        BY <1>2, <1>10, <2>2, <2>3, <4>1 DEF Focused
      <4>2. CASE Focused /\ ghost' = [ghost EXCEPT !.gaveUp = TRUE]
        <5>1. SameText(ghost, ghost') /\ ghost'.result = ghost.result
          BY <1>0, <4>2 DEF Ghosts, SameText
        <5>2. QED
          BY <1>2, <2>2, <2>3, <4>2, <5>1 DEF Focused
      <4>3. CASE Again /\ ghost' = ghost /\ ins.pc = "poll"
        BY <1>0, <1>10, <2>2, <4>3, LooksAgain
      <4>4. QED
        BY <3>3, <4>1, <4>2, <4>3 DEF Poll, At
    <3>4. QED
      BY <1>4, <3>1, <3>2, <3>3
  <2>5. held' => ghost'.keys
    BY <2>1, <2>2, <2>4 DEF SameText
  <2>6. ghost'.stuck = ghost.stuck /\ ghost'.result # "ok"
    BY <2>4 DEF SameText
  <2>7. QED
    BY <2>1, <2>2, <2>4, <2>5, <2>6, QuietSends
<1>5. CASE SetsClipboard \/ Gate \/ CtrlDown \/ CtrlUp
  <2>1. /\ ins.pc \in Pasting /\ UNCHANGED <<session, sent>>
    <3>1. CASE SetsClipboard
      BY <3>1 DEF SetsClipboard, At, Still, Pasting
    <3>2. CASE Gate
      BY <3>2 DEF Gate, At, Still, Pasting
    <3>3. CASE CtrlDown
      BY <3>3 DEF CtrlDown, At, Still, Pasting
    <3>4. CASE CtrlUp
      BY <3>4 DEF CtrlUp, At, Still, Pasting
    <3>5. QED
      BY <1>5, <3>1, <3>2, <3>3, <3>4
  <2>2. /\ ins.mode = "paste" /\ ins.mode # "typing" /\ session = "inserting"
        /\ ghost.result = "none" /\ (held => ghost.keys)
    BY <1>0, <1>1, <2>1 DEF Pasting
  <2>3. PasteInv
    BY <2>2 DEF SendInv
  <2>4. ASSUME Ends("err"), UNCHANGED held
        PROVE  SendInv'
    <3>1. ins'.pc \notin Pasting /\ ins'.pc \notin {"up", "gate", "ctrl", "v"} /\ ghost'.result = "err"
      BY <1>3, <2>4 DEF Pasting
    <3>2. SameText(ghost, ghost') /\ ins'.pc = "end" /\ ins'.mode = ins.mode /\ ins'.at = ins.at
      BY <1>3, <2>4
    <3>3. QED
      BY <2>1, <2>2, <2>4, <3>1, <3>2, QuietSends DEF SameText
  <2>5. ASSUME NEW pc \in {"clip", "gate", "ctrl", "v"}, ins'.pc = pc, ins'.mode = ins.mode,
               ins'.at = ins.at, ghost'.result = ghost.result, ghost'.stuck = ghost.stuck,
               held' => ghost'.keys, sent = <<>>,
               pc # "clip" => clip' = "ours" \/ (clip' = "theirs" /\ ghost'.copied),
               pc = "v" /\ ~ctrl' => ghost'.keys
        PROVE  SendInv'
    <3>1. pc \notin {"up", "end"} /\ ghost'.result = "none"
      BY <2>2, <2>5
    <3>2. QED
      BY <2>1, <2>2, <2>5, <3>1, QuietSends
  <2>6. ins.pc \in Pasting \ {"up"} => sent = <<>>
    BY <2>3 DEF PasteInv
  <2>7. ins.pc \in {"gate", "ctrl", "v"} => clip = "ours" \/ (clip = "theirs" /\ ghost.copied)
    BY <2>3 DEF PasteInv
  <2>8. CASE SetsClipboard
    <3>1. ins.pc = "clip" /\ sent = <<>> /\ held' = held
      BY <2>6, <2>8 DEF SetsClipboard, At, Still, Pasting
    <3>2. CASE Clipboard(TRUE) /\ Goes("gate") /\ ghost' = [ghost EXCEPT !.copied = FALSE]
      <4>1. clip' = "ours"
        BY <3>2 DEF Clipboard
      <4>2. /\ ghost'.keys = ghost.keys /\ ghost'.stuck = ghost.stuck
            /\ ghost'.result = ghost.result
        BY <1>0, <3>2 DEF Ghosts
      <4>3. ins'.pc = "gate" /\ ins'.mode = ins.mode /\ ins'.at = ins.at
        BY <1>2, <3>2 DEF Places
      <4>4. QED
        BY <2>2, <2>5, <3>1, <4>1, <4>2, <4>3
    <3>3. CASE Ends("err")
      BY <2>4, <3>1, <3>3
    <3>4. CASE Again /\ UNCHANGED <<clip, ghost>>
      <4>1. ins'.pc = "clip" /\ ins'.mode = ins.mode /\ ins'.at = ins.at
        BY <1>0, <3>1, <3>4, LooksAgain
      <4>2. QED
        BY <2>2, <2>5, <3>1, <3>4, <4>1
    <3>5. QED
      BY <2>8, <3>2, <3>3, <3>4, ScriptOrder DEF SetsClipboard
  <2>9. CASE Gate
    <3>1. ins.pc = "gate" /\ sent = <<>> /\ clip' = clip
      BY <2>6, <2>9 DEF Gate, At, Still, Pasting
    <3>2. ASSUME NEW flushed, Passes(flushed)
          PROVE  SendInv'
      <4>1. Goes("ctrl") /\ ghost' = [ghost EXCEPT !.keys = held']
        BY <3>2, ScriptOrder DEF Passes
      <4>2. /\ ghost'.keys = held' /\ ghost'.copied = ghost.copied
            /\ ghost'.stuck = ghost.stuck /\ ghost'.result = ghost.result
        BY <1>0, <4>1 DEF Ghosts
      <4>3. ins'.pc = "ctrl" /\ ins'.mode = ins.mode /\ ins'.at = ins.at
        BY <1>2, <4>1 DEF Places
      <4>4. QED
        BY <2>5, <2>7, <3>1, <4>2, <4>3
    <3>3. CASE Again /\ UNCHANGED <<held, ctrl, ghost>>
      <4>1. ins'.pc = "gate" /\ ins'.mode = ins.mode /\ ins'.at = ins.at
        BY <1>0, <3>1, <3>3, LooksAgain
      <4>2. QED
        BY <2>2, <2>5, <2>7, <3>1, <3>3, <4>1
    <3>4. CASE Passes(FALSE)
      BY <3>2, <3>4
    <3>5. CASE Passes(Reaches)
      BY <3>2, <3>5
    <3>6. QED
      BY <2>9, <3>3, <3>4, <3>5 DEF Gate
  <2>10. CASE CtrlDown
    <3>1. ins.pc = "ctrl" /\ sent = <<>> /\ UNCHANGED <<held, clip>>
      BY <2>6, <2>10 DEF CtrlDown, At, Still, Pasting
    <3>2. CASE Ends("err")
      BY <2>4, <3>1, <3>2
    <3>3. CASE ctrl' = TRUE /\ Goes("v") /\ ghost' = ghost
      <4>1. ins'.pc = "v" /\ ins'.mode = ins.mode /\ ins'.at = ins.at
        BY <1>2, <3>3 DEF Places
      <4>2. QED
        BY <2>2, <2>5, <2>7, <3>1, <3>3, <4>1
    <3>4. QED
      BY <2>10, <3>2, <3>3, ScriptOrder DEF CtrlDown
  <2>11. CASE CtrlUp
    <3>1. ins.pc = "up" /\ held' = held
      BY <2>11 DEF CtrlUp, At
    <3>2. Len(sent) = 1
      BY <2>3, <3>1 DEF PasteInv
    <3>3. CASE Ends("err")
      BY <2>4, <3>1, <3>3
    <3>4. CASE Ends("ok")
      <4>1. /\ ins'.pc = "end" /\ ins'.mode = ins.mode /\ ins'.at = ins.at
            /\ SameText(ghost, ghost')
        BY <1>3, <3>4
      <4>2. ins'.pc \notin Pasting /\ ins'.pc \notin {"up", "gate", "ctrl", "v"}
        BY <4>1 DEF Pasting
      <4>3. QED
        BY <2>1, <2>2, <3>1, <3>2, <4>1, <4>2, QuietSends DEF SameText
    <3>5. QED
      BY <2>11, <3>3, <3>4 DEF CtrlUp
  <2>12. QED
    BY <1>5, <2>8, <2>9, <2>10, <2>11
<1>6. CASE Pastes
  <2>1. /\ ins.pc = "v" /\ ins.mode = "paste" /\ ins.mode # "typing"
        /\ session = "inserting" /\ ghost.result = "none" /\ (held => ghost.keys)
    BY <1>0, <1>1, <1>6 DEF Pastes, At, Pasting
  <2>2. PasteInv
    BY <2>1 DEF SendInv
  <2>3. /\ sent = <<>> /\ (~ctrl => ghost.keys)
        /\ clip = "ours" \/ (clip = "theirs" /\ ghost.copied)
    BY <2>1, <2>2 DEF PasteInv, Pasting
  <2>4. CASE Reaches
    <3>1. /\ sent' = Append(sent, [win |-> front, items |-> Chord]) /\ Goes("up") /\ ghost' = ghost
          /\ UNCHANGED <<session, held>>
      BY <1>6, <2>4, ScriptOrder DEF Pastes, Still, Sends
    <3>2. Len(sent') = 1 /\ \A i \in DOMAIN sent' : sent'[i].items = Chord
      BY <2>3, <3>1
    <3>3. ins'.pc = "up" /\ ins'.mode = "paste"
      BY <1>2, <2>1, <3>1 DEF Places
    <3>4. \/ Chord = "ours"
          \/ Chord = "theirs" /\ ghost.copied
          \/ Chord = "key" /\ ghost.keys
      BY <2>1, <2>3 DEF Chord
    <3>5. (\A i \in DOMAIN sent : ChordArrives(sent[i].items))'
      BY <3>1, <3>2, <3>4 DEF ChordArrives
    <3>6. PasteInv'
      BY <3>2, <3>3, <3>5 DEF PasteInv
    <3>7. QED
      BY <2>1, <3>1, <3>3, <3>6 DEF SendInv
  <2>5. CASE ~Reaches
    <3>1. Ends("err") /\ UNCHANGED <<session, sent, held>>
      BY <1>6, <2>5 DEF Pastes, Still
    <3>2. /\ ins'.pc = "end" /\ ins'.mode = ins.mode /\ ins'.at = ins.at
          /\ SameText(ghost, ghost') /\ ghost'.result = "err"
      BY <1>3, <3>1
    <3>3. ins'.pc \notin Pasting /\ ins'.pc \notin {"up", "gate", "ctrl", "v"}
      BY <3>2 DEF Pasting
    <3>4. QED
      BY <2>1, <3>1, <3>2, <3>3, QuietSends DEF SameText
  <2>6. QED
    BY <2>4, <2>5
<1>7. CASE Types
  <2>1. /\ ins.pc = "type" /\ ins.mode = "typing" /\ session = "inserting"
        /\ ins.mode # "paste"
        /\ ghost.result = "none" /\ UNCHANGED <<session, held, ctrl>> /\ (held => ghost.keys)
    BY <1>0, <1>1, <1>7 DEF Types, At, Still
  <2>0. TypeInv
    BY <2>1 DEF SendInv
  <2>2. Len(Text) \in Nat /\ ins.at \in 1 .. Len(Text) + 1
    BY <1>0, InsertionAssumption DEF Inserts
  <2>3. "end" \notin Asking \cup Pasting
    BY DEF Asking, Pasting
  <2>4. ASSUME NEW result \in {"ok", "err"}, sent' = sent, Ends(result),
               result = "ok" => ins.at > Len(Text)
        PROVE  SendInv'
    <3>1. result = "ok" => ins.at = Len(Text) + 1
      BY <2>2, <2>4
    <3>2. /\ ins'.pc = "end" /\ ins'.mode = ins.mode /\ ins'.at = ins.at
          /\ SameText(ghost, ghost') /\ ghost'.result = result
      BY <1>3, <2>4
    <3>3. ins'.pc \notin Asking
      BY <3>2 DEF Asking
    <3>4. QED
      BY <2>1, <2>4, <3>1, <3>2, <3>3, QuietSends DEF SameText
  <2>6. ASSUME ins.at <= Len(Text), ins' = [ins EXCEPT !.at = ins.at + 1], ghost' = ghost,
               IF Text[ins.at] = "return" THEN sent' = sent ELSE Sends(Stroke(ins.at))
        PROVE  SendInv'
    <3>1. /\ ins.at \in 1 .. Len(Text) /\ ins.at - 1 \in 0 .. Len(Text) /\ ins.at \in Nat
          /\ ins.at + 1 - 1 = ins.at
      BY <2>2, <2>6
    <3>2. ins'.at = ins.at + 1 /\ ins'.pc = "type" /\ ins'.mode = "typing"
      BY <1>0, <2>1, <2>6 DEF Inserts
    <3>3. /\ sent \in Seq(Strokes) /\ Len(sent) = Keys(ins.at - 1) /\ Len(sent) \in Nat
          /\ \A k \in 1 .. ins.at - 1 :
               Text[k] # "return" => StrokeArrives(k, sent[Keys(k)].items)
      <4>1. sent \in Seq(Strokes)
        BY <1>0, <2>1
      <4>2. Len(sent) \in Nat
        BY <4>1
      <4>3. QED
        BY <2>0, <4>1, <4>2 DEF TypeInv
    <3>4. StrokeArrives(ins.at, Stroke(ins.at))
      BY <2>0, <2>1 DEF Stroke, TypeInv, StrokeArrives
    <3>5. ASSUME Text[ins.at] # "return"
          PROVE  /\ Len(sent') = Len(sent) + 1 /\ sent'[Len(sent) + 1].items = Stroke(ins.at)
                 /\ \A i \in 1 .. Len(sent) : sent'[i] = sent[i]
      <4>1. sent' = Append(sent, [win |-> front, items |-> Stroke(ins.at)])
        BY <2>6, <3>5 DEF Sends
      <4>2. QED
        BY <3>3, <4>1
    <3>6. Len(sent') = Keys(ins.at)
      BY <2>6, <3>1, <3>3, <3>5, KeysStep
    <3>7. ASSUME NEW k \in 1 .. ins.at, Text[k] # "return"
          PROVE  StrokeArrives(k, sent'[Keys(k)].items)
      <4>1. CASE k = ins.at
        <5>1. Keys(k) = Len(sent) + 1
          BY <3>1, <3>3, <3>7, <4>1, KeysStep
        <5>2. QED
          BY <3>4, <3>5, <3>7, <4>1, <5>1
      <4>2. CASE k # ins.at
        <5>1. k \in 1 .. ins.at - 1 /\ k \in 0 .. ins.at - 1 /\ 0 \in 0 .. k /\ 0 < k
              /\ k \in 0 .. Len(Text)
          BY <3>1, <4>2
        <5>2. Keys(k) \in Nat /\ Keys(k) <= Keys(ins.at - 1) /\ 0 < Keys(k)
          BY <3>1, <3>7, <5>1, KeysGrow, NoKeys
        <5>3. Keys(k) \in 1 .. Len(sent)
          BY <3>3, <5>2
        <5>4. sent'[Keys(k)] = sent[Keys(k)]
          BY <2>6, <3>5, <5>3
        <5>5. QED
          BY <3>3, <3>7, <5>1, <5>4
      <4>3. QED
        BY <4>1, <4>2
    <3>8. (\A k \in 1 .. ins.at - 1 :
             Text[k] # "return" => StrokeArrives(k, sent[Keys(k)].items))'
      BY <2>6, <3>1, <3>2, <3>7 DEF StrokeArrives
    <3>9. ins'.pc \notin Asking
      BY <3>2 DEF Asking
    <3>10. ins'.at - 1 = ins.at
      BY <3>1, <3>2
    <3>11. TypeInv'
      BY <2>0, <2>1, <2>6, <3>6, <3>8, <3>9, <3>10 DEF TypeInv
    <3>12. QED
      BY <2>1, <2>6, <3>2, <3>11 DEF SendInv
  <2>7. QED
    BY <1>7, <2>2, <2>4, <2>6 DEF Types
<1>8. CASE Answers
  BY <1>8 DEF Answers, SendInv
<1>9. QED
  BY <1>4, <1>5, <1>6, <1>7, <1>8 DEF InsertStep

\* Whatever fails, wherever the focus goes and whatever the settings do, an
\* insert sends its text once and in order: at most one chord for a paste, and
\* for typing the keystrokes of the characters passed, each at its place; all of
\* it when it is reported done; and what arrives is the text, but for another
\* program's copy after ours, modifiers of the user's (past the gate, in a
\* paste) and, for the Enters of typing, a Ctrl left down by an earlier paste
\* (insert_by_paste and insert_by_typing, for any text).
THEOREM TextIsSentOnce == Spec => []SentOnce
<1>1. Init => LandInv /\ SendInv
  <2> SUFFICES ASSUME Init
               PROVE  LandInv /\ SendInv
    OBVIOUS
  <2>1. session = "idle"
    BY DEF Init
  <2>2. QED
    BY <2>1, InitLands DEF SendInv
<1>2. LandInv /\ SendInv /\ [Next]_vars => LandInv' /\ SendInv'
  <2> SUFFICES ASSUME LandInv, SendInv, [Next]_vars
               PROVE  LandInv' /\ SendInv'
    OBVIOUS
  <2>1. CASE UNCHANGED vars
    <3>1. LandInv'
      BY <2>1
      DEF vars, world, notes, LandInv, WorldType, InsertType, Running, Excused, OursExcused,
          Placed, Unmoved, Place
    <3>2. SendInv'
      BY <2>1, OutsideSends DEF vars, world
    <3>3. QED
      BY <3>1, <3>2
  <2>2. QED
    BY <2>1, InsertLands, WorldLands, SessionLands, InsertSends, WorldSends, SessionSends
    DEF Next
<1>3. LandInv /\ SendInv => SentOnce
  <2> SUFFICES ASSUME LandInv, SendInv, session = "inserting"
               PROVE  SentOnce
    BY DEF SentOnce
  <2>1. /\ ins.mode \in Modes /\ Len(Text) \in Nat /\ ins.at \in 1 .. Len(Text) + 1
        /\ DOMAIN Text = 1 .. Len(Text)
    BY InsertionAssumption DEF LandInv, InsertType, Inserts
  <2>2. CASE ins.mode = "paste"
    BY <2>2 DEF SendInv, PasteInv, ChordArrives, SentOnce
  <2>3. CASE ins.mode = "typing"
    <3>1. ins.at - 1 \in 0 .. Len(Text) /\ Len(Text) \in 0 .. Len(Text) /\ ins.at \in Nat
      BY <2>1
    <3>2. Len(sent) = Keys(ins.at - 1) /\ Len(sent) <= Keys(Len(Text))
      BY <2>3, <3>1, KeysGrow DEF SendInv, TypeInv
    <3>3. ASSUME NEW k \in DOMAIN Text, Text[k] # "return", Keys(k) <= Len(sent)
          PROVE  StrokeArrives(k, sent[Keys(k)].items)
      <4>1. CASE k <= ins.at - 1
        <5>1. k \in 1 .. ins.at - 1
          BY <2>1, <4>1
        <5>2. QED
          BY <2>3, <3>3, <5>1 DEF SendInv, TypeInv
      <4>2. CASE ~(k <= ins.at - 1)
        <5>1. k \in 0 .. Len(Text) /\ ins.at - 1 \in 0 .. k /\ ins.at - 1 < k
          BY <2>1, <4>2
        <5>2. Keys(ins.at - 1) \in Nat /\ Keys(k) \in Nat /\ Keys(ins.at - 1) < Keys(k)
          BY <3>3, <5>1, KeysGrow
        <5>3. QED
          BY <3>2, <3>3, <5>2
      <4>3. QED
        BY <4>1, <4>2
    <3>4. ghost.result = "ok" => Len(sent) = Keys(Len(Text))
      <4>1. Len(Text) + 1 - 1 = Len(Text)
        BY <2>1
      <4>2. QED
        BY <2>3, <3>2, <4>1 DEF SendInv, TypeInv
    <3>5. QED
      BY <2>3, <3>2, <3>3, <3>4 DEF SentOnce, StrokeArrives
  <2>4. QED
    BY <2>1, <2>2, <2>3 DEF Modes
<1>4. QED
  BY <1>1, <1>2, <1>3, PTL DEF Spec

=============================================================================
