------------------------- MODULE HoldWatcherProofs -------------------------
(***************************************************************************)
(* Theorems of HoldWatcher, for any number of sessions, calls and stops    *)
(* and on any schedule: the types, and the Esc guard, which follows the    *)
(* session however starts, ends, refusals and the subscribe loop race.     *)
(* What HoldWatcher says of the watch itself is left to TLC: it holds only *)
(* where no recording ends inside a call of watch_hold or a tick.          *)
(***************************************************************************)
EXTENDS HoldWatcher, SequenceTheorems, TLAPS

-----------------------------------------------------------------------------
(* Types *)

EngineStates == {"Idle", "Recording", "Rectifying"}
EngineView == [state : EngineStates, sid : Nat, quick : BOOLEAN,
               gate : BOOLEAN, pinned : BOOLEAN]
Event == [from : EngineStates, to : EngineStates]

WatchSteps == {"poll", "raise", "lower", "mark", "stop", "asked", "end"}
Watches == [id : Nat, gen : Nat, early : BOOLEAN, sid : Nat, pc : WatchSteps,
            live : BOOLEAN, seen : BOOLEAN, marked : BOOLEAN,
            upgraded : BOOLEAN]

Starts   == {"Hotkey", "Orb"}
Closings == {"Stop", "Cancel"}

ArmCalls == [pc : {"none", "check", "lock", "load", "store"}, early : BOOLEAN,
             gen : Nat, sid : Nat]
Calls == [pc : {"none", "bump", "ask"}, op : Starts \cup Closings]

HoldType ==
  /\ holding \in BOOLEAN /\ generation \in Nat /\ watches \subseteq Watches
  /\ arm \in ArmCalls /\ call \in Calls
  /\ call.pc = "bump" => call.op \in Closings
  /\ loop \in {"none", "bump"} /\ arms \in Nat
  /\ loop = "bump" => events # <<>>
  /\ armed \in {"yes", "no", "taken back"} /\ esc \in BOOLEAN /\ down \in BOOLEAN
  /\ engine \in EngineView /\ events \in Seq(Event) /\ phase \in EngineStates

\* The engine answers a command with its types kept: it moves on and says so,
\* or it stays where it is and says nothing.
MovesOn == \E e \in Event :
  /\ e.from = engine.state /\ e.to = engine'.state
  /\ events' = Append(events, e)
StaysPut == engine'.state = engine.state /\ engine'.sid = engine.sid /\ events' = events

\* The engine as the watcher sees it: it moves on, or stays where it is.
LEMMA EngineAnswers ==
  ASSUME HoldType,
         \/ HoldGate(TRUE) \/ HoldGate(FALSE) \/ MarkQuick \/ StopSession \/ Cancel
         \/ Opens /\ engine.state = "Idle"
         \/ Recording /\ Moves("Rectifying")
         \/ engine.state = "Rectifying" /\ Moves("Idle")
         \/ Quiet
  PROVE  engine' \in EngineView /\ (MovesOn \/ StaysPut)
<1>0. engine \in EngineView /\ engine.state \in EngineStates /\ engine.sid \in Nat
  BY DEF HoldType, EngineView
<1>1. ASSUME NEW to \in EngineStates, Moves(to)
      PROVE  engine' \in EngineView /\ MovesOn
  <2>1. engine' \in EngineView /\ engine'.state = to
    BY <1>0, <1>1 DEF Moves, EngineView
  <2>2. [from |-> engine.state, to |-> to] \in Event
    BY <1>0 DEF Event
  <2>3. QED
    BY <1>1, <2>1, <2>2 DEF Moves, MovesOn
<1>2. CASE StopSession \/ Cancel \/ Quiet \/ Moves("Rectifying") \/ Moves("Idle")
  BY <1>0, <1>1, <1>2
  DEF StopSession, Cancel, Quiet, StaysPut, EngineStates
<1>3. CASE HoldGate(TRUE) \/ HoldGate(FALSE) \/ MarkQuick
  BY <1>0, <1>3 DEF HoldGate, MarkQuick, StaysPut, EngineView
<1>4. CASE Opens /\ engine.state = "Idle"
  <2>1. engine' \in EngineView /\ engine'.state = "Recording"
    BY <1>0, <1>4 DEF Opens, EngineView, EngineStates
  <2>2. [from |-> "Idle", to |-> "Recording"] \in Event
    BY DEF Event, EngineStates
  <2>3. QED
    BY <1>4, <2>1, <2>2 DEF Opens, MovesOn
<1>5. QED
  BY <1>2, <1>3, <1>4

\* An event joins the queue at its end, and the first one is still the first.
LEMMA EventJoins ==
  ASSUME HoldType, NEW e \in Event, events' = Append(events, e)
  PROVE  /\ events' \in Seq(Event) /\ Len(events) \in Nat
         /\ events' # <<>> /\ Len(events') = Len(events) + 1
         /\ DOMAIN events = 1 .. Len(events) /\ DOMAIN events' = 1 .. Len(events')
         /\ events'[Len(events')] = e
         /\ \A i \in 1 .. Len(events) : events'[i] = events[i]
         /\ events # <<>> => Head(events') = Head(events) /\ Len(events) > 0
<1>1. events \in Seq(Event)
  BY DEF HoldType
<1>2. QED
  BY <1>1, AppendProperties, LenProperties, EmptySeq, HeadTailAppend

\* The first event leaves it, and the rest move up.
LEMMA EventLeaves ==
  ASSUME HoldType, events # <<>>, events' = Tail(events)
  PROVE  /\ events' \in Seq(Event) /\ Len(events) \in Nat \ {0}
         /\ Head(events) \in Event /\ Head(events) = events[1]
         /\ DOMAIN events = 1 .. Len(events) /\ DOMAIN events' = 1 .. Len(events')
         /\ Len(events') = Len(events) - 1
         /\ \A i \in 1 .. Len(events') : events'[i] = events[i + 1]
         /\ events' = <<>> <=> Len(events) = 1
<1>1. events \in Seq(Event)
  BY DEF HoldType
<1>2. Len(events) \in Nat \ {0}
  BY <1>1, EmptySeq
<1>3. Head(events) = events[1]
  BY <1>1
<1>4. /\ Head(events) \in Event /\ events' \in Seq(Event)
      /\ Len(events') = Len(events) - 1
      /\ \A i \in 1 .. Len(events') : events'[i] = events[i + 1]
  BY <1>1, HeadTailProperties
<1>5. events' = <<>> <=> Len(events) = 1
  BY <1>2, <1>4, EmptySeq
<1>6. QED
  BY <1>1, <1>2, <1>3, <1>4, <1>5, LenProperties

\* The queue keeps its type, whatever the engine answers.
LEMMA EventsType ==
  ASSUME HoldType, MovesOn \/ StaysPut
  PROVE  events' \in Seq(Event) /\ (events # <<>> => events' # <<>>)
BY EventJoins DEF MovesOn, StaysPut, HoldType

\* The user, the callers and the subscribe loop keep the types.
LEMMA CallersType ==
  ASSUME HoldType,
         UserStep \/ EscStep \/ EngineEnds \/ ArmStep \/ CallStep \/ LoopStep
  PROVE  HoldType'
<1>0. /\ engine \in EngineView /\ arms \in Nat /\ engine.sid \in Nat
      /\ generation \in Nat
  BY DEF HoldType, EngineView
<1>1. \A early \in BOOLEAN : Arm(early) =>
        arms' \in Nat /\ arm' \in ArmCalls
  BY <1>0 DEF Arm, ArmCalls
<1>8. /\ [call EXCEPT !.pc = "none"] \in Calls /\ [call EXCEPT !.pc = "none"].pc = "none"
      /\ [call EXCEPT !.pc = "ask"] \in Calls /\ [call EXCEPT !.pc = "ask"].pc = "ask"
  BY DEF HoldType, Calls
<1>2. CASE UserStep
  <2>1. CASE HotkeyOpens \/ OrbOpens
    <3>1. call' \in Calls /\ call'.pc = "ask"
      BY <2>1 DEF HotkeyOpens, OrbOpens, Presses, Calls, Starts
    <3>2. QED
      BY <2>1, <3>1 DEF HotkeyOpens, OrbOpens, Presses, HoldType
  <2>2. CASE HotkeyAgain
    BY <1>1, <2>2 DEF HotkeyAgain, HoldType
  <2>3. CASE ChordMoves
    BY <2>3 DEF ChordMoves, HoldType, bridge
  <2>4. CASE Pin
    <3>1. engine' \in EngineView
      BY <1>0, <2>4 DEF Pin, EngineView
    <3>2. QED
      BY <2>4, <3>1 DEF Pin, HoldType, bridge, keys
  <2>5. CASE CallStarts
    <3>1. call' \in Calls /\ call'.op \in Closings
      BY <2>5 DEF CallStarts, Calls, Closings
    <3>2. QED
      BY <2>5, <3>1 DEF CallStarts, StopStores, HoldType, keys
  <2>6. QED
    BY <1>2, <2>1, <2>2, <2>3, <2>4, <2>5 DEF UserStep
<1>3. CASE EscStep
  <2>1. CASE EscSwallowed
    BY <2>1 DEF EscSwallowed, HoldType, bridge
  <2>2. CASE EscCancels
    <3>1. engine' \in EngineView /\ events' \in Seq(Event) /\ (events # <<>> => events' # <<>>)
      BY <2>2, EngineAnswers, EventsType DEF EscCancels
    <3>2. QED
      BY <2>2, <3>1 DEF EscCancels, HoldType, bridge
  <2>3. QED
    BY <1>3, <2>1, <2>2 DEF EscStep
<1>4. CASE EngineEnds
  <2>1. engine' \in EngineView /\ events' \in Seq(Event) /\ (events # <<>> => events' # <<>>)
    BY <1>4, EngineAnswers, EventsType DEF EngineEnds
  <2>2. QED
    BY <1>4, <2>1 DEF EngineEnds, HoldType, bridge, keys
<1>5. CASE ArmStep
  <2>1. arm \in ArmCalls
    BY DEF HoldType
  <2>2. CASE ArmChecks \/ ArmLocks \/ ArmLoads
    <3>1. arm' \in ArmCalls
      BY <1>0, <2>1, <2>2 DEF ArmChecks, ArmLocks, ArmLoads, ArmCalls
    <3>2. QED
      BY <2>2, <3>1 DEF ArmChecks, ArmLocks, ArmLoads, HoldType, keys
  <2>3. CASE ArmSpawns
    <3>1. Watch(arm) \in Watches
      BY <1>0, <2>1 DEF Watch, Watches, WatchSteps, ArmCalls
    <3>2. [arm EXCEPT !.pc = "none"] \in ArmCalls
      BY <2>1 DEF ArmCalls
    <3>3. QED
      BY <2>3, <3>1, <3>2 DEF ArmSpawns, HoldType, keys
  <2>4. QED
    BY <1>5, <2>2, <2>3 DEF ArmStep
<1>6. CASE CallStep
  <2>1. CASE CallBumps
    <3>1. generation' \in Nat
      BY <1>0, <2>1 DEF CallBumps, StopBumps
    <3>2. QED
      BY <1>8, <2>1, <3>1 DEF CallBumps, HoldType, keys
  <2>2. CASE CallAsks
    <3>1. engine' \in EngineView /\ events' \in Seq(Event) /\ (events # <<>> => events' # <<>>)
      BY <2>2, EngineAnswers, EventsType DEF CallAsks
    <3>2. QED
      BY <1>8, <2>2, <3>1 DEF CallAsks, HoldType, keys, StopSession, Cancel, Moves, Quiet
  <2>3. CASE StartAsks
    <3>1. engine' \in EngineView /\ events' \in Seq(Event) /\ (events # <<>> => events' # <<>>)
      BY <2>3, EngineAnswers, EventsType DEF StartAsks
    <3>2. arms' \in Nat /\ arm' \in ArmCalls
      BY <1>1, <2>3 DEF StartAsks, HoldType
    <3>3. armed' \in {"yes", "no", "taken back"}
      BY <2>3 DEF StartAsks, HoldType
    <3>4. QED
      BY <1>8, <2>3, <3>1, <3>2, <3>3 DEF StartAsks, HoldType
  <2>4. QED
    BY <1>6, <2>1, <2>2, <2>3 DEF CallStep
<1>7. CASE LoopStep
  <2>1. CASE LoopPasses
    <3>1. events' \in Seq(Event) /\ phase' \in EngineStates
      BY <2>1, EventLeaves DEF LoopPasses, Handled, Event
    <3>2. QED
      BY <2>1, <3>1 DEF LoopPasses, Arms, HoldType, bridge
  <2>2. CASE LoopStops
    BY <2>2 DEF LoopStops, Arms, StopStores, HoldType
  <2>3. CASE LoopBumps
    <3>1. events' \in Seq(Event) /\ phase' \in EngineStates
      BY <2>3, EventLeaves DEF LoopBumps, Handled, Event, HoldType
    <3>2. generation' \in Nat
      BY <1>0, <2>3 DEF LoopBumps, StopBumps
    <3>3. QED
      BY <2>3, <3>1, <3>2 DEF LoopBumps, HoldType, keys
  <2>4. QED
    BY <1>7, <2>1, <2>2, <2>3 DEF LoopStep
<1>9. QED
  BY <1>2, <1>3, <1>4, <1>5, <1>6, <1>7

\* So does every step of a watch.
LEMMA WatchType ==
  ASSUME HoldType, NEW w \in watches, WatchStep(w)
  PROVE  HoldType'
<1>0. w \in Watches /\ engine \in EngineView
  BY DEF HoldType
<1>1. \A pc \in WatchSteps : [w EXCEPT !.pc = pc, !.live = FALSE] \in Watches
  BY <1>0 DEF Watches
<1>2. \A v \in Watches : Becomes(w, v) => watches' \subseteq Watches
  BY DEF Becomes, HoldType
<1>3. \A pc \in WatchSteps : Goes(w, pc) => watches' \subseteq Watches
  BY <1>1, <1>2 DEF Goes
<1>4. Over(w) => watches' \subseteq Watches
  BY DEF Over, HoldType
<1>5. Ending(w) \in WatchSteps /\ Release(w) \in WatchSteps
  BY DEF Ending, Release, WatchSteps
<1>6. CASE Poll(w)
  <2>1. /\ [w EXCEPT !.seen = TRUE, !.pc = "raise"] \in Watches
        /\ [w EXCEPT !.marked = TRUE, !.pc = "mark"] \in Watches
    BY <1>0 DEF Watches, WatchSteps
  <2>2. watches' \subseteq Watches
    BY <1>2, <1>3, <1>4, <1>5, <1>6, <2>1 DEF Poll
  <2>3. QED
    BY <1>6, <2>2 DEF Poll, HoldType, bridge, keys
<1>7. CASE Checks(w)
  <2>1. [w EXCEPT !.live = TRUE] \in Watches
    BY <1>0 DEF Watches
  <2>2. watches' \subseteq Watches
    BY <1>2, <1>4, <1>7, <2>1 DEF Checks
  <2>3. QED
    BY <1>7, <2>2 DEF Checks, HoldType, bridge, keys
<1>8. CASE Raises(w) \/ Lowers(w)
  <2>1. engine' \in EngineView /\ events' \in Seq(Event) /\ (events # <<>> => events' # <<>>)
    BY <1>8, EngineAnswers, EventsType DEF Raises, Lowers
  <2>2. watches' \subseteq Watches
    BY <1>3, <1>5, <1>8 DEF Raises, Lowers, WatchSteps
  <2>3. QED
    BY <1>8, <2>1, <2>2 DEF Raises, Lowers, HoldType, bridge, keys
<1>9. CASE Marks(w)
  <2>1. engine' \in EngineView /\ events' \in Seq(Event) /\ (events # <<>> => events' # <<>>)
    BY <1>9, EngineAnswers, EventsType DEF Marks
  <2>2. [w EXCEPT !.pc = "poll", !.live = FALSE, !.upgraded = engine'.quick] \in Watches
    BY <1>0, <2>1 DEF Watches, WatchSteps, EngineView
  <2>3. QED
    BY <1>2, <1>9, <2>1, <2>2 DEF Marks, HoldType, bridge, keys
<1>10. CASE StopsHolding(w) \/ Ends(w)
  BY <1>3, <1>4, <1>10 DEF StopsHolding, Ends, HoldType, bridge, keys, WatchSteps
<1>11. CASE StopsSession(w)
  <2>1. engine' \in EngineView /\ events' \in Seq(Event) /\ (events # <<>> => events' # <<>>)
    BY <1>11, EngineAnswers, EventsType DEF StopsSession
  <2>2. QED
    BY <1>4, <1>11, <2>1 DEF StopsSession, HoldType, bridge, keys
<1>12. QED
  BY <1>6, <1>7, <1>8, <1>9, <1>10, <1>11 DEF WatchStep

\* Every variable keeps its type, whatever the schedule.
THEOREM HoldTypeCorrect == Spec => []HoldType
<1>1. Init => HoldType
  <2> SUFFICES ASSUME Init PROVE HoldType
    OBVIOUS
  <2>1. arm \in ArmCalls /\ call \in Calls /\ call.pc = "none"
    BY DEF Init, ArmCalls, Calls, Closings
  <2>2. engine \in EngineView /\ events \in Seq(Event) /\ phase \in EngineStates
    BY EmptySeq DEF Init, EngineView, EngineStates
  <2>3. /\ holding \in BOOLEAN /\ generation \in Nat /\ watches \subseteq Watches
        /\ loop = "none" /\ arms \in Nat /\ armed = "no" /\ esc \in BOOLEAN
        /\ down \in BOOLEAN
    BY DEF Init
  <2>4. QED
    BY <2>1, <2>2, <2>3 DEF HoldType
<1>2. HoldType /\ [Next]_vars => HoldType'
  <2>1. CASE UNCHANGED vars
    BY <2>1 DEF vars, bridge, keys, HoldType
  <2>2. QED
    BY <2>1, CallersType, WatchType DEF Next
<1>3. QED
  BY <1>1, <1>2, PTL DEF Spec

-----------------------------------------------------------------------------
(* The Esc guard *)

\* The events end where the engine is, and the loop stops for the first one.
EventsLead ==
  /\ events # <<>> => events[Len(events)].to = engine.state
  /\ loop = "bump" => events # <<>> /\ Head(events).from = "Recording"

Starting == call.pc = "ask" /\ call.op \in Starts

\* The guard, once the last event has armed or disarmed it and no start that
\* armed it ahead is still asking.
GuardIsSet ==
  /\ engine.state = "Idle" => armed # "yes"
  /\ engine.state # "Idle" => armed # "no"
Guarded ==
  ~Starting /\ (events = <<>> \/ (loop = "bump" /\ Len(events) = 1)) => GuardIsSet

GuardInv == EventsLead /\ Guarded

\* A queue an event has joined that was not empty holds more than that event.
LEMMA TwoOrMore == \A m, n \in Nat : n > 0 /\ m = n + 1 => m # 1
OBVIOUS

\* An event that joins tells where the engine has gone; the loop will set the
\* guard by it.  Without one, the guard stays as set, or a start is at it.
LEMMA GuardKept ==
  ASSUME HoldType, GuardInv, MovesOn \/ StaysPut, loop' = loop,
         \/ armed' = armed /\ (Starting => Starting' \/ MovesOn)
         \/ Starting' \/ armed' = "taken back"
  PROVE  GuardInv'
<1>1. CASE MovesOn
  <2>1. PICK e \in Event : e.to = engine'.state /\ events' = Append(events, e)
    BY <1>1 DEF MovesOn
  <2>2. /\ events' # <<>> /\ Len(events) \in Nat /\ Len(events') = Len(events) + 1
        /\ events'[Len(events')] = e
        /\ events # <<>> => Head(events') = Head(events) /\ Len(events) > 0
    BY <2>1, EventJoins
  <2>3. EventsLead'
    BY <2>1, <2>2 DEF GuardInv, EventsLead
  <2>4. ~(loop = "bump" /\ Len(events') = 1)
    <3>1. loop = "bump" => Len(events) > 0
      BY <2>2 DEF GuardInv, EventsLead
    <3>2. Len(events) > 0 => Len(events') # 1
      BY <2>2, TwoOrMore
    <3>3. QED
      BY <3>1, <3>2
  <2>5. Guarded'
    BY <2>2, <2>4 DEF Guarded
  <2>6. QED
    BY <2>3, <2>5 DEF GuardInv
<1>2. CASE StaysPut /\ ~MovesOn
  BY <1>2 DEF GuardInv, EventsLead, Guarded, GuardIsSet, StaysPut
<1>3. QED
  BY <1>1, <1>2

\* The last event handled leaves the guard as the engine's state asks.
LEMMA LoopGuards ==
  ASSUME HoldType, GuardInv, LoopStep
  PROVE  GuardInv'
<1>0. UNCHANGED <<engine, call>>
  BY DEF LoopStep, LoopPasses, LoopStops, LoopBumps, bridge
<1>1. CASE LoopPasses
  <2>1. /\ events # <<>> /\ events' = Tail(events) /\ loop' = "none"
        /\ armed' = IF Head(events).to = "Idle" THEN "no" ELSE "yes"
    BY <1>1 DEF LoopPasses, Handled, Arms, bridge
  <2>2. /\ Len(events) \in Nat \ {0} /\ Head(events) = events[1]
        /\ Len(events') = Len(events) - 1
        /\ \A i \in 1 .. Len(events') : events'[i] = events[i + 1]
        /\ events' = <<>> <=> Len(events) = 1
    BY <2>1, EventLeaves
  <2>3. EventsLead'
    <3>1. events' # <<>> => events'[Len(events')] = events[Len(events)]
      BY <2>2
    <3>2. QED
      BY <1>0, <2>1, <3>1 DEF GuardInv, EventsLead
  <2>4. Guarded'
    BY <1>0, <2>1, <2>2 DEF GuardInv, EventsLead, Guarded, GuardIsSet
  <2>5. QED
    BY <2>3, <2>4 DEF GuardInv
<1>2. CASE LoopStops
  <2>1. /\ events # <<>> /\ events' = events /\ loop' = "bump"
        /\ Head(events).from = "Recording"
        /\ armed' = IF Head(events).to = "Idle" THEN "no" ELSE "yes"
    BY <1>2 DEF LoopStops, Arms
  <2>2. Head(events) = events[1]
    <3>1. events \in Seq(Event)
      BY DEF HoldType
    <3>2. QED
      BY <3>1
  <2>3. EventsLead'
    BY <1>0, <2>1 DEF GuardInv, EventsLead
  <2>4. Len(events) = 1 => Head(events).to = engine.state
    BY <2>1, <2>2 DEF GuardInv, EventsLead
  <2>5. Guarded'
    BY <1>0, <2>1, <2>4 DEF Guarded, GuardIsSet
  <2>6. QED
    BY <2>3, <2>5 DEF GuardInv
<1>3. CASE LoopBumps
  <2>1. /\ events # <<>> /\ events' = Tail(events) /\ loop' = "none"
        /\ loop = "bump" /\ armed' = armed
    BY <1>3 DEF LoopBumps, Handled, HoldType, keys
  <2>2. /\ Len(events) \in Nat \ {0}
        /\ Len(events') = Len(events) - 1
        /\ \A i \in 1 .. Len(events') : events'[i] = events[i + 1]
        /\ events' = <<>> <=> Len(events) = 1
    BY <2>1, EventLeaves
  <2>3. EventsLead'
    <3>1. events' # <<>> => events'[Len(events')] = events[Len(events)]
      BY <2>2
    <3>2. QED
      BY <1>0, <2>1, <3>1 DEF GuardInv, EventsLead
  <2>4. Guarded'
    BY <1>0, <2>1, <2>2 DEF GuardInv, Guarded, Starting, GuardIsSet
  <2>5. QED
    BY <2>3, <2>4 DEF GuardInv
<1>4. QED
  BY <1>1, <1>2, <1>3 DEF LoopStep

\* Every other step leaves the guard to the events it adds.
LEMMA OthersGuard ==
  ASSUME HoldType, GuardInv,
         \/ UserStep \/ EscStep \/ EngineEnds \/ ArmStep \/ CallStep
         \/ \E w \in watches : WatchStep(w)
  PROVE  GuardInv'
<1>0. /\ engine \in EngineView /\ call \in Calls
      /\ call.pc = "bump" => call.op \in Closings
  BY DEF HoldType
<1>1. CASE UserStep
  <2>1. CASE HotkeyOpens \/ OrbOpens
    <3>1. Starting' /\ StaysPut /\ loop' = loop
      BY <2>1 DEF HotkeyOpens, OrbOpens, Presses, Starting, Starts, StaysPut
    <3>2. QED
      BY <3>1, GuardKept
  <2>2. CASE HotkeyAgain \/ ChordMoves \/ Pin \/ CallStarts
    <3>1. StaysPut /\ UNCHANGED <<loop, armed>>
      BY <1>0, <2>2
      DEF HotkeyAgain, ChordMoves, Pin, CallStarts, StaysPut, EngineView, bridge,
          keys
    <3>2. Starting => Starting'
      BY <2>2 DEF HotkeyAgain, ChordMoves, Pin, CallStarts, Starting, bridge
    <3>3. QED
      BY <3>1, <3>2, GuardKept
  <2>3. QED
    BY <1>1, <2>1, <2>2 DEF UserStep
<1>2. CASE EscStep \/ EngineEnds
  <2>1. MovesOn \/ StaysPut
    BY <1>2, EngineAnswers
    DEF EscStep, EscSwallowed, EscCancels, EngineEnds, StaysPut
  <2>2. UNCHANGED <<loop, armed, call>>
    BY <1>2 DEF EscStep, EscSwallowed, EscCancels, EngineEnds, bridge, keys
  <2>3. QED
    BY <2>1, <2>2, GuardKept DEF Starting
<1>3. CASE ArmStep
  <2>1. UNCHANGED <<loop, armed, call, engine, events>>
    BY <1>3 DEF ArmStep, ArmChecks, ArmLocks, ArmLoads, ArmSpawns, keys
  <2>2. QED
    BY <2>1, GuardKept DEF Starting, StaysPut
<1>4. CASE CallBumps
  <2>1. StaysPut /\ UNCHANGED <<loop, armed>> /\ ~Starting
    BY <1>4 DEF CallBumps, StaysPut, Starting, keys
  <2>2. QED
    BY <2>1, GuardKept
<1>5. CASE CallAsks
  <2>1. MovesOn \/ StaysPut
    BY <1>5, EngineAnswers DEF CallAsks
  <2>2. UNCHANGED <<loop, armed>> /\ ~Starting
    BY <1>5 DEF CallAsks, Starting, Starts, keys
  <2>3. QED
    BY <2>1, <2>2, GuardKept
<1>6. CASE StartAsks
  <2>1. CASE engine.state = "Idle"
    <3>1. engine'.state = "Recording" /\ events' = Append(events, [from |-> "Idle", to |-> "Recording"])
      BY <1>6, <2>1 DEF StartAsks, Opens
    <3>2. MovesOn /\ loop' = loop /\ armed' = armed
      BY <1>6, <2>1, <3>1 DEF StartAsks, MovesOn, Event, EngineStates
    <3>3. QED
      BY <3>2, GuardKept
  <2>2. CASE engine.state # "Idle"
    BY <1>6, <2>2, GuardKept DEF StartAsks, Quiet, StaysPut
  <2>3. QED
    BY <2>1, <2>2
<1>7. ASSUME NEW w \in watches, WatchStep(w)
      PROVE  GuardInv'
  <2>1. MovesOn \/ StaysPut
    BY <1>7, EngineAnswers
    DEF WatchStep, Poll, Checks, Raises, Lowers, Marks, StopsHolding,
        StopsSession, Ends, StaysPut
  <2>2. UNCHANGED <<loop, armed, call>>
    BY <1>7
    DEF WatchStep, Poll, Checks, Raises, Lowers, Marks, StopsHolding,
        StopsSession, Ends, bridge, keys
  <2>3. QED
    BY <2>1, <2>2, GuardKept DEF Starting
<1>8. QED
  BY <1>1, <1>2, <1>3, <1>4, <1>5, <1>6, <1>7 DEF CallStep

\* The Esc guard is armed exactly while a session is active once every event
\* is handled, whatever starts, ends, refusals and watches raced the loop.
THEOREM GuardFollows == Spec => []GuardFollowsSession
<1>1. Init => GuardInv
  BY DEF Init, GuardInv, EventsLead, Guarded, GuardIsSet
<1>2. HoldType /\ GuardInv /\ [Next]_vars => GuardInv'
  <2>1. ASSUME HoldType, GuardInv, UNCHANGED vars
        PROVE  GuardInv'
    BY <2>1, GuardKept DEF vars, bridge, keys, StaysPut, Starting
  <2>2. QED
    BY <2>1, LoopGuards, OthersGuard DEF Next
<1>3. HoldType /\ GuardInv => GuardFollowsSession
  BY DEF GuardInv, Guarded, GuardIsSet, GuardFollowsSession, Settled, Starting
<1>4. QED
  BY <1>1, <1>2, <1>3, HoldTypeCorrect, PTL DEF Spec

=============================================================================
