---------------------------- MODULE HoldWatcher ----------------------------
(***************************************************************************)
(* The hold watcher of the primary hotkey (app/rust/src/hold_watcher.rs)   *)
(* with its callers in the bridge (app/rust/src/api/engine.rs): watch_hold *)
(* arms it, execute(Stop | Cancel) and the subscribe loop stop it, and the *)
(* polling task it spawns raises the hold gate, upgrades the session to    *)
(* quick and stops it on release.  The same calls and the same loop keep   *)
(* the global Esc guard (esc_guard.rs) armed while a session is active.    *)
(*                                                                         *)
(* HOLDING and GENERATION are atomics that several threads write one at a  *)
(* time, so each access is a step of its own.  The engine is what the      *)
(* watcher's commands meet: a state, the flags of the recording session,   *)
(* and the events the subscribe loop has not handled yet; module Engine    *)
(* has it in full.                                                         *)
(***************************************************************************)
EXTENDS Naturals, Sequences, FiniteSets

CONSTANTS
  MaxSession,   \* bound: sessions ever started
  MaxArms,      \* bound: calls of watch_hold
  MaxStops,     \* bound: no call stops a watch once GENERATION is this
  Overlap       \* recordings may end inside watch_hold or a watch's tick

ASSUME HoldAssumption ==
  MaxSession \in Nat /\ MaxArms \in Nat /\ MaxStops \in Nat /\ Overlap \in BOOLEAN

VARIABLES
  holding,     \* HOLDING
  generation,  \* GENERATION
  watches,     \* run_watch tasks not over yet, by the call that spawned them
  arm,         \* the call of watch_hold in flight
  call,        \* the execute(StartSession | StopSession | Cancel) in flight
  loop,        \* where the subscribe loop is in stop()
  armed,       \* ARMED: "yes", "no", or "taken back" by a start refused
  esc,         \* the hook has swallowed an Esc and spawned a cancel
  down,        \* the chord is physically down
  engine,      \* state, session number, and the session's quick, gate, pinned
  events,      \* state changes emitted and not handled by the loop
  phase,       \* the shell's phase: the last state the loop handed over
  arms         \* calls of watch_hold so far
bridge == <<arm, call, loop, arms>>
keys == <<armed, esc, down>>
vars == <<holding, generation, watches, bridge, keys, engine, events, phase>>

-----------------------------------------------------------------------------
(* The engine, as the watcher and its callers meet it *)

Recording == engine.state = "Recording"

\* A state change and the event that announces it.
Moves(to) ==
  /\ engine' = [engine EXCEPT !.state = to]
  /\ events' = Append(events, [from |-> engine.state, to |-> to])

Opens ==
  /\ engine' = [state |-> "Recording", sid |-> engine.sid + 1,
                quick |-> FALSE, gate |-> FALSE, pinned |-> FALSE]
  /\ events' = Append(events, [from |-> "Idle", to |-> "Recording"])

Quiet == UNCHANGED <<engine, events>>

\* Commands outside recording are rejected or silently ignored.
HoldGate(held) ==
  /\ engine' = IF Recording THEN [engine EXCEPT !.gate = held] ELSE engine
  /\ UNCHANGED events

MarkQuick ==
  /\ engine' = IF Recording /\ ~engine.pinned
               THEN [engine EXCEPT !.quick = TRUE] ELSE engine
  /\ UNCHANGED events

StopSession == IF Recording THEN Moves("Rectifying") ELSE Quiet

Cancel == IF engine.state = "Idle" THEN Quiet ELSE Moves("Idle")

-----------------------------------------------------------------------------
(* stop(): the store, then the bump *)

StopStores == holding' = FALSE

FaultyStopBumps == UNCHANGED generation

StopBumps == generation' = generation + 1

\* The task start() spawns; the START lock is the single arm in flight.
Watch(a) ==
  [id |-> arms, gen |-> a.gen, early |-> a.early, sid |-> a.sid, pc |-> "poll",
   live |-> FALSE, seen |-> FALSE, marked |-> FALSE, upgraded |-> FALSE]

FaultyArmLocks ==
  /\ arm.pc = "lock"
  /\ arm' = [arm EXCEPT !.pc = "load"]
  /\ UNCHANGED <<holding, generation, watches, call, loop, arms, keys, engine,
                 events, phase>>

\* A watch already running is left alone: a repeat of the same hold.
ArmLocks ==
  /\ arm.pc = "lock"
  /\ arm' = [arm EXCEPT !.pc = IF holding THEN "none" ELSE "load"]
  /\ UNCHANGED <<holding, generation, watches, call, loop, arms, keys, engine,
                 events, phase>>

ArmLoads ==
  /\ arm.pc = "load"
  /\ arm' = [arm EXCEPT !.pc = "store", !.gen = generation]
  /\ UNCHANGED <<holding, generation, watches, call, loop, arms, keys, engine,
                 events, phase>>

ArmSpawns ==
  /\ arm.pc = "store"
  /\ holding' = TRUE
  /\ watches' = watches \cup {Watch(arm)}
  /\ arm' = [arm EXCEPT !.pc = "none"]
  /\ UNCHANGED <<generation, call, loop, arms, keys, engine, events, phase>>

\* watch_hold asks the engine's state before it starts a watch.
ArmChecks ==
  /\ arm.pc = "check"
  /\ arm' = [arm EXCEPT !.pc = IF Recording THEN "lock" ELSE "none",
                        !.sid = engine.sid]
  /\ UNCHANGED <<holding, generation, watches, call, loop, arms, keys, engine,
                 events, phase>>

Arming == arm.pc # "none"

\* Between the accesses of one call of watch_hold, or of one tick of a watch,
\* the recording ends and its watch is stopped only with Overlap.
Undisturbed == Overlap \/ (~Arming /\ \A w \in watches : w.pc = "poll")

-----------------------------------------------------------------------------
(* The user and the shell *)

Arm(early) ==
  /\ ~Arming /\ arms < MaxArms
  /\ arms' = arms + 1
  /\ arm' = [pc |-> "check", early |-> early, gen |-> 0, sid |-> 0]

\* execute(StartSession) arms the guard before it asks the engine; the shell
\* presses on its phase, which may be behind.
Presses(op) ==
  /\ phase = "Idle" /\ call.pc = "none" /\ ~Arming
  /\ engine.sid < MaxSession
  /\ call' = [pc |-> "ask", op |-> op]
  /\ armed' = "yes"

\* The hotkey's start, after which its chord goes to the watcher; a repeat of
\* the chord while that is under way is swallowed.
HotkeyOpens ==
  /\ Presses("Hotkey")
  /\ down' = TRUE
  /\ UNCHANGED <<holding, generation, watches, arm, loop, arms, esc, engine, events, phase>>

\* The orb shares StartSession and starts no watch.
OrbOpens ==
  /\ Presses("Orb")
  /\ UNCHANGED <<holding, generation, watches, arm, loop, arms, esc, down, engine, events, phase>>

\* A press while recording: its release is the tap that stops.
HotkeyAgain ==
  /\ phase = "Recording" /\ call.pc = "none" /\ Arm(TRUE)
  /\ down' = TRUE
  /\ UNCHANGED <<holding, generation, watches, call, loop, armed, esc, engine,
                 events, phase>>

ChordMoves ==
  /\ down' = ~down
  /\ UNCHANGED <<holding, generation, watches, bridge, armed, esc, engine, events, phase>>

Pin ==
  /\ Recording /\ ~engine.quick /\ ~engine.pinned
  /\ engine' = [engine EXCEPT !.pinned = TRUE]
  /\ UNCHANGED <<holding, generation, watches, bridge, keys, events, phase>>

\* execute(StopSession | Cancel): stop the watch, then ask the engine.
CallStarts ==
  /\ call.pc = "none" /\ phase # "Idle" /\ Undisturbed
  /\ generation < MaxStops
  /\ \E op \in {"Stop", "Cancel"} :
       /\ op = "Stop" => phase = "Recording"
       /\ call' = [pc |-> "bump", op |-> op]
  /\ StopStores
  /\ UNCHANGED <<generation, watches, arm, loop, arms, keys, engine, events, phase>>

CallBumps ==
  /\ call.pc = "bump"
  /\ StopBumps
  /\ call' = [call EXCEPT !.pc = "ask"]
  /\ UNCHANGED <<holding, watches, arm, loop, arms, keys, engine, events, phase>>

CallAsks ==
  /\ call.pc = "ask" /\ call.op \in {"Stop", "Cancel"}
  /\ IF call.op = "Stop" THEN StopSession ELSE Cancel
  /\ call' = [call EXCEPT !.pc = "none"]
  /\ UNCHANGED <<holding, generation, watches, arm, loop, arms, keys, phase>>

\* A second start meets the session of the first one and is refused, no event
\* comes of it, and the arming is taken back.  A session opens over the watch
\* or the unread events of an earlier one only with Overlap.
StartAsks ==
  /\ call.pc = "ask" /\ call.op \in {"Hotkey", "Orb"}
  /\ Overlap \/ engine.state # "Idle" \/ (events = <<>> /\ loop = "none")
  /\ IF engine.state = "Idle" THEN Opens /\ UNCHANGED armed
     ELSE Quiet /\ armed' = "taken back"
  /\ call' = [call EXCEPT !.pc = "none"]
  /\ IF call.op = "Hotkey" /\ arms < MaxArms THEN Arm(FALSE) ELSE UNCHANGED <<arm, arms>>
  /\ UNCHANGED <<holding, generation, watches, loop, esc, down, phase>>

\* The hook swallows a bare Esc while it is armed and another program has the
\* keyboard, and spawns a cancel that names no session.
EscSwallowed ==
  /\ armed = "yes" /\ ~esc /\ Undisturbed
  /\ esc' = TRUE
  /\ UNCHANGED <<holding, generation, watches, bridge, armed, down, engine, events, phase>>

EscCancels ==
  /\ esc /\ Undisturbed
  /\ Cancel
  /\ esc' = FALSE
  /\ UNCHANGED <<holding, generation, watches, bridge, armed, down, phase>>

\* Silence ends an ungated recording; a rectified one is inserted.
EngineEnds ==
  /\ Undisturbed
  /\ \/ Recording /\ ~engine.gate /\ Moves("Rectifying")
     \/ engine.state = "Rectifying" /\ Moves("Idle")
  /\ UNCHANGED <<holding, generation, watches, bridge, keys, phase>>

-----------------------------------------------------------------------------
(* The subscribe loop *)

FaultyArms(state) == IF state = "Idle" THEN UNCHANGED armed ELSE armed' = "yes"
\* The state an event brings arms the guard, or disarms it.
Arms(state) == armed' = IF state = "Idle" THEN "no" ELSE "yes"

Handled == phase' = Head(events).to /\ events' = Tail(events)

LoopPasses ==
  /\ loop = "none" /\ events # <<>> /\ Head(events).from # "Recording"
  /\ Arms(Head(events).to) /\ Handled
  /\ UNCHANGED <<holding, generation, watches, bridge, esc, down, engine>>

LoopStops ==
  /\ loop = "none" /\ events # <<>> /\ Head(events).from = "Recording"
  /\ Undisturbed
  /\ Arms(Head(events).to) /\ StopStores /\ loop' = "bump"
  /\ UNCHANGED <<generation, watches, arm, call, arms, esc, down, engine, events, phase>>

LoopBumps ==
  /\ loop = "bump"
  /\ StopBumps /\ loop' = "none" /\ Handled
  /\ UNCHANGED <<holding, watches, arm, call, arms, keys, engine>>

-----------------------------------------------------------------------------
(* run_watch *)

StillLive(w) == holding /\ generation = w.gen

Becomes(w, v) == watches' = (watches \ {w}) \cup {v}
Goes(w, pc) == Becomes(w, [w EXCEPT !.pc = pc, !.live = FALSE])
Over(w) == watches' = watches \ {w}

Ending(w) == IF w.upgraded \/ w.early THEN "stop" ELSE "end"

FaultyRelease(w) == Ending(w)

\* release_tick: a raised gate comes down before the stop or the end.
Release(w) == IF w.seen THEN "lower" ELSE Ending(w)

\* One poll: step() on the chord's state; 400 ms of hold may have passed at
\* any poll after the first.
Poll(w) ==
  /\ w.pc = "poll"
  /\ CASE ~StillLive(w) -> Over(w)
       [] StillLive(w) /\ ~down -> Goes(w, Release(w))
       [] StillLive(w) /\ down /\ ~w.seen ->
            Becomes(w, [w EXCEPT !.seen = TRUE, !.pc = "raise"])
       [] OTHER -> ~w.marked /\ Becomes(w, [w EXCEPT !.marked = TRUE, !.pc = "mark"])
  /\ UNCHANGED <<holding, generation, bridge, keys, engine, events, phase>>

\* Before each command the watch asks whether it still lives.
Checks(w) ==
  /\ w.pc \in {"raise", "lower", "mark", "stop"} /\ ~w.live
  /\ IF StillLive(w) THEN Becomes(w, [w EXCEPT !.live = TRUE]) ELSE Over(w)
  /\ UNCHANGED <<holding, generation, bridge, keys, engine, events, phase>>

Raises(w) ==
  /\ w.pc = "raise" /\ w.live
  /\ HoldGate(TRUE) /\ Goes(w, "poll")
  /\ UNCHANGED <<holding, generation, bridge, keys, phase>>

Lowers(w) ==
  /\ w.pc = "lower" /\ w.live
  /\ HoldGate(FALSE) /\ Goes(w, Ending(w))
  /\ UNCHANGED <<holding, generation, bridge, keys, phase>>

FaultyMarks(w) ==
  /\ w.pc = "mark" /\ w.live
  /\ MarkQuick /\ Goes(w, "poll")
  /\ UNCHANGED <<holding, generation, bridge, keys, phase>>

\* Only a session the engine did upgrade is stopped by the release.
Marks(w) ==
  /\ w.pc = "mark" /\ w.live
  /\ MarkQuick
  /\ Becomes(w, [w EXCEPT !.pc = "poll", !.live = FALSE,
                          !.upgraded = engine'.quick])
  /\ UNCHANGED <<holding, generation, bridge, keys, phase>>

\* HOLDING goes down before the command; the task is over after it.
StopsHolding(w) ==
  /\ w.pc = "stop" /\ w.live
  /\ holding' = FALSE
  /\ Goes(w, "asked")
  /\ UNCHANGED <<generation, bridge, keys, engine, events, phase>>

StopsSession(w) ==
  /\ w.pc = "asked"
  /\ StopSession /\ Over(w)
  /\ UNCHANGED <<holding, generation, bridge, keys, phase>>

\* The end of a watch that stops nothing is not checked again.
Ends(w) ==
  /\ w.pc = "end"
  /\ holding' = FALSE /\ Over(w)
  /\ UNCHANGED <<generation, bridge, keys, engine, events, phase>>

WatchStep(w) ==
  \/ Poll(w) \/ Checks(w)
  \/ Raises(w) \/ Lowers(w) \/ Marks(w)
  \/ StopsHolding(w) \/ StopsSession(w) \/ Ends(w)

ArmStep == ArmChecks \/ ArmLocks \/ ArmLoads \/ ArmSpawns
CallStep == CallBumps \/ CallAsks \/ StartAsks
EscStep == EscSwallowed \/ EscCancels
LoopStep == LoopPasses \/ LoopStops \/ LoopBumps
UserStep == HotkeyOpens \/ HotkeyAgain \/ OrbOpens \/ ChordMoves \/ Pin
            \/ CallStarts

Init ==
  /\ holding = FALSE /\ generation = 0 /\ watches = {}
  /\ arm = [pc |-> "none", early |-> FALSE, gen |-> 0, sid |-> 0]
  /\ call = [pc |-> "none", op |-> "Stop"] /\ loop = "none" /\ arms = 0
  /\ armed = "no" /\ esc = FALSE /\ down = FALSE
  /\ engine = [state |-> "Idle", sid |-> 0, quick |-> FALSE, gate |-> FALSE,
               pinned |-> FALSE]
  /\ events = <<>> /\ phase = "Idle"

Next ==
  \/ UserStep \/ EscStep \/ EngineEnds \/ ArmStep \/ CallStep \/ LoopStep
  \/ \E w \in watches : WatchStep(w)

Spec == Init /\ [][Next]_vars

\* The runtime polls every task and every call runs on; the user, and the
\* silence that ends a recording, owe nothing.
Fairness ==
  /\ WF_vars(ArmStep) /\ WF_vars(CallStep) /\ WF_vars(LoopStep)
  /\ \A n \in 1 .. MaxArms :
       WF_vars(\E w \in watches : w.id = n /\ WatchStep(w))

FairSpec == Spec /\ Fairness

-----------------------------------------------------------------------------
Settled == ~Arming /\ call.pc = "none" /\ loop = "none"

\* "Whether a watch is live": with no call and no stop under way, HOLDING is
\* set exactly while one task still polls for it.  A HOLDING that no task
\* backs swallows every press of the hotkey.
HoldingMeansWatch ==
  Settled => LET polling == {w \in watches : StillLive(w) /\ w.pc # "asked"}
             IN /\ holding => polling # {}
                /\ Cardinality(polling) <= 1

\* "The watch belongs to one Recording": the commands of a watch change no
\* session but the one it was armed in.
WatchOwnsItsSession ==
  [][\A w \in watches :
       Raises(w) \/ Lowers(w) \/ Marks(w) \/ StopsSession(w) =>
         engine' = engine \/ w.sid = engine.sid]_vars

\* A gate nobody will lower keeps the silence from ever ending the recording:
\* a raised gate has a live watch that lowers it, or a call under way that
\* ends the session.
GateHasOwner ==
  Recording /\ engine.gate =>
    \/ \E w \in watches : w.sid = engine.sid
                          /\ (StillLive(w) \/ w.pc \in {"asked"})
    \/ call.pc # "none"

\* "A confirmed upgrade always stops on release": once the chord is let go
\* for good, an upgraded session leaves Recording.
QuickStopsOnRelease ==
  <>[]~down => (Recording /\ engine.quick ~> ~Recording \/ ~engine.quick)

\* "While a session is active, a bare Esc cancels it", and "an armed guard at
\* idle would eat a stranger's Esc": once every event is handled the guard is
\* armed exactly while a session is active, whatever starts, ends and refusals
\* raced the loop, short of a start refused since the last state change.
GuardFollowsSession ==
  Settled /\ events = <<>> =>
    /\ engine.state = "Idle" => armed # "yes"
    /\ engine.state # "Idle" => armed # "no"
=============================================================================
