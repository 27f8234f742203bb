------------------------------- MODULE Store -------------------------------
(***************************************************************************)
(* The business store (crates/store/src): its opening with the one-time    *)
(* migration of the three old files (schema.rs, migration.rs), the session *)
(* history under its retention and keep-nothing policy (store.rs), and the *)
(* two libraries (Library.tla), behind the calls of app/rust/src/store.rs  *)
(* and api/history.rs, api/library.rs.                                     *)
(*                                                                         *)
(* The policy and the connection have a lock each and no call holds both:  *)
(* the engine's recorder, the panel's list and the settings' call are      *)
(* processes that stop between two lock regions.  A statement or a         *)
(* transaction is one step.  The program may be killed at any step; what   *)
(* was committed stays.  There is one place the database may live.         *)
(***************************************************************************)
EXTENDS Library

CONSTANTS
  OldFiles,    \* what the three old files may hold at first
  Names,       \* scenario names an editor may enter
  Words,       \* terms
  Retentions,  \* retention periods the settings offer
  MaxNow,      \* bound: the clock
  MaxRecords,  \* bound: sessions recorded
  MaxSettings, \* bound: calls of the history settings
  MaxEdits,    \* bound: edits of the two libraries
  MaxCrashes   \* bound: runs that are killed

\* The old history is a table with a key of its own, the other old files are
\* lines; one of the retention periods is the longest; as many rows as there
\* are names fit an editor.
ASSUME StoreAssumption ==
  /\ IsFiniteSet(Names)
  /\ Retentions \subseteq Nat \ {0} /\ \E r \in Retentions : \A q \in Retentions : r >= q
  /\ \A f \in OldFiles :
       /\ \A s \in f.sessions : s.id \in Nat \ {0} /\ s.at \in Nat
       /\ IsFiniteSet(f.sessions)
       /\ \A s, r \in f.sessions : s.id = r.id => s = r
       /\ \A lines \in {f.terms, f.scenarios} : lines \in Seq(Range(lines))
  /\ {MaxNow, MaxRecords, MaxSettings, MaxEdits, MaxCrashes} \subseteq Nat

\* A name an editor may enter says something, and is none of those a save gives
\* rows for the time being.
ASSUME NamesAssumption ==
  /\ Names \cap {"stash", Blank} = {}
  /\ \A f \in OldFiles : "stash" \notin Range(f.scenarios)

VARIABLES
  old,     \* the old files: sessions and whether they can be read, terms, scenarios
  disk,    \* the database file
  mem,     \* the database of a run that could not open the file
  home,    \* which of the two this run works on
  run,     \* closed, opening, deleting the old files, settling, open
  file,    \* the history settings in the configuration file
  policy,  \* Store::policy
  rec, list, set,  \* the recorder, the panel's list, the settings' call
  now,     \* the wall clock
  ghost,   \* sessions and scenarios so far, policy switches, sessions removed,
           \* and the old files as they were
  settings, edits, records, crashes
calls == <<rec, list, set>>
bounds == <<settings, edits, records, crashes>>
vars == <<old, disk, mem, home, run, file, policy, calls, now, ghost, bounds>>

Empty == [version |-> 0, sessions |-> {}, slots |-> {}, terms |-> {}, scenarios |-> {}]
Configs == [enabled : BOOLEAN, retention : Retentions]

Tables == IF home = "disk" THEN disk ELSE mem
Writes(tables) == IF home = "disk" THEN disk' = tables /\ mem' = mem
                                   ELSE mem' = tables /\ disk' = disk

Idle == [pc |-> "idle"]

Init ==
  /\ old \in OldFiles /\ disk = Empty /\ mem = Empty /\ home = "disk"
  /\ run = "closed"
  /\ file = [enabled |-> TRUE, retention |-> CHOOSE r \in Retentions : \A q \in Retentions : r >= q]
  /\ policy = file
  /\ rec = Idle /\ list = Idle /\ set = Idle /\ now = 1
  /\ ghost = [serial |-> NewId(old.sessions) - 1, born |-> 0, switch |-> 0, removed |-> {},
              first |-> old]
  /\ settings = 0 /\ edits = 0 /\ records = 0 /\ crashes = 0

-----------------------------------------------------------------------------
(* Rows *)

\* Foreign keys: a session takes its slots with it and is forgotten as a source.
Without(tables, gone) ==
  [tables EXCEPT
     !.sessions = {[s EXCEPT !.src = IF \E g \in gone : g.id = @ THEN 0 ELSE @] : s \in @ \ gone},
     !.slots = {p \in @ : \A g \in gone : g.id # p.session}]

Removes(gone) ==
  /\ Writes(Without(Tables, gone))
  /\ ghost' = [ghost EXCEPT !.removed = @ \cup {s.serial : s \in gone}]

\* retention_ms and the cutoff, read under the policy's lock.
Cutoff == IF now > policy.retention THEN now - policy.retention ELSE 0

Expired(cutoff) == {s \in Tables.sessions : s.at <= cutoff}

\* Faulty: foreign keys are off, as SQLite has them when nobody asks.
FaultyForget(tables, kept) == tables

\* Foreign keys: a scenario that goes leaves its sessions without one.
Forget(tables, kept) ==
  [tables EXCEPT !.sessions = {[s EXCEPT !.scen = IF @ \in kept THEN @ ELSE 0] : s \in @}]

-----------------------------------------------------------------------------
(* Opening *)

\* read_legacy_sessions: rows the schema would refuse are dropped, and of a
\* file that cannot be read none is taken.
LegacyRows(files) ==
  {[id |-> s.id, at |-> s.at, scen |-> 0, src |-> 0, serial |-> s.id, ran |-> 0, late |-> FALSE] :
     s \in {r \in files.sessions : files.readable /\ ~r.blank}}

Migrated ==
  [version |-> 1, slots |-> {},
   sessions |-> LegacyRows(old),
   terms |-> LoadTerms(old.terms), scenarios |-> LoadScenarios(old.scenarios, ghost.born)]

\* peek_terms: what the command line tool reads without opening the store.
Peeked == Texts(IF disk.version = 1 THEN disk.terms ELSE LoadTerms(old.terms))

\* open_store: the settings of the file, then the database.
Launches ==
  /\ run = "closed"
  /\ run' = "opening" /\ policy' = file
  /\ UNCHANGED <<old, disk, mem, home, file, calls, now, ghost, bounds>>

\* Faulty: the version is not stamped.
FaultyMigrates ==
  /\ run = "opening" /\ disk.version = 0
  /\ disk' = [Migrated EXCEPT !.version = 0] /\ run' = "deleting"
  /\ ghost' = [ghost EXCEPT !.born = @ + Cardinality(Migrated.scenarios)]
  /\ UNCHANGED <<old, mem, home, file, policy, calls, now, bounds>>

\* init_or_migrate behind its gate: schema, rows and version in one commit.
Migrates ==
  /\ run = "opening" /\ disk.version = 0
  /\ disk' = Migrated /\ run' = "deleting"
  /\ ghost' = [ghost EXCEPT !.born = @ + Cardinality(Migrated.scenarios)]
  /\ UNCHANGED <<old, mem, home, file, policy, calls, now, bounds>>

\* delete_legacy_files: one after the other; nothing reads what it leaves behind.
DeletesOld ==
  /\ run = "deleting"
  /\ old' = CASE old.sessions # {} -> [old EXCEPT !.sessions = {}]
              [] old.sessions = {} /\ old.terms # <<>> -> [old EXCEPT !.terms = <<>>]
              [] OTHER -> [old EXCEPT !.scenarios = <<>>]
  /\ UNCHANGED <<disk, mem, home, run, file, policy, calls, now, ghost, bounds>>

Opens ==
  /\ run = "deleting" \/ (run = "opening" /\ disk.version = 1)
  /\ run' = "settling"
  /\ UNCHANGED <<old, disk, mem, home, file, policy, calls, now, ghost, bounds>>

\* No directory can be written, or anything fails on the way: the run goes on
\* without the file, and what was not committed is as it was.
OpenFails ==
  /\ run \in {"opening", "settling"} /\ home = "disk"
  /\ home' = "memory" /\ mem' = [Empty EXCEPT !.version = 1] /\ run' = "settling"
  /\ UNCHANGED <<old, disk, file, policy, calls, now, ghost, bounds>>

\* connect: swept, or cleared under keep-nothing.
Settles ==
  /\ run = "settling" /\ run' = "open"
  /\ Removes(IF policy.enabled THEN Expired(Cutoff) ELSE Tables.sessions)
  /\ UNCHANGED <<old, home, file, policy, calls, now, bounds>>

\* The program is killed, or quits.
Stops ==
  /\ run # "closed" /\ crashes < MaxCrashes
  /\ run' = "closed" /\ mem' = Empty /\ home' = "disk" /\ crashes' = crashes + 1
  /\ rec' = Idle /\ list' = Idle /\ set' = Idle
  /\ policy' = file
  /\ UNCHANGED <<old, disk, file, now, ghost, settings, edits, records>>

Ticks ==
  /\ now < MaxNow /\ now' = now + 1
  /\ UNCHANGED <<old, disk, mem, home, run, file, policy, calls, ghost, bounds>>

-----------------------------------------------------------------------------
(* The recorder *)

Same == UNCHANGED <<old, home, run, file, now, crashes>>

\* record looks at the switch and lets the policy go.
Records ==
  /\ run = "open" /\ rec = Idle /\ records < MaxRecords
  /\ \E name \in Names \cup {"none"}, src \in {0, 1} :
       rec' = IF policy.enabled
              THEN [pc |-> "sweep", name |-> name, src |-> src, switch |-> ghost.switch]
              ELSE Idle
  /\ records' = records + 1
  /\ Same /\ UNCHANGED <<disk, mem, policy, list, set, ghost, settings, edits>>

RecordSweeps ==
  /\ rec.pc = "sweep"
  /\ rec' = [pc |-> "delete", name |-> rec.name, src |-> rec.src, switch |-> rec.switch,
             cutoff |-> Cutoff]
  /\ Same /\ UNCHANGED <<disk, mem, policy, list, set, ghost, settings, edits, records>>

RecordDeletes ==
  /\ rec.pc = "delete" /\ rec' = [rec EXCEPT !.pc = "insert"]
  /\ Removes(Expired(rec.cutoff))
  /\ Same /\ UNCHANGED <<policy, list, set, settings, edits, records>>

\* insert_session: the name and the source are resolved now, the slots ride along.
Inserted ==
  LET scen == {s \in Tables.scenarios : s.name = rec.name}
      row == [id |-> NewId(Tables.sessions), at |-> now,
              scen |-> IF scen = {} THEN 0 ELSE (CHOOSE s \in scen : TRUE).id,
              src |-> IF \E s \in Tables.sessions : s.id = rec.src THEN rec.src ELSE 0,
              serial |-> ghost.serial + 1,
              ran |-> IF scen = {} THEN 0 ELSE (CHOOSE s \in scen : TRUE).born,
              late |-> rec.switch # ghost.switch]
  IN  [Tables EXCEPT !.sessions = @ \cup {row},
                     !.slots = @ \cup {[session |-> row.id, of |-> row.serial]}]

RecordInserts ==
  /\ rec.pc = "insert" /\ rec' = Idle
  /\ Writes(Inserted) /\ ghost' = [ghost EXCEPT !.serial = @ + 1]
  /\ Same /\ UNCHANGED <<policy, list, set, settings, edits, records>>

-----------------------------------------------------------------------------
(* The panel and the settings *)

\* list sweeps first, then reads.
Lists ==
  /\ run = "open" /\ list = Idle
  /\ list' = [pc |-> "delete", since |-> now, cutoff |-> Cutoff]
  /\ Same /\ UNCHANGED <<disk, mem, policy, rec, set, ghost, settings, edits, records>>

ListDeletes ==
  /\ list.pc = "delete" /\ list' = [list EXCEPT !.pc = "read"]
  /\ Removes(Expired(list.cutoff))
  /\ Same /\ UNCHANGED <<policy, rec, set, settings, edits, records>>

ListReads ==
  /\ list.pc = "read" /\ list' = Idle
  /\ Same /\ UNCHANGED <<disk, mem, policy, rec, set, ghost, settings, edits, records>>

Adjusts == /\ run = "open" /\ settings < MaxSettings /\ settings' = settings + 1
           /\ UNCHANGED edits

\* history_clear.
Clears ==
  /\ Adjusts /\ Removes(Tables.sessions)
  /\ Same /\ UNCHANGED <<policy, calls, records>>

\* set_history_config: the file first.
SetsHistory ==
  /\ Adjusts /\ set = Idle
  /\ \E c \in Configs : file' = c /\ set' = [pc |-> "apply", config |-> c]
  /\ UNCHANGED <<old, disk, mem, home, run, policy, rec, list, now, ghost, records, crashes>>

\* apply_config: the policy under its lock, then the rows.
Applies ==
  /\ set.pc = "apply"
  /\ policy' = set.config /\ ghost' = [ghost EXCEPT !.switch = @ + 1]
  /\ set' = [pc |-> IF set.config.enabled THEN "sweep" ELSE "clear"]
  /\ Same /\ UNCHANGED <<disk, mem, rec, list, settings, edits, records>>

ApplySweeps ==
  /\ set.pc = "sweep" /\ set' = [pc |-> "delete", cutoff |-> Cutoff]
  /\ Same /\ UNCHANGED <<disk, mem, policy, rec, list, ghost, settings, edits, records>>

ApplyDeletes ==
  /\ set.pc = "delete" /\ set' = Idle /\ Removes(Expired(set.cutoff))
  /\ Same /\ UNCHANGED <<policy, rec, list, settings, edits, records>>

\* Faulty: keep-nothing only stops what comes.
FaultyApplyClears ==
  /\ set.pc = "clear" /\ set' = Idle
  /\ Same /\ UNCHANGED <<disk, mem, policy, rec, list, ghost, settings, edits, records>>

ApplyClears ==
  /\ set.pc = "clear" /\ set' = Idle /\ Removes(Tables.sessions)
  /\ Same /\ UNCHANGED <<policy, rec, list, settings, edits, records>>

-----------------------------------------------------------------------------
(* The libraries *)

Edits == run = "open" /\ edits < MaxEdits /\ edits' = edits + 1 /\ UNCHANGED settings

EditsTerms ==
  /\ Edits
  /\ \E w, v \in Words :
       \E result \in {AppendTerm(Tables.terms, w), RemoveTerm(Tables.terms, w),
                      UpdateTerm(Tables.terms, w, v)} :
         result.ok /\ Writes([Tables EXCEPT !.terms = result.table])
  /\ Same /\ UNCHANGED <<policy, calls, ghost, records>>

\* What the editor may send: rows it knows, at most once each, and new ones, and
\* of their directives whether there is one.
Payloads ==
  LET ids == {s.id : s \in Tables.scenarios} IN
  {p \in UNION {[1..n -> [id : ids \cup {0}, name : Names, directive : {"said", Blank}]] : n \in 0..Cardinality(Names)} :
     \A i, j \in DOMAIN p : p[i].id = p[j].id => i = j \/ p[i].id = 0}

EditsScenarios ==
  /\ Edits
  /\ \E entries \in Payloads :
       LET result == SaveScenarios(Tables.scenarios, entries, ghost.born) IN
       /\ result.ok
       /\ Writes([Forget(Tables, Kept(entries)) EXCEPT !.scenarios = result.table])
  /\ ghost' = [ghost EXCEPT !.born = @ + Cardinality(Names)]
  /\ Same /\ UNCHANGED <<policy, calls, records>>

Next == \/ Launches \/ Migrates \/ DeletesOld \/ Opens \/ OpenFails \/ Settles \/ Stops \/ Ticks
        \/ Records \/ RecordSweeps \/ RecordDeletes \/ RecordInserts
        \/ Lists \/ ListDeletes \/ ListReads \/ Clears
        \/ SetsHistory \/ Applies \/ ApplySweeps \/ ApplyDeletes \/ ApplyClears
        \/ EditsTerms \/ EditsScenarios

Spec == Init /\ [][Next]_vars

-----------------------------------------------------------------------------
\* Under keep-nothing the table holds no session but one whose recording had
\* passed its look at the switch before the switch was thrown; and whatever
\* runs beside it, a list never reads a session past the retention in force.
KeepsNothing ==
  run = "open" /\ ~policy.enabled /\ set.pc # "clear" => \A s \in Tables.sessions : s.late

ShowsNothingExpired ==
  list.pc = "read" /\ set = Idle => \A s \in Tables.sessions : s.at + policy.retention > list.since

\* The policy holds at every moment: nothing is kept that it forbids, and nothing is
\* shown that it has let expire (Store::record, list, apply_config).
PolicyHolds == KeepsNothing /\ ShowsNothingExpired

\* A session keeps the scenario it ran under through renames and reorders and
\* loses it only with the scenario.
ScenariosFollow ==
  \A s \in Tables.sessions :
    /\ s.scen # 0 => \E c \in Tables.scenarios : c.id = s.scen /\ c.born = s.ran
    /\ s.scen = 0 => \A c \in Tables.scenarios : c.born # s.ran

\* No slot is handed to another session that was given the same id later, and
\* a source is a session that is there.
SlotsFollow ==
  /\ \A s \in Tables.sessions : s.src # 0 => \E t \in Tables.sessions : t.id = s.src
  /\ \A p \in Tables.slots : \E s \in Tables.sessions : s.id = p.session /\ s.serial = p.of

\* Whatever is deleted, renamed or given an old id again, a session's
\* references lead where they led when it was recorded, or nowhere.
ReferencesFollow == ScenariosFollow /\ SlotsFollow

\* However often the program is killed on the way, the old files are untouched
\* until their rows are in the database; from then on each of their sessions is
\* there, unless it was removed, and one that was removed never comes back; and
\* the command line tool reads one dictionary before, on the way and after.
LegacySettled ==
  LET there == {s.serial : s \in disk.sessions} IN
  /\ disk.version = 0 => old = ghost.first
  /\ disk.version = 1 =>
       \A s \in LegacyRows(ghost.first) : s.serial \in there \cup ghost.removed
  /\ there \cap ghost.removed = {}
  /\ edits = 0 => Peeked = Texts(LoadTerms(ghost.first.terms))

\* Between calls terms and scenarios stand one per place, and an editor's model with a name of
\* its own and a directive for every row is never refused, whatever names it swaps.
LibrariesHold ==
  <<rec, list, set>> = <<Idle, Idle, Idle>> =>
  /\ InOrder(Tables.terms, Tables.scenarios)
  /\ \A p \in Payloads :
       (/\ \A i, j \in DOMAIN p : p[i].name = p[j].name => i = j
        /\ \A i \in DOMAIN p : p[i].directive # Blank) =>
         LET result == SaveScenarios(Tables.scenarios, p, ghost.born) IN
         /\ result.ok
         /\ \A i \in DOMAIN p : \E s \in result.table :
              s.name = p[i].name /\ s.pos = i - 1 /\ p[i].id \in {0, s.id}
=============================================================================
