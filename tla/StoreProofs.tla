---------------------------- MODULE StoreProofs ----------------------------
(***************************************************************************)
(* Theorems of Store, for any old files, retention periods, names and      *)
(* terms and any bounds: the history policy holds at every moment, however *)
(* the recorder, the list and the settings call interleave; the migration  *)
(* loses nothing and brings nothing back, however often the program is     *)
(* killed; no slot is handed to a stranger; no history row and no slot     *)
(* names a scenario it was not made for, whatever is saved or forgotten;   *)
(* and both libraries stay in order, whatever an editor saves.             *)
(***************************************************************************)
EXTENDS Store, FiniteSetTheorems, SequenceTheorems, WellFoundedInduction, TLAPS

-----------------------------------------------------------------------------
(* The tables and the calls in progress *)

IsRow(s) ==
  /\ s = [id |-> s.id, at |-> s.at, scen |-> s.scen, src |-> s.src, serial |-> s.serial,
          ran |-> s.ran, late |-> s.late]
  /\ s.id \in Nat /\ s.at \in Nat /\ s.serial \in Nat

IsTables(t) ==
  /\ t = [version |-> t.version, sessions |-> t.sessions, slots |-> t.slots,
          terms |-> t.terms, scenarios |-> t.scenarios]
  /\ IsFiniteSet(t.sessions) /\ \A s \in t.sessions : IsRow(s)

Recs == {Idle} \cup [pc : {"sweep"}, name : Names \cup {"none"}, src : {0, 1}, switch : Nat]
          \cup [pc : {"delete", "insert"}, name : Names \cup {"none"}, src : {0, 1},
                switch : Nat, cutoff : Nat]
ListCalls == {Idle} \cup [pc : {"delete", "read"}, since : Nat, cutoff : Nat]
SetCalls == {Idle} \cup [pc : {"apply"}, config : Configs] \cup [pc : {"sweep", "clear"}]
              \cup [pc : {"delete"}, cutoff : Nat]

GhostType ==
  /\ ghost = [serial |-> ghost.serial, born |-> ghost.born, switch |-> ghost.switch,
              removed |-> ghost.removed, first |-> ghost.first]
  /\ ghost.serial \in Nat /\ ghost.switch \in Nat /\ ghost.first \in OldFiles

\* What each phase of a run knows of the file: a call runs only while the store
\* is open, and the store opens the file only when the migration is in it.
Phases ==
  /\ run \in {"closed", "opening", "deleting", "settling", "open"}
  /\ home \in {"disk", "memory"}
  /\ run # "open" => rec = Idle /\ list = Idle /\ set = Idle
  /\ run \in {"closed", "opening", "deleting"} => home = "disk"
  /\ home = "disk" /\ run \in {"deleting", "settling", "open"} => disk.version = 1
  /\ disk.version \in {0, 1}
  /\ disk.version = 0 => disk = Empty /\ old = ghost.first

StoreType ==
  /\ file \in Configs /\ policy \in Configs /\ now \in Nat
  /\ IsTables(disk) /\ IsTables(mem) /\ GhostType
  /\ rec \in Recs /\ list \in ListCalls /\ set \in SetCalls
  /\ Phases

-----------------------------------------------------------------------------
(* The policy *)

\* A recording that has passed the switch in force runs under a policy that keeps.
Switched == rec # Idle => /\ rec.switch <= ghost.switch
                          /\ rec.switch = ghost.switch => policy.enabled

\* Keep-nothing leaves late rows only, once it has cleared the table.
LateOk(s) == run = "open" /\ ~policy.enabled /\ set.pc # "clear" => s.late

\* A row that survives the deletions a list and a change of the policy have
\* still to make is not expired under the policy in force; between the switch
\* and the look at the clock nothing is known.
Survives(at) == /\ list.pc = "delete" => at > list.cutoff
                /\ set.pc = "delete" => at > set.cutoff
FreshOk(at) ==
  list # Idle /\ set.pc \in {"idle", "apply", "delete"} /\ Survives(at) =>
    at + policy.retention > list.since

PolicyInv ==
  /\ Switched /\ (list # Idle => list.since <= now)
  /\ \A s \in Tables.sessions : LateOk(s) /\ FreshOk(s.at)

-----------------------------------------------------------------------------
(* The migration *)

Newest(f) == NewId(f.sessions) - 1

Numbered(sessions) ==
  /\ \A s \in sessions : s.serial <= ghost.serial
  /\ \A s, r \in sessions : s.serial = r.serial => s = r

LegacyInv ==
  /\ edits \in Nat
  /\ Newest(ghost.first) \in Nat /\ Newest(ghost.first) <= ghost.serial
  /\ Numbered(disk.sessions) /\ Numbered(mem.sessions)
  /\ \A s \in disk.sessions, r \in mem.sessions : s.serial # r.serial
  /\ \A r \in mem.sessions : r.serial > Newest(ghost.first)
  /\ \A n \in ghost.removed : n \in Nat /\ n <= ghost.serial
  /\ disk.version = 0 => \A n \in ghost.removed : n > Newest(ghost.first)
  /\ \A s \in disk.sessions : s.serial \notin ghost.removed
  /\ disk.version = 1 =>
       \A s \in LegacyRows(ghost.first) :
         s.serial \in {r.serial : r \in disk.sessions} \cup ghost.removed
  /\ disk.version = 1 /\ edits = 0 => disk.terms = LoadTerms(ghost.first.terms)

-----------------------------------------------------------------------------
(* References *)

\* One row per id, and every reference to a row that is there.
Linked(t) ==
  /\ \A s, r \in t.sessions : s.id = r.id => s = r
  /\ \A s \in t.sessions : s.src # 0 => \E r \in t.sessions : r.id = s.src
  /\ \A p \in t.slots : \E s \in t.sessions : s.id = p.session /\ s.serial = p.of

LinkInv == Linked(disk) /\ Linked(mem)

-----------------------------------------------------------------------------
(* New ids *)

\* A finite set of numbers has a largest one: else take one with the fewest
\* members that has none, and leave a member out.
LEMMA LargestExists ==
  ASSUME NEW S \in SUBSET Nat, IsFiniteSet(S), S # {}
  PROVE  \E m \in S : \A i \in S : m >= i
<1> DEFINE Bad(T) == /\ IsFiniteSet(T) /\ T # {}
                     /\ ~ \E m \in T : \A i \in T : m >= i
           Sizes  == {n \in Nat : \E T \in SUBSET Nat : Bad(T) /\ Cardinality(T) = n}
<1> SUFFICES ASSUME Bad(S)
             PROVE  FALSE
  OBVIOUS
<1>1. Sizes # {} /\ Sizes \subseteq Nat
  BY FS_CardinalityType
<1>2. PICK n \in Sizes : \A k \in Sizes : ~(<<k, n>> \in OpToRel(<, Nat))
  <2> HIDE DEF Sizes
  <2>1. QED
    BY <1>1, NatLessThanWellFounded, WFMin
<1>3. n \in Nat /\ \A k \in Sizes : ~(k < n)
  <2> HIDE DEF Sizes
  <2>1. QED
    BY <1>1, <1>2 DEF OpToRel
<1>4. PICK T \in SUBSET Nat : Bad(T) /\ Cardinality(T) = n
  OBVIOUS
<1>5. PICK x \in T : TRUE
  BY <1>4
<1> DEFINE R == T \ {x}
<1>6. IsFiniteSet(R) /\ Cardinality(R) = Cardinality(T) - 1 /\ Cardinality(R) \in Nat
  BY <1>4, <1>5, FS_RemoveElement, FS_CardinalityType
<1>7. R # {}
  BY <1>4, <1>5
<1>8. ~Bad(R)
  <2>1. Cardinality(R) < n
    BY <1>3, <1>4, <1>6
  <2>2. Cardinality(R) \notin Sizes
    <3> HIDE DEF Sizes
    <3>1. QED
      BY <1>3, <2>1
  <2>3. QED
    BY <1>6, <2>2
<1>9. PICK m \in R : \A i \in R : m >= i
  BY <1>6, <1>7, <1>8
<1>10. m \in Nat /\ x \in Nat /\ m \in T
  BY <1>5
<1>11. CASE m >= x
  BY <1>4, <1>9, <1>10, <1>11
<1>12. CASE x > m
  <2>1. ASSUME NEW i \in T
        PROVE  x >= i
    <3>1. CASE i = x
      BY <1>10, <3>1
    <3>2. CASE i # x
      <4>1. m >= i /\ i \in Nat
        BY <1>9, <3>2
      <4>2. QED
        BY <1>10, <1>12, <4>1
    <3>3. QED
      BY <3>1, <3>2
  <2>2. QED
    BY <1>4, <1>5, <2>1
<1>13. QED
  BY <1>10, <1>11, <1>12

\* A new row's id is above every id of the table.
LEMMA NewIdIsNew ==
  ASSUME NEW rows, IsFiniteSet(rows), \A r \in rows : r.id \in Nat
  PROVE  NewId(rows) \in Nat \ {0} /\ \A r \in rows : r.id < NewId(rows)
<1> DEFINE T == {r.id : r \in rows}
           S == T \cup {0}
           f == [r \in rows |-> r.id]
<1>1. S \in SUBSET Nat /\ S # {}
  OBVIOUS
<1>2. IsFiniteSet(S)
  <2>1. f \in Surjection(rows, T)
    BY DEF Surjection
  <2>2. IsFiniteSet(T)
    BY <2>1, FS_Surjection
  <2>3. QED
    BY <2>2, FS_AddElement
<1>3. PICK m \in S : \A i \in S : m >= i
  <2> HIDE DEF S
  <2>1. QED
    BY <1>1, <1>2, LargestExists
<1>4. Max(S) \in S /\ \A i \in S : Max(S) >= i
  BY <1>3 DEF Max
<1>5. NewId(rows) = 1 + Max(S)
  BY DEF NewId
<1>6. \A r \in rows : r.id \in S /\ r.id \in Nat
  OBVIOUS
<1>7. Max(S) \in Nat
  <2> HIDE DEF S
  <2>1. QED
    BY <1>1, <1>4
<1> HIDE DEF S, T
<1>8. ASSUME NEW r \in rows
      PROVE  r.id < NewId(rows)
  <2>1. r.id \in Nat /\ Max(S) >= r.id
    BY <1>4, <1>6
  <2>2. QED
    BY <1>5, <1>7, <2>1
<1>9. QED
  BY <1>5, <1>7, <1>8

-----------------------------------------------------------------------------
(* What a statement makes of the rows *)

\* The same session, whatever it refers to.
Like(r, s) == /\ r.id = s.id /\ r.at = s.at /\ r.serial = s.serial /\ r.late = s.late

\* What is left of some rows: one for each.
SameRows(left, rows) ==
  /\ \A r, q \in left : \E s, u \in rows : Like(r, s) /\ Like(q, u) /\ (s = u => r = q)
  /\ \A s \in rows : \E r \in left : Like(r, s)

\* A row whose source is rewritten is the same session.
LEMMA RowLeft ==
  ASSUME NEW s, IsRow(s), NEW src
  PROVE  LET r == [s EXCEPT !.src = src] IN IsRow(r) /\ Like(r, s) /\ r.src = src
BY DEF IsRow, Like

\* A row whose scenario is rewritten is the same session.
LEMMA RowFreed ==
  ASSUME NEW s, IsRow(s), NEW scen
  PROVE  LET r == [s EXCEPT !.scen = scen] IN IsRow(r) /\ Like(r, s) /\ r.src = s.src
BY DEF IsRow, Like

HasShape(t) == t = [version |-> t.version, sessions |-> t.sessions, slots |-> t.slots,
                    terms |-> t.terms, scenarios |-> t.scenarios]

\* The session of a slot stays.
Spared(p, gone) == \A g \in gone : g.id # p.session

\* A deletion takes its rows and lets the others be, but for their references.
LEMMA RowsLeft ==
  ASSUME NEW t, IsTables(t), NEW gone
  PROVE  LET w == Without(t, gone)
         IN  /\ IsTables(w) /\ w.version = t.version /\ w.terms = t.terms
             /\ SameRows(w.sessions, t.sessions \ gone)
             /\ \A r \in w.sessions : r.src # 0 =>
                  /\ \A g \in gone : g.id # r.src
                  /\ \E s \in t.sessions : s.src = r.src
             /\ \A p \in w.slots : p \in t.slots /\ Spared(p, gone)
<1> DEFINE Row(s)   == [s EXCEPT !.src = IF \E g \in gone : g.id = s.src THEN 0 ELSE s.src]
           sessions == {Row(s) : s \in t.sessions \ gone}
           slots    == {p \in t.slots : \A g \in gone : g.id # p.session}
           w        == Without(t, gone)
<1>1. \A s \in t.sessions \ gone :
         /\ IsRow(Row(s)) /\ Like(Row(s), s)
         /\ Row(s).src = IF \E g \in gone : g.id = s.src THEN 0 ELSE s.src
  BY RowLeft DEF IsTables
<1>2. w = [t EXCEPT !.sessions = sessions, !.slots = slots]
  <2>1. \A s \in t.sessions : [s EXCEPT !.src = IF \E g \in gone : g.id = @ THEN 0 ELSE @] = Row(s)
    OBVIOUS
  <2>2. {[s EXCEPT !.src = IF \E g \in gone : g.id = @ THEN 0 ELSE @] : s \in t.sessions \ gone}
          = sessions
    BY <2>1
  <2>3. QED
    BY <2>2 DEF Without
<1>3. HasShape(t)
  BY DEF IsTables, HasShape
<1>4. IsFiniteSet(sessions)
  <2> DEFINE f == [s \in t.sessions \ gone |-> Row(s)]
  <2>1. IsFiniteSet(t.sessions \ gone)
    BY FS_Difference DEF IsTables
  <2>2. f \in Surjection(t.sessions \ gone, sessions)
    BY DEF Surjection
  <2> HIDE DEF f, sessions
  <2>3. QED
    BY <2>1, <2>2, FS_Surjection
<1>5. /\ HasShape(w) /\ w.version = t.version /\ w.terms = t.terms
      /\ w.sessions = sessions /\ w.slots = slots
  <2> DEFINE u == [t EXCEPT !.sessions = sessions]
  <2> HIDE DEF sessions, slots, w
  <2>1. w = [u EXCEPT !.slots = slots]
    BY <1>2
  <2>2. u = [version |-> t.version, sessions |-> sessions, slots |-> t.slots,
             terms |-> t.terms, scenarios |-> t.scenarios]
    BY <1>3 DEF HasShape
  <2> HIDE DEF u
  <2>3. w = [version |-> t.version, sessions |-> sessions, slots |-> slots,
             terms |-> t.terms, scenarios |-> t.scenarios]
    BY <2>1, <2>2
  <2>4. QED
    BY <2>3 DEF HasShape
<1>6. IsTables(w)
  <2>1. \A s \in sessions : IsRow(s)
    BY <1>1
  <2> HIDE DEF sessions, slots, w
  <2>2. QED
    BY <1>4, <1>5, <2>1 DEF IsTables, HasShape
<1>7. SameRows(sessions, t.sessions \ gone)
  <2> HIDE DEF Row
  <2>1. QED
    BY <1>1 DEF SameRows
<1>8. \A r \in sessions : r.src # 0 => /\ \A g \in gone : g.id # r.src
                                       /\ \E s \in t.sessions : s.src = r.src
  <2> HIDE DEF Row
  <2>1. QED
    BY <1>1
<1>9. \A p \in slots : p \in t.slots /\ Spared(p, gone)
  BY DEF Spared
<1>10. QED
  <2> HIDE DEF sessions, slots, w
  <2>1. QED
    BY <1>5, <1>6, <1>7, <1>8, <1>9 DEF w

Saved(t, kept, scenarios) == [Forget(t, kept) EXCEPT !.scenarios = scenarios]

\* A save of the scenarios touches no more of a session than its scenario.
LEMMA ScenariosSaved ==
  ASSUME NEW t, IsTables(t), NEW kept, NEW scenarios
  PROVE  LET w == Saved(t, kept, scenarios)
         IN  /\ IsTables(w) /\ w.version = t.version /\ w.terms = t.terms /\ w.slots = t.slots
             /\ SameRows(w.sessions, t.sessions)
             /\ \A r \in w.sessions : \E s \in t.sessions : s.src = r.src
<1> DEFINE Row(s)   == [s EXCEPT !.scen = IF s.scen \in kept THEN s.scen ELSE 0]
           sessions == {Row(s) : s \in t.sessions}
           u        == [t EXCEPT !.sessions = sessions]
<1>1. \A s \in t.sessions : IsRow(Row(s)) /\ Like(Row(s), s) /\ Row(s).src = s.src
  BY RowFreed DEF IsTables
<1>2. Forget(t, kept) = u
  <2>1. \A s \in t.sessions : [s EXCEPT !.scen = IF @ \in kept THEN @ ELSE 0] = Row(s)
    OBVIOUS
  <2>2. {[s EXCEPT !.scen = IF @ \in kept THEN @ ELSE 0] : s \in t.sessions} = sessions
    BY <2>1
  <2>3. QED
    BY <2>2 DEF Forget
<1>3. IsFiniteSet(sessions)
  <2> DEFINE f == [s \in t.sessions |-> Row(s)]
  <2>1. IsFiniteSet(t.sessions)
    BY DEF IsTables
  <2>2. f \in Surjection(t.sessions, sessions)
    BY DEF Surjection
  <2> HIDE DEF f, sessions
  <2>3. QED
    BY <2>1, <2>2, FS_Surjection
<1>4. \A s \in sessions : IsRow(s) /\ \E q \in t.sessions : q.src = s.src
  BY <1>1
<1>8. SameRows(sessions, t.sessions)
  <2> HIDE DEF Row
  <2>1. QED
    BY <1>1 DEF SameRows
<1> HIDE DEF sessions
<1>5. u = [version |-> t.version, sessions |-> sessions, slots |-> t.slots,
           terms |-> t.terms, scenarios |-> t.scenarios]
  BY DEF IsTables
<1> HIDE DEF u
<1>6. [u EXCEPT !.scenarios = scenarios]
        = [version |-> t.version, sessions |-> sessions, slots |-> t.slots,
           terms |-> t.terms, scenarios |-> scenarios]
  BY <1>5
<1>7. QED
  BY <1>2, <1>3, <1>4, <1>6, <1>8 DEF IsTables, Saved

\* An edit of the dictionary touches no session.
LEMMA TermsEdited ==
  ASSUME NEW t, IsTables(t), NEW terms
  PROVE  LET w == [t EXCEPT !.terms = terms]
         IN  /\ IsTables(w) /\ w.version = t.version /\ w.sessions = t.sessions
             /\ w.slots = t.slots
<1>1. [t EXCEPT !.terms = terms] = [version |-> t.version, sessions |-> t.sessions,
          slots |-> t.slots, terms |-> terms, scenarios |-> t.scenarios]
  BY DEF IsTables
<1>2. QED
  BY <1>1 DEF IsTables

\* A recording adds one row, under an id no row has, with its slots.
LEMMA RowInserted ==
  ASSUME StoreType, IsTables(Tables), rec.pc = "insert"
  PROVE  /\ IsTables(Inserted) /\ Inserted.version = Tables.version
         /\ Inserted.terms = Tables.terms
         /\ \E row :
              /\ IsRow(row) /\ row.at = now /\ row.serial = ghost.serial + 1
              /\ row.late = (rec.switch # ghost.switch)
              /\ row.src # 0 => \E s \in Tables.sessions : s.id = row.src
              /\ \A s \in Tables.sessions : s.id < row.id
              /\ Inserted.sessions = Tables.sessions \cup {row}
              /\ Inserted.slots = Tables.slots \cup {[session |-> row.id, of |-> row.serial]}
<1> DEFINE scen  == {s \in Tables.scenarios : s.name = rec.name}
           where == IF scen = {} THEN 0 ELSE (CHOOSE s \in scen : TRUE).id
           src   == IF \E s \in Tables.sessions : s.id = rec.src THEN rec.src ELSE 0
           ran   == IF scen = {} THEN 0 ELSE (CHOOSE s \in scen : TRUE).born
           late  == rec.switch # ghost.switch
           id    == NewId(Tables.sessions)
           row   == [id |-> id, at |-> now, scen |-> where, src |-> src,
                     serial |-> ghost.serial + 1, ran |-> ran, late |-> late]
           slot  == [session |-> row.id, of |-> row.serial]
<1>1. Inserted = [Tables EXCEPT !.sessions = Tables.sessions \cup {row},
                                !.slots = Tables.slots \cup {slot}]
  BY DEF Inserted
<1>2. id \in Nat \ {0} /\ \A s \in Tables.sessions : s.id < id
  BY NewIdIsNew DEF IsTables, IsRow
<1>3. now \in Nat /\ ghost.serial + 1 \in Nat
  BY DEF StoreType, GhostType
<1>4. src # 0 => \E s \in Tables.sessions : s.id = src
  OBVIOUS
<1> HIDE DEF scen, where, src, ran, id, late
<1>5. IsRow(row) /\ row.at = now /\ row.serial = ghost.serial + 1 /\ row.src = src /\ row.id = id
  BY <1>2, <1>3 DEF IsRow
<1>6. row.late = late
  OBVIOUS
<1> HIDE DEF row, slot
<1>7. HasShape(Tables) /\ IsFiniteSet(Tables.sessions) /\ \A s \in Tables.sessions : IsRow(s)
  BY DEF IsTables, HasShape
<1>8. /\ HasShape(Inserted) /\ Inserted.version = Tables.version
      /\ Inserted.terms = Tables.terms
      /\ Inserted.sessions = Tables.sessions \cup {row}
      /\ Inserted.slots = Tables.slots \cup {slot}
  <2> DEFINE sessions == Tables.sessions \cup {row}
             slots    == Tables.slots \cup {slot}
             u        == [Tables EXCEPT !.sessions = sessions]
  <2>1. Inserted = [u EXCEPT !.slots = slots]
    BY <1>1
  <2> HIDE DEF sessions, slots
  <2>2. u = [version |-> Tables.version, sessions |-> sessions, slots |-> Tables.slots,
             terms |-> Tables.terms, scenarios |-> Tables.scenarios]
    BY <1>7 DEF HasShape
  <2> HIDE DEF u
  <2>3. Inserted = [version |-> Tables.version, sessions |-> sessions, slots |-> slots,
                    terms |-> Tables.terms, scenarios |-> Tables.scenarios]
    BY <2>1, <2>2
  <2>4. QED
    BY <2>3 DEF HasShape, sessions, slots
<1>9. IsFiniteSet(Tables.sessions \cup {row})
  BY <1>7, FS_AddElement
<1>10. IsTables(Inserted)
  BY <1>5, <1>7, <1>8, <1>9 DEF IsTables, HasShape
<1>11. QED
  BY <1>2, <1>4, <1>5, <1>6, <1>8, <1>10 DEF slot, late

-----------------------------------------------------------------------------
(* Every variable keeps its type *)

\* The rows the migration takes: one per row of the old table, under its id.
LEMMA LegacyTyped ==
  ASSUME NEW f \in OldFiles
  PROVE  /\ IsFiniteSet(LegacyRows(f))
         /\ \A r \in LegacyRows(f) : IsRow(r) /\ r.serial = r.id /\ r.src = 0
                                     /\ \E s \in f.sessions : s.id = r.id
         /\ \A r, q \in LegacyRows(f) : r.id = q.id => r = q
<1> DEFINE taken  == {r \in f.sessions : f.readable /\ ~r.blank}
           Row(s) == [id |-> s.id, at |-> s.at, scen |-> 0, src |-> 0, serial |-> s.id, ran |-> 0,
                      late |-> FALSE]
           rows   == {Row(s) : s \in taken}
           g      == [s \in taken |-> Row(s)]
<1>1. /\ IsFiniteSet(f.sessions) /\ \A s \in f.sessions : s.id \in Nat /\ s.at \in Nat
      /\ \A s, r \in f.sessions : s.id = r.id => s = r
  BY StoreAssumption
<1>2. taken \subseteq f.sessions
  OBVIOUS
<1>3. IsFiniteSet(rows)
  <2>1. IsFiniteSet(taken)
    BY <1>1, <1>2, FS_Subset
  <2>2. g \in Surjection(taken, rows)
    BY DEF Surjection
  <2> HIDE DEF g, rows, taken
  <2>3. QED
    BY <2>1, <2>2, FS_Surjection
<1>4. \A s \in taken : IsRow(Row(s)) /\ Row(s).serial = Row(s).id /\ Row(s).src = 0 /\ Row(s).id = s.id
  BY <1>1, <1>2 DEF IsRow
<1>5. LegacyRows(f) = rows
  BY DEF LegacyRows
<1>6. ASSUME NEW r \in rows, NEW q \in rows, r.id = q.id
      PROVE  r = q
  <2>1. PICK s \in taken : r = Row(s)
    OBVIOUS
  <2>2. PICK u \in taken : q = Row(u)
    OBVIOUS
  <2>3. s.id = u.id
    BY <1>4, <1>6, <2>1, <2>2
  <2>4. s = u
    BY <1>1, <1>2, <2>3
  <2>5. QED
    BY <2>1, <2>2, <2>4
<1>7. QED
  BY <1>2, <1>3, <1>4, <1>5, <1>6

\* The database of this run is made of tables.
LEMMA TablesTyped ==
  ASSUME StoreType
  PROVE  IsTables(Tables)
BY DEF StoreType, Tables

\* A statement leaves the tables it is given in the database of this run, and
\* the other database alone.
LEMMA WritesTo ==
  ASSUME StoreType, run \in {"settling", "open"}, NEW t, IsTables(t),
         t.version = Tables.version, Writes(t), home' = home
  PROVE  /\ Tables' = t /\ IsTables(disk') /\ IsTables(mem')
         /\ disk'.version = disk.version /\ (disk.version = 0 => disk' = disk)
         /\ home = "disk" => disk' = t /\ mem' = mem /\ Tables = disk
         /\ home # "disk" => mem' = t /\ disk' = disk /\ Tables = mem
<1>1. home = "disk" => disk.version = 1
  BY DEF StoreType, Phases
<1>2. IsTables(disk) /\ IsTables(mem)
  BY DEF StoreType
<1>3. QED
  BY <1>1, <1>2 DEF Writes, Tables

\* Each part of the records changes alone.
LEMMA GhostStep ==
  ASSUME GhostType, NEW x
  PROVE  /\ LET g == [ghost EXCEPT !.removed = x]
            IN  /\ g = [serial |-> g.serial, born |-> g.born, switch |-> g.switch,
                        removed |-> g.removed, first |-> g.first]
                /\ g.removed = x /\ g.serial = ghost.serial /\ g.switch = ghost.switch
                /\ g.first = ghost.first
         /\ LET g == [ghost EXCEPT !.born = x]
            IN  /\ g = [serial |-> g.serial, born |-> g.born, switch |-> g.switch,
                        removed |-> g.removed, first |-> g.first]
                /\ g.removed = ghost.removed /\ g.serial = ghost.serial
                /\ g.switch = ghost.switch /\ g.first = ghost.first
         /\ LET g == [ghost EXCEPT !.serial = x]
            IN  /\ g = [serial |-> g.serial, born |-> g.born, switch |-> g.switch,
                        removed |-> g.removed, first |-> g.first]
                /\ g.removed = ghost.removed /\ g.serial = x
                /\ g.switch = ghost.switch /\ g.first = ghost.first
         /\ LET g == [ghost EXCEPT !.switch = x]
            IN  /\ g = [serial |-> g.serial, born |-> g.born, switch |-> g.switch,
                        removed |-> g.removed, first |-> g.first]
                /\ g.removed = ghost.removed /\ g.serial = ghost.serial
                /\ g.switch = x /\ g.first = ghost.first
BY DEF GhostType

\* A deletion leaves tables, and records what it took.
LEMMA RemovesWell ==
  ASSUME StoreType, run \in {"settling", "open"}, NEW gone, Removes(gone), home' = home
  PROVE  /\ Writes(Without(Tables, gone)) /\ Tables' = Without(Tables, gone)
         /\ IsTables(disk') /\ IsTables(mem')
         /\ disk'.version = disk.version /\ (disk.version = 0 => disk' = disk)
         /\ GhostType' /\ ghost'.serial = ghost.serial /\ ghost'.switch = ghost.switch
         /\ ghost'.first = ghost.first
         /\ ghost'.removed = ghost.removed \cup {s.serial : s \in gone}
<1>1. /\ IsTables(Without(Tables, gone)) /\ Writes(Without(Tables, gone))
      /\ Without(Tables, gone).version = Tables.version
  BY TablesTyped, RowsLeft DEF Removes
<1>2. /\ Tables' = Without(Tables, gone) /\ IsTables(disk') /\ IsTables(mem')
      /\ disk'.version = disk.version /\ (disk.version = 0 => disk' = disk)
  BY <1>1, WritesTo
<1>3. GhostType /\ ghost' = [ghost EXCEPT !.removed = ghost.removed \cup {s.serial : s \in gone}]
  BY DEF StoreType, Removes
<1>4. /\ GhostType' /\ ghost'.serial = ghost.serial /\ ghost'.switch = ghost.switch
      /\ ghost'.first = ghost.first
      /\ ghost'.removed = ghost.removed \cup {s.serial : s \in gone}
  BY <1>3, GhostStep DEF GhostType
<1>5. QED
  BY <1>1, <1>2, <1>4

\* A step of an open store.
LEMMA OpenTyped ==
  ASSUME StoreType, run = "open", run' = run, home' = home, old' = old,
         IsTables(disk'), IsTables(mem'), GhostType', ghost'.first = ghost.first,
         disk'.version = disk.version, disk.version = 0 => disk' = disk,
         file' \in Configs, policy' \in Configs, now' \in Nat,
         rec' \in Recs, list' \in ListCalls, set' \in SetCalls
  PROVE  StoreType'
BY DEF StoreType, Phases

\* The cutoff is a time, also when the clock is younger than the retention.
LEMMA CutoffTyped ==
  ASSUME StoreType
  PROVE  /\ policy.retention \in Nat \ {0} /\ Cutoff \in Nat
         /\ \A at \in Nat : at > Cutoff => at + policy.retention > now
<1>1. policy.retention \in Nat \ {0} /\ now \in Nat
  BY StoreAssumption DEF StoreType, Configs
<1>2. QED
  BY <1>1 DEF Cutoff

\* Every variable starts in its type.
LEMMA StartsTyped == Init => StoreType
<1> SUFFICES ASSUME Init
             PROVE  StoreType
  OBVIOUS
<1>1. /\ old \in OldFiles /\ disk = Empty /\ mem = Empty /\ home = "disk" /\ run = "closed"
      /\ file = [enabled |-> TRUE,
                 retention |-> CHOOSE r \in Retentions : \A q \in Retentions : r >= q]
      /\ policy = file /\ rec = Idle /\ list = Idle /\ set = Idle /\ now = 1
      /\ ghost = [serial |-> NewId(old.sessions) - 1, born |-> 0, switch |-> 0, removed |-> {},
                  first |-> old]
  BY DEF Init
<1>2. file \in Configs
  BY <1>1, StoreAssumption DEF Configs
<1>3. IsTables(Empty) /\ Empty.version = 0
  BY FS_EmptySet DEF IsTables, Empty
<1>4. NewId(old.sessions) - 1 \in Nat
  <2>1. NewId(old.sessions) \in Nat \ {0}
    BY <1>1, StoreAssumption, NewIdIsNew
  <2>2. QED
    BY <2>1
<1>5. GhostType
  BY <1>1, <1>4 DEF GhostType
<1>6. rec \in Recs /\ list \in ListCalls /\ set \in SetCalls
  BY <1>1 DEF Recs, ListCalls, SetCalls
<1>7. Phases
  BY <1>1, <1>3 DEF Phases
<1>8. QED
  BY <1>1, <1>2, <1>3, <1>5, <1>6, <1>7 DEF StoreType

Opening  == Launches \/ Migrates \/ DeletesOld \/ Opens \/ OpenFails \/ Settles \/ Stops \/ Ticks
Calling  == \/ Records \/ RecordSweeps \/ RecordDeletes \/ RecordInserts
            \/ Lists \/ ListDeletes \/ ListReads \/ Clears
            \/ SetsHistory \/ Applies \/ ApplySweeps \/ ApplyDeletes \/ ApplyClears
Editing  == EditsTerms \/ EditsScenarios

\* So it stays while the store opens, stops or waits,
LEMMA OpeningTyped ==
  ASSUME StoreType, Opening
  PROVE  StoreType'
<1>0. /\ file \in Configs /\ policy \in Configs /\ now \in Nat /\ IsTables(disk) /\ IsTables(mem)
      /\ GhostType /\ rec \in Recs /\ list \in ListCalls /\ set \in SetCalls /\ Phases
  BY DEF StoreType
<1>e. /\ IsTables(Empty) /\ IsTables([Empty EXCEPT !.version = 1])
      /\ Idle \in Recs /\ Idle \in ListCalls /\ Idle \in SetCalls
  BY FS_EmptySet DEF IsTables, Empty, Recs, ListCalls, SetCalls
<1>1. CASE Launches
  BY <1>0, <1>1 DEF Launches, StoreType, Phases, GhostType, calls
<1>2. CASE Migrates
  <2>1. /\ run = "opening" /\ disk.version = 0 /\ disk' = Migrated /\ run' = "deleting"
        /\ ghost' = [ghost EXCEPT !.born = ghost.born + Cardinality(Migrated.scenarios)]
        /\ UNCHANGED <<old, mem, home, file, policy, rec, list, set, now>>
    BY <1>2 DEF Migrates, calls
  <2>2. old = ghost.first /\ ghost.first \in OldFiles
    BY <1>0, <2>1 DEF Phases, GhostType
  <2>3. IsTables(Migrated) /\ Migrated.version = 1
    <3>1. IsFiniteSet(LegacyRows(old)) /\ \A s \in LegacyRows(old) : IsRow(s)
      BY <2>2, LegacyTyped
    <3>2. QED
      BY <3>1 DEF IsTables, Migrated
  <2>4. GhostType' /\ ghost'.first = ghost.first
    BY <1>0, <2>1, GhostStep DEF GhostType
  <2>5. Phases'
    BY <1>0, <2>1, <2>3 DEF Phases
  <2>6. QED
    BY <1>0, <2>1, <2>3, <2>4, <2>5 DEF StoreType
<1>3. CASE DeletesOld
  <2>1. /\ run = "deleting"
        /\ UNCHANGED <<disk, mem, home, run, file, policy, rec, list, set, now, ghost>>
    BY <1>3 DEF DeletesOld, calls
  <2>2. disk.version = 1
    BY <1>0, <2>1 DEF Phases
  <2>3. Phases'
    BY <1>0, <2>1, <2>2 DEF Phases
  <2>4. QED
    BY <1>0, <2>1, <2>3 DEF StoreType, GhostType
<1>4. CASE Opens
  BY <1>0, <1>4 DEF Opens, StoreType, Phases, GhostType, calls
<1>5. CASE OpenFails
  <2>1. /\ run \in {"opening", "settling"} /\ home' = "memory" /\ run' = "settling"
        /\ mem' = [Empty EXCEPT !.version = 1]
        /\ UNCHANGED <<old, disk, file, policy, rec, list, set, now, ghost>>
    BY <1>5 DEF OpenFails, calls
  <2>2. Phases'
    BY <1>0, <2>1 DEF Phases
  <2>3. QED
    BY <1>0, <1>e, <2>1, <2>2 DEF StoreType, GhostType
<1>6. CASE Settles
  <2> DEFINE gone == IF policy.enabled THEN Expired(Cutoff) ELSE Tables.sessions
  <2>1. /\ run = "settling" /\ run' = "open" /\ Removes(gone)
        /\ UNCHANGED <<old, home, file, policy, rec, list, set, now>>
    BY <1>6 DEF Settles, calls
  <2> HIDE DEF gone
  <2>2. /\ IsTables(disk') /\ IsTables(mem') /\ GhostType' /\ ghost'.first = ghost.first
        /\ disk'.version = disk.version /\ (disk.version = 0 => disk' = disk)
    BY <2>1, RemovesWell
  <2>3. Phases'
    BY <1>0, <2>1, <2>2 DEF Phases
  <2>4. QED
    BY <1>0, <2>1, <2>2, <2>3 DEF StoreType
<1>7. CASE Stops
  <2>1. /\ run' = "closed" /\ mem' = Empty /\ home' = "disk"
        /\ rec' = Idle /\ list' = Idle /\ set' = Idle /\ policy' = file
        /\ UNCHANGED <<old, disk, file, now, ghost>>
    BY <1>7 DEF Stops
  <2>2. Phases'
    BY <1>0, <2>1 DEF Phases
  <2>3. QED
    BY <1>0, <1>e, <2>1, <2>2 DEF StoreType, GhostType
<1>8. CASE Ticks
  <2>1. /\ now' = now + 1
        /\ UNCHANGED <<old, disk, mem, home, run, file, policy, rec, list, set, ghost>>
    BY <1>8 DEF Ticks, calls
  <2>2. now' \in Nat
    BY <1>0, <2>1
  <2>3. QED
    BY <1>0, <2>1, <2>2 DEF StoreType, Phases, GhostType
<1>9. QED
  BY <1>1, <1>2, <1>3, <1>4, <1>5, <1>6, <1>7, <1>8 DEF Opening

\* while the recorder, the list and the settings take their steps,
LEMMA CallingTyped ==
  ASSUME StoreType, Calling
  PROVE  StoreType'
<1>0. /\ file \in Configs /\ policy \in Configs /\ now \in Nat /\ IsTables(disk) /\ IsTables(mem)
      /\ GhostType /\ rec \in Recs /\ list \in ListCalls /\ set \in SetCalls /\ Phases
      /\ ghost.switch \in Nat /\ ghost.serial \in Nat /\ Cutoff \in Nat
  BY CutoffTyped DEF StoreType, GhostType
<1>i. Idle \in Recs /\ Idle \in ListCalls /\ Idle \in SetCalls /\ Idle.pc = "idle"
  BY DEF Recs, ListCalls, SetCalls, Idle
<1>o. rec # Idle \/ list # Idle \/ set # Idle => run = "open"
  BY <1>0 DEF Phases
<1>a. ASSUME run = "open", Same, UNCHANGED <<disk, mem, ghost>>, policy' \in Configs,
             rec' \in Recs, list' \in ListCalls, set' \in SetCalls
      PROVE  StoreType'
  BY <1>0, <1>a, OpenTyped DEF Same, GhostType
<1>b. ASSUME run = "open", Same, NEW gone, Removes(gone), policy' = policy,
             rec' \in Recs, list' \in ListCalls, set' \in SetCalls
      PROVE  StoreType'
  <2>1. /\ IsTables(disk') /\ IsTables(mem') /\ GhostType' /\ ghost'.first = ghost.first
        /\ disk'.version = disk.version /\ (disk.version = 0 => disk' = disk)
    BY <1>b, RemovesWell DEF Same
  <2>2. QED
    BY <1>0, <1>b, <2>1, OpenTyped DEF Same
<1>1. CASE Records
  <2>1. rec' \in Recs
    BY <1>0, <1>1 DEF Records, Recs
  <2>2. QED
    BY <1>0, <1>1, <1>a, <2>1 DEF Records
<1>2. CASE RecordSweeps
  <2>1. rec \in [pc : {"sweep"}, name : Names \cup {"none"}, src : {0, 1}, switch : Nat]
    BY <1>0, <1>2 DEF RecordSweeps, Recs, Idle
  <2>2. rec' \in [pc : {"delete", "insert"}, name : Names \cup {"none"}, src : {0, 1},
                  switch : Nat, cutoff : Nat]
    BY <1>0, <1>2, <2>1 DEF RecordSweeps
  <2>3. rec' \in Recs /\ rec # Idle
    BY <1>2, <1>i, <2>2 DEF RecordSweeps, Recs
  <2>4. QED
    BY <1>0, <1>2, <1>o, <1>a, <2>3 DEF RecordSweeps
<1>3. CASE RecordDeletes
  <2>1. rec \in [pc : {"delete", "insert"}, name : Names \cup {"none"}, src : {0, 1},
                 switch : Nat, cutoff : Nat]
    BY <1>0, <1>3 DEF RecordDeletes, Recs, Idle
  <2>2. rec' \in [pc : {"delete", "insert"}, name : Names \cup {"none"}, src : {0, 1},
                  switch : Nat, cutoff : Nat]
    BY <1>3, <2>1 DEF RecordDeletes
  <2>3. rec' \in Recs /\ rec # Idle
    BY <1>3, <1>i, <2>2 DEF RecordDeletes, Recs
  <2>4. QED
    BY <1>0, <1>3, <1>o, <1>b, <2>3 DEF RecordDeletes
<1>4. CASE RecordInserts
  <2>1. /\ rec.pc = "insert" /\ rec' = Idle /\ Writes(Inserted)
        /\ ghost' = [ghost EXCEPT !.serial = ghost.serial + 1] /\ Same
        /\ UNCHANGED <<policy, list, set>>
    BY <1>4 DEF RecordInserts
  <2>2. run = "open" /\ home' = home
    BY <1>i, <1>o, <2>1 DEF Same
  <2>3. IsTables(Inserted) /\ Inserted.version = Tables.version
    BY <2>1, TablesTyped, RowInserted
  <2>4. /\ IsTables(disk') /\ IsTables(mem') /\ disk'.version = disk.version
        /\ disk.version = 0 => disk' = disk
    BY <2>1, <2>2, <2>3, WritesTo
  <2>5. ghost.serial + 1 \in Nat
    BY <1>0
  <2>6. GhostType' /\ ghost'.first = ghost.first
    BY <1>0, <2>1, <2>5, GhostStep DEF GhostType
  <2>7. QED
    BY <1>0, <1>i, <2>1, <2>2, <2>4, <2>6, OpenTyped DEF Same
<1>5. CASE Lists
  <2>1. list' \in ListCalls
    BY <1>0, <1>5 DEF Lists, ListCalls
  <2>2. QED
    BY <1>0, <1>5, <1>a, <2>1 DEF Lists
<1>6. CASE ListDeletes
  <2>1. list \in [pc : {"delete", "read"}, since : Nat, cutoff : Nat]
    BY <1>0, <1>6 DEF ListDeletes, ListCalls, Idle
  <2>2. list' \in [pc : {"delete", "read"}, since : Nat, cutoff : Nat]
    BY <1>6, <2>1 DEF ListDeletes
  <2>3. list' \in ListCalls /\ list # Idle
    BY <1>6, <1>i, <2>2 DEF ListDeletes, ListCalls
  <2>4. QED
    BY <1>0, <1>6, <1>o, <1>b, <2>3 DEF ListDeletes
<1>7. CASE ListReads
  BY <1>0, <1>7, <1>i, <1>o, <1>a DEF ListReads
<1>8. CASE Clears
  BY <1>0, <1>8, <1>b DEF Clears, Adjusts, calls
<1>9. CASE SetsHistory
  <2>1. /\ run = "open" /\ UNCHANGED <<old, disk, mem, home, run, policy, rec, list, now, ghost>>
        /\ \E c \in Configs : file' = c /\ set' = [pc |-> "apply", config |-> c]
    BY <1>9 DEF SetsHistory, Adjusts
  <2>2. file' \in Configs /\ set' \in SetCalls
    BY <2>1 DEF SetCalls
  <2>3. QED
    BY <1>0, <2>1, <2>2, OpenTyped DEF GhostType
<1>10. CASE Applies
  <2>1. /\ set.pc = "apply" /\ policy' = set.config
        /\ ghost' = [ghost EXCEPT !.switch = ghost.switch + 1]
        /\ set' = [pc |-> IF set.config.enabled THEN "sweep" ELSE "clear"] /\ Same
        /\ UNCHANGED <<disk, mem, rec, list>>
    BY <1>10 DEF Applies
  <2>2. set \in [pc : {"apply"}, config : Configs]
    BY <1>0, <2>1 DEF SetCalls, Idle
  <2>3. policy' \in Configs /\ set' \in SetCalls /\ run = "open"
    BY <1>i, <1>o, <2>1, <2>2 DEF SetCalls
  <2>4. ghost.switch + 1 \in Nat
    BY <1>0
  <2>5. GhostType' /\ ghost'.first = ghost.first
    BY <1>0, <2>1, <2>4, GhostStep DEF GhostType
  <2>6. QED
    BY <1>0, <2>1, <2>3, <2>5, OpenTyped DEF Same
<1>11. CASE ApplySweeps
  <2>1. set' \in SetCalls /\ set # Idle
    BY <1>0, <1>11, <1>i DEF ApplySweeps, SetCalls
  <2>2. QED
    BY <1>0, <1>11, <1>o, <1>a, <2>1 DEF ApplySweeps
<1>12. CASE ApplyDeletes
  BY <1>0, <1>12, <1>i, <1>o, <1>b DEF ApplyDeletes
<1>13. CASE ApplyClears
  BY <1>0, <1>13, <1>i, <1>o, <1>b DEF ApplyClears
<1>14. QED
  BY <1>1, <1>2, <1>3, <1>4, <1>5, <1>6, <1>7, <1>8, <1>9, <1>10, <1>11, <1>12, <1>13
  DEF Calling

\* and through the edits of the two libraries:
LEMMA EditingTyped ==
  ASSUME StoreType, Editing
  PROVE  StoreType'
<1>0. /\ file \in Configs /\ policy \in Configs /\ now \in Nat /\ IsTables(disk) /\ IsTables(mem)
      /\ GhostType /\ rec \in Recs /\ list \in ListCalls /\ set \in SetCalls /\ Phases
  BY DEF StoreType
<1>1. ASSUME run = "open", Same, UNCHANGED <<policy, calls>>, GhostType',
             ghost'.first = ghost.first, NEW t, IsTables(t), t.version = Tables.version,
             Writes(t)
      PROVE  StoreType'
  <2>1. /\ IsTables(disk') /\ IsTables(mem') /\ disk'.version = disk.version
        /\ disk.version = 0 => disk' = disk
    BY <1>1, WritesTo DEF Same
  <2>2. QED
    BY <1>0, <1>1, <2>1, OpenTyped DEF Same, calls
<1>2. CASE EditsTerms
  <2>1. PICK terms : Writes([Tables EXCEPT !.terms = terms])
    BY <1>2 DEF EditsTerms
  <2>2. /\ run = "open" /\ Same /\ UNCHANGED <<policy, calls, ghost>>
    BY <1>2 DEF EditsTerms, Edits
  <2>3. GhostType' /\ ghost'.first = ghost.first
    BY <1>0, <2>2 DEF GhostType
  <2>4. QED
    BY <1>1, <2>1, <2>2, <2>3, TablesTyped, TermsEdited
<1>3. CASE EditsScenarios
  <2>1. PICK kept, scenarios : Writes(Saved(Tables, kept, scenarios))
    BY <1>3 DEF EditsScenarios, Saved
  <2>2. /\ run = "open" /\ Same /\ UNCHANGED <<policy, calls>>
        /\ ghost' = [ghost EXCEPT !.born = ghost.born + Cardinality(Names)]
    BY <1>3 DEF EditsScenarios, Edits
  <2>3. GhostType' /\ ghost'.first = ghost.first
    BY <1>0, <2>2, GhostStep DEF GhostType
  <2> DEFINE t == Saved(Tables, kept, scenarios)
  <2>4. IsTables(t) /\ t.version = Tables.version /\ Writes(t)
    BY <2>1, TablesTyped, ScenariosSaved
  <2> HIDE DEF t
  <2>5. QED
    BY <1>1, <2>2, <2>3, <2>4
<1>4. QED
  BY <1>2, <1>3 DEF Editing

\* at every step.
LEMMA StepsTyped ==
  ASSUME StoreType, [Next]_vars
  PROVE  StoreType'
<1>1. CASE UNCHANGED vars
  BY <1>1 DEF vars, calls, StoreType, Phases, GhostType
<1>2. QED
  BY <1>1, OpeningTyped, CallingTyped, EditingTyped DEF Next, Opening, Calling, Editing

-----------------------------------------------------------------------------
(* The policy holds *)

\* The rows a deletion leaves are rows that were there and not meant.
LEMMA RowsRemoved ==
  ASSUME StoreType, run \in {"settling", "open"}, NEW gone, Removes(gone), home' = home
  PROVE  \A r \in Tables'.sessions :
           \E s \in Tables.sessions \ gone : Like(r, s)
<1>1. Tables' = Without(Tables, gone) /\ IsTables(Tables)
  BY RemovesWell, TablesTyped
<1>2. QED
  BY <1>1, RowsLeft DEF SameRows

\* A row of the table has been there, and is judged by what a step leaves of
\* the policy, the calls and the clock.
LEMMA JudgedAlike ==
  ASSUME PolicyInv, NEW r, NEW s \in Tables.sessions, Like(r, s)
  PROVE  LateOk(r) /\ FreshOk(r.at)
<1>1. r.at = s.at /\ r.late = s.late
  BY DEF Like
<1>2. LateOk(s) /\ FreshOk(s.at)
  BY DEF PolicyInv
<1>3. QED
  BY <1>1, <1>2 DEF LateOk

\* While the store is not open the policy has nothing to say.
LEMMA ClosedKeepsPolicy ==
  ASSUME run' # "open", rec' = Idle, list' = Idle
  PROVE  PolicyInv'
BY DEF PolicyInv, Switched, LateOk, FreshOk

\* The policy holds as the store opens: it is swept, or cleared, first.
LEMMA OpeningKeepsPolicy ==
  ASSUME StoreType, PolicyInv, Opening, StoreType'
  PROVE  PolicyInv'
<1>0. Phases /\ Phases'
  BY DEF StoreType
<1>1. CASE Launches \/ Migrates \/ DeletesOld \/ Opens \/ OpenFails \/ Stops
  <2>1. run' # "open"
    BY <1>1 DEF Launches, Migrates, DeletesOld, Opens, OpenFails, Stops
  <2>2. QED
    BY <1>0, <2>1, ClosedKeepsPolicy DEF Phases
<1>2. CASE Settles
  <2>1. /\ run = "settling" /\ home' = home /\ UNCHANGED <<policy, rec, list, set>>
        /\ Removes(IF policy.enabled THEN Expired(Cutoff) ELSE Tables.sessions)
    BY <1>2 DEF Settles, calls
  <2>2. rec' = Idle /\ list' = Idle
    BY <1>0, <2>1 DEF Phases
  <2>3. \A r \in Tables'.sessions : policy.enabled
    BY <2>1, RowsRemoved
  <2>4. QED
    BY <2>1, <2>2, <2>3 DEF PolicyInv, Switched, LateOk, FreshOk
<1>3. CASE Ticks
  <2>1. /\ now' = now + 1
        /\ UNCHANGED <<disk, mem, home, run, policy, rec, list, set, ghost>>
    BY <1>3 DEF Ticks, calls
  <2>2. list # Idle => list.since \in Nat
    BY DEF StoreType, ListCalls
  <2>3. list' # Idle => list'.since <= now'
    <3>1. now \in Nat /\ (list # Idle => list.since <= now)
      BY DEF StoreType, PolicyInv
    <3>2. QED
      BY <2>1, <2>2, <3>1
  <2>4. Tables' = Tables
    BY <2>1 DEF Tables
  <2>5. QED
    BY <2>1, <2>3, <2>4 DEF PolicyInv, Switched, LateOk, FreshOk, Survives
<1>4. QED
  BY <1>1, <1>2, <1>3 DEF Opening

\* It holds between any two lock regions of the calls.
LEMMA CallingKeepsPolicy ==
  ASSUME StoreType, PolicyInv, Calling
  PROVE  PolicyInv'
<1>0. /\ now \in Nat /\ rec \in Recs /\ list \in ListCalls /\ set \in SetCalls /\ Phases
      /\ ghost.switch \in Nat /\ policy.retention \in Nat \ {0}
      /\ \A s \in Tables.sessions : s.at \in Nat
  BY CutoffTyped, TablesTyped DEF StoreType, GhostType, IsTables, IsRow
<1>i. Idle.pc = "idle"
  BY DEF Idle
<1>o. rec # Idle \/ list # Idle \/ set # Idle => run = "open"
  BY <1>0 DEF Phases
<1>r. ASSUME UNCHANGED <<disk, mem, home>>
      PROVE  Tables' = Tables
  BY <1>r DEF Tables
<1>l. list # Idle => list.since <= now /\ list.since \in Nat
  BY <1>0 DEF PolicyInv, ListCalls
<1>s. ASSUME rec' = rec, UNCHANGED <<policy, ghost>>
      PROVE  Switched'
  BY <1>s DEF PolicyInv, Switched
<1>t. ASSUME rec' = rec, policy' = policy, ghost'.switch = ghost.switch
      PROVE  Switched'
  BY <1>t DEF PolicyInv, Switched
<1>1. CASE Records
  <2>1. /\ rec' = Idle \/ (policy.enabled /\ rec'.switch = ghost.switch)
        /\ UNCHANGED <<disk, mem, home, run, now, policy, list, set, ghost>>
    BY <1>1 DEF Records, Same
  <2>2. Switched'
    BY <1>0, <2>1 DEF Switched
  <2>3. QED
    BY <1>r, <2>1, <2>2 DEF PolicyInv, LateOk, FreshOk, Survives
<1>2. CASE RecordSweeps
  <2>1. /\ rec.pc = "sweep" /\ rec'.switch = rec.switch
        /\ UNCHANGED <<disk, mem, home, run, now, policy, list, set, ghost>>
    BY <1>2 DEF RecordSweeps, Same
  <2>2. Switched'
    BY <1>i, <2>1 DEF PolicyInv, Switched
  <2>3. QED
    BY <1>r, <2>1, <2>2 DEF PolicyInv, LateOk, FreshOk, Survives
<1>3. CASE RecordDeletes
  <2>1. /\ rec.pc = "delete" /\ rec' = [rec EXCEPT !.pc = "insert"]
        /\ Removes(Expired(rec.cutoff)) /\ UNCHANGED <<home, run, now, policy, list, set>>
    BY <1>3 DEF RecordDeletes, Same
  <2>2. rec # Idle /\ rec'.switch = rec.switch
    <3>1. rec \in [pc : {"delete", "insert"}, name : Names \cup {"none"}, src : {0, 1},
                   switch : Nat, cutoff : Nat]
      BY <1>0, <2>1 DEF Recs, Idle
    <3>2. QED
      BY <1>i, <2>1, <3>1
  <2>3. ghost'.switch = ghost.switch
    BY <1>o, <2>1, <2>2, RemovesWell
  <2>4. Switched'
    BY <2>1, <2>2, <2>3 DEF PolicyInv, Switched
  <2>5. \A r \in Tables'.sessions : LateOk(r) /\ FreshOk(r.at)
    BY <1>o, <2>1, <2>2, RowsRemoved, JudgedAlike
  <2>6. QED
    BY <2>1, <2>4, <2>5 DEF PolicyInv, LateOk, FreshOk, Survives
<1>4. CASE RecordInserts
  <2>1. /\ rec.pc = "insert" /\ rec' = Idle /\ Writes(Inserted)
        /\ UNCHANGED <<home, run, now, policy, list, set>>
    BY <1>4 DEF RecordInserts, Same
  <2>2. rec # Idle /\ run = "open"
    BY <1>i, <1>o, <2>1
  <2>3. Tables' = Inserted
    BY <2>1, <2>2, TablesTyped, RowInserted, WritesTo
  <2>4. PICK row : /\ row.at = now /\ row.late = (rec.switch # ghost.switch)
                   /\ Inserted.sessions = Tables.sessions \cup {row}
    BY <2>1, TablesTyped, RowInserted
  <2>5. LateOk(row)
    <3>1. ~policy.enabled => rec.switch # ghost.switch
      BY <2>2 DEF PolicyInv, Switched
    <3>2. QED
      BY <2>4, <3>1 DEF LateOk
  <2>6. FreshOk(row.at)
    <3>1. list # Idle => now + policy.retention > list.since
      BY <1>0, <1>l
    <3>2. QED
      BY <2>4, <3>1 DEF FreshOk
  <2>7. \A r \in Tables'.sessions : LateOk(r) /\ FreshOk(r.at)
    BY <2>3, <2>4, <2>5, <2>6 DEF PolicyInv
  <2>8. QED
    BY <2>1, <2>7 DEF PolicyInv, Switched, LateOk, FreshOk, Survives
<1>5. CASE Lists
  <2>1. /\ list' = [pc |-> "delete", since |-> now, cutoff |-> Cutoff]
        /\ UNCHANGED <<disk, mem, home, run, now, policy, rec, set, ghost>>
    BY <1>5 DEF Lists, Same
  <2>2. \A s \in Tables.sessions : FreshOk(s.at)'
    BY <1>0, <2>1, CutoffTyped DEF FreshOk, Survives
  <2>3. list'.since <= now'
    BY <1>0, <2>1
  <2>4. QED
    BY <1>r, <1>s, <2>1, <2>2, <2>3 DEF PolicyInv, LateOk
<1>6. CASE ListDeletes
  <2>1. /\ list.pc = "delete" /\ list' = [list EXCEPT !.pc = "read"]
        /\ Removes(Expired(list.cutoff)) /\ UNCHANGED <<home, run, now, policy, rec, set>>
    BY <1>6 DEF ListDeletes, Same
  <2>2. /\ list # Idle /\ run = "open" /\ list'.since = list.since /\ list'.pc = "read"
    <3>1. list \in [pc : {"delete", "read"}, since : Nat, cutoff : Nat]
      BY <1>0, <2>1 DEF ListCalls, Idle
    <3>2. QED
      BY <1>i, <1>o, <2>1, <3>1
  <2>3. ghost'.switch = ghost.switch
    BY <2>1, <2>2, RemovesWell
  <2>4. ASSUME NEW r \in Tables'.sessions
        PROVE  LateOk(r)' /\ FreshOk(r.at)'
    <3>1. PICK s \in Tables.sessions \ Expired(list.cutoff) : Like(r, s)
      BY <2>1, <2>2, RowsRemoved
    <3>2. r.at = s.at /\ s.at \in Nat /\ ~(s.at <= list.cutoff)
      BY <1>0, <3>1 DEF Expired, Like
    <3>3. r.at > list.cutoff
      <4>1. list.cutoff \in Nat
        BY <1>0, <2>1 DEF ListCalls, Idle
      <4>2. QED
        BY <3>2, <4>1
    <3>4. LateOk(r) /\ FreshOk(r.at)
      BY <3>1, JudgedAlike
    <3>5. QED
      BY <2>1, <2>2, <3>3, <3>4 DEF LateOk, FreshOk, Survives
  <2>5. QED
    BY <1>t, <1>l, <2>1, <2>2, <2>3, <2>4 DEF PolicyInv
<1>7. CASE ListReads
  <2>1. list' = Idle /\ UNCHANGED <<disk, mem, home, run, now, policy, rec, set, ghost>>
    BY <1>7 DEF ListReads, Same
  <2>2. QED
    BY <1>r, <1>s, <2>1 DEF PolicyInv, LateOk, FreshOk
<1>8. ASSUME run = "open", home' = home, Removes(Tables.sessions), rec' = rec, list' = list,
             policy' = policy, now' = now
      PROVE  PolicyInv'
  <2>1. Tables'.sessions = {}
    BY <1>8, RowsRemoved
  <2>2. ghost'.switch = ghost.switch
    BY <1>8, RemovesWell
  <2>3. QED
    BY <1>t, <1>8, <2>1, <2>2 DEF PolicyInv
<1>9. CASE Clears
  BY <1>8, <1>9 DEF Clears, Adjusts, Same, calls
<1>10. CASE ApplyClears
  BY <1>8, <1>10, <1>i, <1>o DEF ApplyClears, Same
<1>11. CASE SetsHistory
  <2>1. /\ set = Idle /\ set'.pc = "apply"
        /\ UNCHANGED <<disk, mem, home, run, now, policy, rec, list, ghost>>
    BY <1>11 DEF SetsHistory
  <2>2. QED
    BY <1>i, <1>r, <1>s, <2>1 DEF PolicyInv, LateOk, FreshOk, Survives
<1>12. CASE Applies
  <2>1. /\ set.pc = "apply" /\ policy' = set.config
        /\ ghost' = [ghost EXCEPT !.switch = ghost.switch + 1]
        /\ set' = [pc |-> IF set.config.enabled THEN "sweep" ELSE "clear"]
        /\ UNCHANGED <<disk, mem, home, run, now, rec, list>>
    BY <1>12 DEF Applies, Same
  <2>2. ghost'.switch = ghost.switch + 1
    BY <2>1, GhostStep DEF StoreType
  <2>3. Switched'
    <3>1. rec # Idle => rec.switch \in Nat /\ rec.switch <= ghost.switch
      BY <1>0 DEF PolicyInv, Switched, Recs
    <3>2. rec # Idle => rec.switch <= ghost.switch + 1 /\ rec.switch # ghost.switch + 1
      BY <1>0, <3>1
    <3>3. QED
      BY <2>1, <2>2, <3>2 DEF Switched
  <2>4. set'.pc \notin {"idle", "apply", "delete"} /\ (~policy'.enabled => set'.pc = "clear")
    BY <2>1
  <2>5. QED
    BY <2>1, <2>3, <2>4 DEF PolicyInv, LateOk, FreshOk
<1>13. CASE ApplySweeps
  <2>1. /\ set.pc = "sweep" /\ set' = [pc |-> "delete", cutoff |-> Cutoff]
        /\ UNCHANGED <<disk, mem, home, run, now, policy, rec, list, ghost>>
    BY <1>13 DEF ApplySweeps, Same
  <2>2. ASSUME NEW s \in Tables.sessions
        PROVE  FreshOk(s.at)'
    <3>1. s.at > Cutoff => s.at + policy.retention > now
      BY <1>0, CutoffTyped
    <3>2. list # Idle /\ s.at > Cutoff => s.at + policy.retention > list.since
      BY <1>0, <1>l, <3>1
    <3>3. QED
      BY <2>1, <3>2 DEF FreshOk, Survives
  <2>3. QED
    BY <1>r, <1>s, <2>1, <2>2 DEF PolicyInv, LateOk
<1>14. CASE ApplyDeletes
  <2>1. /\ set.pc = "delete" /\ set' = Idle /\ Removes(Expired(set.cutoff))
        /\ UNCHANGED <<home, run, now, policy, rec, list>>
    BY <1>14 DEF ApplyDeletes, Same
  <2>2. set # Idle /\ run = "open" /\ ghost'.switch = ghost.switch
    BY <1>i, <1>o, <2>1, RemovesWell
  <2>3. ASSUME NEW r \in Tables'.sessions
        PROVE  LateOk(r)' /\ FreshOk(r.at)'
    <3>1. PICK s \in Tables.sessions \ Expired(set.cutoff) : Like(r, s)
      BY <2>1, <2>2, RowsRemoved
    <3>2. r.at = s.at /\ s.at \in Nat /\ ~(s.at <= set.cutoff)
      BY <1>0, <3>1 DEF Expired, Like
    <3>3. r.at > set.cutoff
      <4>1. set.cutoff \in Nat
        BY <1>0, <2>1 DEF SetCalls, Idle
      <4>2. QED
        BY <3>2, <4>1
    <3>4. LateOk(r) /\ FreshOk(r.at)
      BY <3>1, JudgedAlike
    <3>5. QED
      BY <1>i, <2>1, <2>2, <3>3, <3>4 DEF LateOk, FreshOk, Survives
  <2>4. QED
    BY <1>t, <2>1, <2>2, <2>3 DEF PolicyInv
<1>15. QED
  BY <1>1, <1>2, <1>3, <1>4, <1>5, <1>6, <1>7, <1>9, <1>10, <1>11, <1>12, <1>13, <1>14
  DEF Calling

\* It does not look at the libraries.
LEMMA EditingKeepsPolicy ==
  ASSUME StoreType, PolicyInv, Editing
  PROVE  PolicyInv'
<1>1. ASSUME run = "open", Same, UNCHANGED <<policy, calls>>, ghost'.switch = ghost.switch,
             NEW t, IsTables(t), t.version = Tables.version, Writes(t),
             \A r \in t.sessions : \E s \in Tables.sessions : Like(r, s)
      PROVE  PolicyInv'
  <2>1. /\ Tables' = t /\ UNCHANGED <<run, now, policy, rec, list, set>>
    BY <1>1, WritesTo DEF Same, calls
  <2>2. \A r \in Tables'.sessions : LateOk(r) /\ FreshOk(r.at)
    BY <1>1, <2>1, JudgedAlike
  <2>3. QED
    BY <1>1, <2>1, <2>2 DEF PolicyInv, Switched, LateOk, FreshOk, Survives
<1>2. CASE EditsTerms
  <2>1. PICK terms : Writes([Tables EXCEPT !.terms = terms])
    BY <1>2 DEF EditsTerms
  <2>2. /\ run = "open" /\ Same /\ UNCHANGED <<policy, calls, ghost>>
    BY <1>2 DEF EditsTerms, Edits
  <2> DEFINE t == [Tables EXCEPT !.terms = terms]
  <2>3. IsTables(t) /\ t.version = Tables.version /\ Writes(t) /\ t.sessions = Tables.sessions
    BY <2>1, TablesTyped, TermsEdited
  <2> HIDE DEF t
  <2>4. QED
    BY <1>1, <2>2, <2>3 DEF Like
<1>3. CASE EditsScenarios
  <2>1. PICK kept, scenarios : Writes(Saved(Tables, kept, scenarios))
    BY <1>3 DEF EditsScenarios, Saved
  <2>2. /\ run = "open" /\ Same /\ UNCHANGED <<policy, calls>>
        /\ ghost' = [ghost EXCEPT !.born = ghost.born + Cardinality(Names)]
    BY <1>3 DEF EditsScenarios, Edits
  <2>3. ghost'.switch = ghost.switch
    BY <2>2, GhostStep DEF StoreType
  <2> DEFINE t == Saved(Tables, kept, scenarios)
  <2>4. /\ IsTables(t) /\ t.version = Tables.version /\ Writes(t)
        /\ \A r \in t.sessions : \E s \in Tables.sessions : Like(r, s)
    <3>1. IsTables(t) /\ t.version = Tables.version /\ SameRows(t.sessions, Tables.sessions)
      BY TablesTyped, ScenariosSaved
    <3> HIDE DEF t
    <3>2. QED
      BY <2>1, <3>1 DEF t, SameRows
  <2> HIDE DEF t
  <2>5. QED
    BY <1>1, <2>2, <2>3, <2>4
<1>4. QED
  BY <1>2, <1>3 DEF Editing

\* The history policy holds at every moment, whatever interleaves: nothing that
\* keep-nothing forbids is in the table, but a session whose recording had
\* passed the switch before, and nothing is listed that has expired under the
\* retention in force (Store::record, list, apply_config; each holds one lock
\* at a time).
THEOREM PolicyAlwaysHolds == Spec => []PolicyHolds
<1>1. Init => StoreType /\ PolicyInv
  <2> SUFFICES ASSUME Init
               PROVE  StoreType /\ PolicyInv
    OBVIOUS
  <2>1. run = "closed" /\ rec = Idle /\ list = Idle
    BY DEF Init
  <2>2. QED
    BY <2>1, StartsTyped DEF PolicyInv, Switched, LateOk, FreshOk
<1>2. StoreType /\ PolicyInv /\ [Next]_vars => StoreType' /\ PolicyInv'
  <2> SUFFICES ASSUME StoreType, PolicyInv, [Next]_vars
               PROVE  StoreType' /\ PolicyInv'
    OBVIOUS
  <2>1. CASE UNCHANGED vars
    BY <2>1, StepsTyped
    DEF vars, calls, PolicyInv, Switched, LateOk, FreshOk, Survives, Tables
  <2>2. QED
    BY <2>1, StepsTyped, OpeningKeepsPolicy, CallingKeepsPolicy, EditingKeepsPolicy
    DEF Next, Opening, Calling, Editing
<1>3. StoreType /\ PolicyInv => PolicyHolds
  <2> SUFFICES ASSUME StoreType, PolicyInv
               PROVE  PolicyHolds
    OBVIOUS
  <2>1. KeepsNothing
    BY DEF PolicyInv, LateOk, KeepsNothing
  <2>2. ShowsNothingExpired
    <3> SUFFICES ASSUME list.pc = "read", set = Idle, NEW s \in Tables.sessions
                 PROVE  s.at + policy.retention > list.since
      BY DEF ShowsNothingExpired
    <3>1. list # Idle /\ set.pc = "idle" /\ Survives(s.at)
      BY DEF Idle, Survives
    <3>2. QED
      BY <3>1 DEF PolicyInv, FreshOk
  <2>3. QED
    BY <2>1, <2>2 DEF PolicyHolds
<1>4. QED
  BY <1>1, <1>2, <1>3, PTL DEF Spec

-----------------------------------------------------------------------------
(* The migration loses nothing and brings nothing back *)

\* The rows of the old files are numbered from the bottom.
LEMMA LegacyNumbers ==
  ASSUME NEW f \in OldFiles
  PROVE  /\ Newest(f) \in Nat
         /\ \A r \in LegacyRows(f) : r.serial \in Nat /\ r.serial <= Newest(f)
<1>1. /\ IsFiniteSet(f.sessions) /\ \A s \in f.sessions : s.id \in Nat
  BY StoreAssumption
<1>2. NewId(f.sessions) \in Nat \ {0} /\ \A s \in f.sessions : s.id < NewId(f.sessions)
  BY <1>1, NewIdIsNew
<1>3. ASSUME NEW r \in LegacyRows(f)
      PROVE  r.serial \in Nat /\ r.serial <= Newest(f)
  <2>1. PICK s \in f.sessions : s.id = r.id
    BY LegacyTyped
  <2>2. r.serial = s.id
    BY <2>1, LegacyTyped
  <2>3. s.id \in Nat /\ s.id < NewId(f.sessions)
    BY <1>1, <1>2
  <2>4. QED
    BY <1>2, <2>2, <2>3 DEF Newest
<1>4. QED
  BY <1>2, <1>3 DEF Newest

\* A statement that removes some sessions, and records that it has.
LEMMA WritesKeepLegacy ==
  ASSUME StoreType, LegacyInv, run \in {"settling", "open"}, home' = home,
         NEW t, IsTables(t), t.version = Tables.version, Writes(t),
         NEW gone, gone \subseteq Tables.sessions,
         SameRows(t.sessions, Tables.sessions \ gone),
         ghost'.serial = ghost.serial, ghost'.first = ghost.first,
         ghost'.removed = ghost.removed \cup {s.serial : s \in gone},
         edits' \in Nat, edits' = 0 => edits = 0 /\ t.terms = Tables.terms
  PROVE  LegacyInv'
<1>0. /\ ghost.serial \in Nat /\ ghost.first \in OldFiles
      /\ \A s \in disk.sessions : s.serial \in Nat
      /\ \A s \in mem.sessions : s.serial \in Nat
  BY DEF StoreType, GhostType, IsTables, IsRow
<1>1. /\ disk'.version = disk.version
      /\ home = "disk" => disk' = t /\ mem' = mem /\ Tables = disk /\ disk.version = 1
      /\ home # "disk" => mem' = t /\ disk' = disk /\ Tables = mem
  BY WritesTo DEF StoreType, Phases
<1>2. /\ \A r, q \in t.sessions : \E s, u \in Tables.sessions \ gone :
           r.serial = s.serial /\ q.serial = u.serial /\ (s = u => r = q)
      /\ \A s \in Tables.sessions \ gone : \E r \in t.sessions : r.serial = s.serial
  BY DEF SameRows, Like
<1>r. ASSUME NEW r \in t.sessions
      PROVE  \E s \in Tables.sessions \ gone : r.serial = s.serial
  BY <1>2
<1>a. \A s \in disk.sessions, m \in mem.sessions : s.serial # m.serial
  BY DEF LegacyInv
<1>3. Numbered(Tables.sessions)
  BY <1>1 DEF LegacyInv
<1>4. /\ \A r \in t.sessions : r.serial <= ghost.serial
      /\ \A r, q \in t.sessions : r.serial = q.serial => r = q
  BY <1>2, <1>3 DEF Numbered
<1>5. \A r \in t.sessions, g \in gone : r.serial # g.serial
  BY <1>2, <1>3 DEF Numbered
<1>6. Numbered(disk.sessions)' /\ Numbered(mem.sessions)'
  BY <1>1, <1>4 DEF Numbered, LegacyInv
<1>7. \A n \in ghost'.removed : n \in Nat /\ n <= ghost'.serial
  BY <1>0, <1>1, <1>3 DEF LegacyInv, Numbered
<1>8. CASE home = "disk"
  <2>1. \A r \in t.sessions, m \in mem.sessions : r.serial # m.serial
    <3> SUFFICES ASSUME NEW r \in t.sessions, NEW m \in mem.sessions, r.serial = m.serial
                 PROVE  FALSE
      OBVIOUS
    <3>1. PICK s \in Tables.sessions \ gone : r.serial = s.serial
      BY <1>r
    <3>2. s \in disk.sessions /\ s.serial = m.serial
      BY <1>1, <1>8, <3>1
    <3>3. QED
      BY <1>a, <3>2
  <2>0. \A s \in disk.sessions : s.serial \notin ghost.removed
    BY DEF LegacyInv
  <2>2. \A r \in t.sessions : r.serial \notin ghost'.removed
    <3> SUFFICES ASSUME NEW r \in t.sessions
                 PROVE  r.serial \notin ghost'.removed
      OBVIOUS
    <3>1. PICK s \in Tables.sessions \ gone : r.serial = s.serial
      BY <1>r
    <3>2. s \in disk.sessions
      BY <1>1, <1>8, <3>1
    <3>3. r.serial \notin ghost.removed
      BY <2>0, <3>1, <3>2
    <3>4. r.serial \notin {g.serial : g \in gone}
      BY <1>5
    <3>5. QED
      BY <3>3, <3>4
  <2>3. \A l \in LegacyRows(ghost.first) :
          l.serial \in {r.serial : r \in t.sessions} \cup ghost'.removed
    <3> SUFFICES ASSUME NEW l \in LegacyRows(ghost.first), l.serial \notin ghost.removed
                 PROVE  l.serial \in {r.serial : r \in t.sessions} \cup ghost'.removed
      OBVIOUS
    <3>1. PICK d \in disk.sessions : d.serial = l.serial
      BY <1>1, <1>8 DEF LegacyInv
    <3>2. CASE d \in gone
      BY <3>1, <3>2
    <3>3. CASE d \notin gone
      <4>1. d \in Tables.sessions \ gone
        BY <1>1, <1>8, <3>1, <3>3
      <4>2. PICK r \in t.sessions : r.serial = d.serial
        BY <1>2, <4>1
      <4>3. QED
        BY <3>1, <4>2
    <3>4. QED
      BY <3>2, <3>3
  <2>4. edits' = 0 => t.terms = LoadTerms(ghost.first.terms)
    BY <1>1, <1>8 DEF LegacyInv
  <2>5. Newest(ghost.first)' = Newest(ghost.first)
    BY DEF Newest
  <2>6. LegacyRows(ghost.first)' = LegacyRows(ghost.first)
    BY DEF LegacyRows
  <2>7. LoadTerms(ghost.first.terms)' = LoadTerms(ghost.first.terms)
    OBVIOUS
  <2>8. QED
    BY <1>1, <1>6, <1>7, <1>8, <2>1, <2>2, <2>3, <2>4, <2>5, <2>6, <2>7 DEF LegacyInv
<1>9. CASE home # "disk"
  <2>1. \A s \in disk.sessions, r \in t.sessions : s.serial # r.serial
    <3> SUFFICES ASSUME NEW s \in disk.sessions, NEW r \in t.sessions, s.serial = r.serial
                 PROVE  FALSE
      OBVIOUS
    <3>1. PICK m \in Tables.sessions \ gone : r.serial = m.serial
      BY <1>r
    <3>2. m \in mem.sessions /\ s.serial = m.serial
      BY <1>1, <1>9, <3>1
    <3>3. QED
      BY <1>a, <3>2
  <2>2. \A r \in t.sessions : r.serial > Newest(ghost.first)
    BY <1>1, <1>2, <1>9 DEF LegacyInv
  <2>3. \A s \in disk.sessions : s.serial \notin ghost'.removed
    BY <1>1, <1>9 DEF LegacyInv
  <2>4. disk.version = 0 => \A n \in ghost'.removed : n > Newest(ghost.first)
    BY <1>1, <1>9 DEF LegacyInv
  <2>5. Newest(ghost.first)' = Newest(ghost.first)
    BY DEF Newest
  <2>6. LegacyRows(ghost.first)' = LegacyRows(ghost.first)
    BY DEF LegacyRows
  <2>7. QED
    BY <1>1, <1>6, <1>7, <1>9, <2>1, <2>2, <2>3, <2>4, <2>5, <2>6 DEF LegacyInv
<1>10. QED
  BY <1>8, <1>9

\* A recording is numbered after everything the old files held.
LEMMA InsertsKeepLegacy ==
  ASSUME StoreType, LegacyInv, RecordInserts
  PROVE  LegacyInv'
<1>1. /\ rec.pc = "insert" /\ Writes(Inserted) /\ home' = home /\ edits' = edits
      /\ ghost' = [ghost EXCEPT !.serial = ghost.serial + 1]
  BY DEF RecordInserts, Same
<1>2. run = "open"
  BY <1>1 DEF StoreType, Phases, Idle
<1>3. /\ ghost'.serial = ghost.serial + 1 /\ ghost'.removed = ghost.removed
      /\ ghost'.first = ghost.first
  BY <1>1, GhostStep DEF StoreType
<1>4. /\ IsTables(Inserted) /\ Inserted.version = Tables.version
      /\ Inserted.terms = Tables.terms
  BY <1>1, TablesTyped, RowInserted
<1>5. PICK row : /\ row.serial = ghost.serial + 1
                 /\ Inserted.sessions = Tables.sessions \cup {row}
  BY <1>1, TablesTyped, RowInserted
<1>6. /\ disk'.version = disk.version
      /\ home = "disk" => disk' = Inserted /\ mem' = mem /\ Tables = disk
      /\ home # "disk" => mem' = Inserted /\ disk' = disk /\ Tables = mem
  BY <1>1, <1>2, <1>4, WritesTo
<1>7. /\ ghost.serial \in Nat
      /\ \A s \in disk.sessions : s.serial \in Nat /\ s.serial < ghost.serial + 1
      /\ \A s \in mem.sessions : s.serial \in Nat /\ s.serial < ghost.serial + 1
      /\ \A n \in ghost.removed : n \in Nat /\ n < ghost.serial + 1
      /\ Newest(ghost.first) \in Nat /\ Newest(ghost.first) < ghost.serial + 1
  BY DEF StoreType, GhostType, IsTables, IsRow, LegacyInv, Numbered
<1>8. /\ Newest(ghost.first)' = Newest(ghost.first)
      /\ LegacyRows(ghost.first)' = LegacyRows(ghost.first)
      /\ LoadTerms(ghost.first.terms)' = LoadTerms(ghost.first.terms)
  BY <1>3 DEF Newest, LegacyRows
<1>9. Numbered(disk.sessions)' /\ Numbered(mem.sessions)'
  BY <1>3, <1>5, <1>6, <1>7 DEF LegacyInv, Numbered
<1>10. \A n \in ghost'.removed : n \in Nat /\ n <= ghost'.serial
  BY <1>3, <1>7
<1>11. Newest(ghost.first) <= ghost'.serial
  BY <1>3, <1>7
<1>12. CASE home = "disk"
  <2>1. \A s \in Inserted.sessions, m \in mem.sessions : s.serial # m.serial
    BY <1>5, <1>6, <1>7, <1>12 DEF LegacyInv
  <2>2. \A s \in Inserted.sessions : s.serial \notin ghost.removed
    BY <1>5, <1>6, <1>7, <1>12 DEF LegacyInv
  <2>3. {r.serial : r \in disk.sessions} \subseteq {r.serial : r \in Inserted.sessions}
    BY <1>5, <1>6, <1>12
  <2>4. edits = 0 /\ disk.version = 1 => Inserted.terms = LoadTerms(ghost.first.terms)
    BY <1>4, <1>6, <1>12 DEF LegacyInv
  <2>5. QED
    BY <1>1, <1>3, <1>6, <1>7, <1>8, <1>9, <1>10, <1>11, <1>12, <2>1, <2>2, <2>3, <2>4
    DEF LegacyInv
<1>13. CASE home # "disk"
  <2>1. \A s \in disk.sessions, m \in Inserted.sessions : s.serial # m.serial
    BY <1>5, <1>6, <1>7, <1>13 DEF LegacyInv
  <2>2. \A r \in Inserted.sessions : r.serial > Newest(ghost.first)
    BY <1>5, <1>6, <1>7, <1>13 DEF LegacyInv
  <2>3. QED
    BY <1>1, <1>3, <1>6, <1>7, <1>8, <1>9, <1>10, <1>11, <1>13, <2>1, <2>2 DEF LegacyInv
<1>14. QED
  BY <1>12, <1>13

\* Every step keeps the account of the old sessions.
LEMMA StepsKeepLegacy ==
  ASSUME StoreType, LegacyInv, [Next]_vars
  PROVE  LegacyInv'
<1>0. IsTables(Tables) /\ Phases /\ ghost.first \in OldFiles
  BY TablesTyped DEF StoreType, GhostType
<1>i. Idle.pc = "idle"
  BY DEF Idle
<1>o. rec # Idle \/ list # Idle \/ set # Idle => run = "open"
  BY <1>0 DEF Phases
<1>s. ASSUME UNCHANGED <<disk, mem, edits>>, ghost'.serial = ghost.serial,
             ghost'.removed = ghost.removed, ghost'.first = ghost.first
      PROVE  LegacyInv'
  <2>1. /\ Newest(ghost.first)' = Newest(ghost.first)
        /\ LegacyRows(ghost.first)' = LegacyRows(ghost.first)
        /\ LoadTerms(ghost.first.terms)' = LoadTerms(ghost.first.terms)
    BY <1>s DEF Newest, LegacyRows
  <2>2. QED
    BY <1>s, <2>1 DEF LegacyInv, Numbered
<1>m. ASSUME mem'.sessions = {}, UNCHANGED <<disk, ghost, edits>>
      PROVE  LegacyInv'
  <2>1. /\ Newest(ghost.first)' = Newest(ghost.first)
        /\ LegacyRows(ghost.first)' = LegacyRows(ghost.first)
        /\ LoadTerms(ghost.first.terms)' = LoadTerms(ghost.first.terms)
    BY <1>m DEF Newest, LegacyRows
  <2>2. QED
    BY <1>m, <2>1 DEF LegacyInv, Numbered
<1>r. ASSUME run \in {"settling", "open"}, home' = home, edits' = edits,
             NEW gone, gone \subseteq Tables.sessions, Removes(gone)
      PROVE  LegacyInv'
  <2> DEFINE t == Without(Tables, gone)
  <2>1. /\ IsTables(t) /\ t.version = Tables.version /\ t.terms = Tables.terms
        /\ SameRows(t.sessions, Tables.sessions \ gone)
    BY <1>0, RowsLeft
  <2>2. /\ Writes(t) /\ ghost'.serial = ghost.serial /\ ghost'.first = ghost.first
        /\ ghost'.removed = ghost.removed \cup {s.serial : s \in gone}
    BY <1>r, RemovesWell
  <2>3. edits' \in Nat
    BY <1>r DEF LegacyInv
  <2> HIDE DEF t
  <2>4. QED
    BY <1>r, <2>1, <2>2, <2>3, WritesKeepLegacy
<1>e. \A cutoff : Expired(cutoff) \subseteq Tables.sessions
  BY DEF Expired
<1>1. CASE UNCHANGED vars
  BY <1>s, <1>1 DEF vars, bounds
<1>2. CASE Launches \/ DeletesOld \/ Opens \/ Ticks
  BY <1>s, <1>2 DEF Launches, DeletesOld, Opens, Ticks, bounds
<1>3. CASE Migrates
  <2>1. /\ run = "opening" /\ disk.version = 0 /\ disk' = Migrated
        /\ ghost' = [ghost EXCEPT !.born = ghost.born + Cardinality(Migrated.scenarios)]
        /\ UNCHANGED <<mem, edits>>
    BY <1>3 DEF Migrates, bounds
  <2>2. /\ ghost'.serial = ghost.serial /\ ghost'.removed = ghost.removed
        /\ ghost'.first = ghost.first
    BY <2>1, GhostStep DEF StoreType
  <2>3. old = ghost.first
    BY <1>0, <2>1 DEF Phases
  <2>4. /\ disk'.sessions = LegacyRows(ghost.first) /\ disk'.version = 1
        /\ disk'.terms = LoadTerms(ghost.first.terms)
    BY <2>1, <2>3 DEF Migrated
  <2>5. /\ Newest(ghost.first)' = Newest(ghost.first)
        /\ LegacyRows(ghost.first)' = LegacyRows(ghost.first)
        /\ LoadTerms(ghost.first.terms)' = LoadTerms(ghost.first.terms)
    BY <2>2 DEF Newest, LegacyRows
  <2>6. /\ Newest(ghost.first) \in Nat /\ Newest(ghost.first) <= ghost.serial
        /\ ghost.serial \in Nat
        /\ \A s \in LegacyRows(ghost.first) : s.serial \in Nat /\ s.serial <= Newest(ghost.first)
        /\ \A s, q \in LegacyRows(ghost.first) : s.serial = q.serial => s = q
    BY <1>0, LegacyNumbers, LegacyTyped DEF LegacyInv, StoreType, GhostType
  <2>7. Numbered(disk.sessions)' /\ Numbered(mem.sessions)'
    <3>1. \A s \in LegacyRows(ghost.first) : s.serial <= ghost.serial
      BY <2>6
    <3>2. QED
      BY <2>1, <2>2, <2>4, <2>6, <3>1 DEF Numbered, LegacyInv
  <2>8. /\ \A s \in disk'.sessions, m \in mem.sessions : s.serial # m.serial
        /\ \A s \in disk'.sessions : s.serial \notin ghost.removed
    <3>1. /\ \A m \in mem.sessions : m.serial \in Nat /\ m.serial > Newest(ghost.first)
          /\ \A n \in ghost.removed : n \in Nat /\ n > Newest(ghost.first)
      BY <2>1 DEF LegacyInv, StoreType, IsTables, IsRow
    <3>2. QED
      BY <2>4, <2>6, <3>1
  <2>9. QED
    BY <2>1, <2>2, <2>4, <2>5, <2>6, <2>7, <2>8 DEF LegacyInv
<1>4. CASE OpenFails \/ Stops
  <2>1. mem'.sessions = {} /\ UNCHANGED <<disk, ghost, edits>>
    BY <1>4 DEF OpenFails, Stops, Empty, bounds
  <2>2. QED
    BY <1>m, <2>1
<1>5. CASE Settles
  <2> DEFINE gone == IF policy.enabled THEN Expired(Cutoff) ELSE Tables.sessions
  <2>1. run = "settling" /\ home' = home /\ edits' = edits /\ Removes(gone)
    BY <1>5 DEF Settles, bounds
  <2>2. gone \subseteq Tables.sessions
    BY <1>e
  <2> HIDE DEF gone
  <2>3. QED
    BY <1>r, <2>1, <2>2
<1>6. CASE Records \/ RecordSweeps \/ Lists \/ ListReads \/ SetsHistory \/ ApplySweeps
  <2>1. UNCHANGED <<disk, mem, edits, ghost>>
    BY <1>6 DEF Records, RecordSweeps, Lists, ListReads, SetsHistory, Adjusts, ApplySweeps
  <2>2. QED
    BY <1>s, <2>1
<1>7. CASE Applies
  <2>1. /\ UNCHANGED <<disk, mem, edits>>
        /\ ghost' = [ghost EXCEPT !.switch = ghost.switch + 1]
    BY <1>7 DEF Applies
  <2>2. QED
    BY <1>s, <2>1, GhostStep DEF StoreType
<1>8. CASE RecordDeletes \/ ListDeletes \/ ApplyDeletes
  <2>1. PICK cutoff : Removes(Expired(cutoff))
    BY <1>8 DEF RecordDeletes, ListDeletes, ApplyDeletes
  <2>2. run = "open" /\ home' = home /\ edits' = edits
    BY <1>8, <1>i, <1>o DEF RecordDeletes, ListDeletes, ApplyDeletes, Same
  <2>3. QED
    BY <1>e, <1>r, <2>1, <2>2
<1>9. CASE Clears \/ ApplyClears
  <2>1. run = "open" /\ home' = home /\ edits' = edits /\ Removes(Tables.sessions)
    BY <1>9, <1>i, <1>o DEF Clears, Adjusts, ApplyClears, Same
  <2>2. QED
    BY <1>r, <2>1
<1>10. CASE RecordInserts
  BY <1>10, InsertsKeepLegacy
<1>11. ASSUME Edits, home' = home, NEW t, IsTables(t), t.version = Tables.version, Writes(t),
              SameRows(t.sessions, Tables.sessions), ghost'.serial = ghost.serial,
              ghost'.removed = ghost.removed, ghost'.first = ghost.first
       PROVE  LegacyInv'
  <2>1. edits' \in Nat /\ edits' # 0 /\ run = "open"
    BY <1>11 DEF Edits, LegacyInv
  <2> DEFINE gone == {}
  <2>2. /\ gone \subseteq Tables.sessions /\ Tables.sessions \ gone = Tables.sessions
        /\ ghost'.removed = ghost.removed \cup {s.serial : s \in gone}
    BY <1>11
  <2> HIDE DEF gone
  <2>3. QED
    BY <1>11, <2>1, <2>2, WritesKeepLegacy
<1>12. CASE EditsTerms
  <2>1. PICK terms : Writes([Tables EXCEPT !.terms = terms])
    BY <1>12 DEF EditsTerms
  <2>2. Edits /\ home' = home /\ ghost' = ghost
    BY <1>12 DEF EditsTerms, Same
  <2> DEFINE t == [Tables EXCEPT !.terms = terms]
  <2>3. IsTables(t) /\ t.version = Tables.version /\ Writes(t) /\ t.sessions = Tables.sessions
    BY <1>0, <2>1, TermsEdited
  <2>4. SameRows(Tables.sessions, Tables.sessions)
    BY DEF SameRows, Like
  <2> HIDE DEF t
  <2>5. QED
    BY <1>11, <2>2, <2>3, <2>4
<1>13. CASE EditsScenarios
  <2>1. PICK kept, scenarios : Writes(Saved(Tables, kept, scenarios))
    BY <1>13 DEF EditsScenarios, Saved
  <2>2. /\ Edits /\ home' = home
        /\ ghost' = [ghost EXCEPT !.born = ghost.born + Cardinality(Names)]
    BY <1>13 DEF EditsScenarios, Same
  <2>3. /\ ghost'.serial = ghost.serial /\ ghost'.removed = ghost.removed
        /\ ghost'.first = ghost.first
    BY <2>2, GhostStep DEF StoreType
  <2> DEFINE t == Saved(Tables, kept, scenarios)
  <2>4. IsTables(t) /\ t.version = Tables.version /\ SameRows(t.sessions, Tables.sessions)
    BY <1>0, ScenariosSaved
  <2> HIDE DEF t
  <2>5. Writes(t)
    BY <2>1 DEF t
  <2>6. QED
    BY <1>11, <2>2, <2>3, <2>4, <2>5
<1>14. QED
  BY <1>1, <1>2, <1>3, <1>4, <1>5, <1>6, <1>7, <1>8, <1>9, <1>10, <1>12, <1>13 DEF Next

\* However often the program is killed on the way, the old files stay untouched
\* until their rows are in the database; none of their sessions is lost but by
\* being removed, none comes back, and the dictionary the command line tool
\* reads is the same before, on the way and after (init_or_migrate,
\* delete_legacy_files, open_store and peek_terms, for any old files).
THEOREM LegacyIsSettled == Spec => []LegacySettled
<1>1. Init => StoreType /\ LegacyInv
  <2> SUFFICES ASSUME Init
               PROVE  StoreType /\ LegacyInv
    OBVIOUS
  <2>1. StoreType
    BY StartsTyped
  <2>2. /\ old \in OldFiles /\ disk = Empty /\ mem = Empty /\ edits = 0
        /\ ghost.serial = NewId(old.sessions) - 1 /\ ghost.removed = {} /\ ghost.first = old
    BY DEF Init
  <2>3. disk.sessions = {} /\ mem.sessions = {} /\ disk.version = 0
    BY <2>2 DEF Empty
  <2>4. Newest(old) \in Nat /\ Newest(old) = ghost.serial
    BY <2>2, LegacyNumbers DEF Newest
  <2>5. Newest(old) <= ghost.serial
    BY <2>4
  <2>6. QED
    BY <2>1, <2>2, <2>3, <2>4, <2>5 DEF LegacyInv, Numbered
<1>2. StoreType /\ LegacyInv /\ [Next]_vars => StoreType' /\ LegacyInv'
  BY StepsTyped, StepsKeepLegacy
<1>3. StoreType /\ LegacyInv => LegacySettled
  <2> SUFFICES ASSUME StoreType, LegacyInv
               PROVE  LegacySettled
    OBVIOUS
  <2>1. /\ disk.version = 0 => old = ghost.first
        /\ disk.version \in {0, 1}
    BY DEF StoreType, Phases
  <2>2. edits = 0 => Peeked = Texts(LoadTerms(ghost.first.terms))
    BY <2>1 DEF LegacyInv, Peeked
  <2>3. {s.serial : s \in disk.sessions} \cap ghost.removed = {}
    BY DEF LegacyInv
  <2>4. QED
    BY <2>1, <2>2, <2>3 DEF LegacyInv, LegacySettled
<1>4. QED
  BY <1>1, <1>2, <1>3, PTL DEF Spec

-----------------------------------------------------------------------------
(* A reference leads where it led *)

\* Tables as they were but for a part that no reference goes through.
LEMMA LikeLinked ==
  ASSUME NEW t, NEW w, Linked(t), SameRows(w.sessions, t.sessions), w.slots = t.slots,
         \A r \in w.sessions : \E s \in t.sessions : s.src = r.src
  PROVE  Linked(w)
<1>1. ASSUME NEW s \in w.sessions, NEW r \in w.sessions, s.id = r.id
      PROVE  s = r
  <2>1. PICK u, q \in t.sessions : Like(s, u) /\ Like(r, q) /\ (u = q => s = r)
    BY DEF SameRows
  <2>2. u = q
    BY <1>1, <2>1 DEF Like, Linked
  <2>3. QED
    BY <2>1, <2>2
<1>2. ASSUME NEW s \in t.sessions
      PROVE  \E r \in w.sessions : r.id = s.id /\ r.serial = s.serial
  BY DEF SameRows, Like
<1>3. ASSUME NEW r \in w.sessions, r.src # 0
      PROVE  \E q \in w.sessions : q.id = r.src
  <2>1. PICK s \in t.sessions : s.src = r.src
    OBVIOUS
  <2>2. PICK u \in t.sessions : u.id = r.src
    BY <1>3, <2>1 DEF Linked
  <2>3. QED
    BY <1>2, <2>2
<1>4. ASSUME NEW p \in w.slots
      PROVE  \E r \in w.sessions : r.id = p.session /\ r.serial = p.of
  <2>1. PICK s \in t.sessions : s.id = p.session /\ s.serial = p.of
    BY DEF Linked
  <2>2. QED
    BY <1>2, <2>1
<1>5. QED
  BY <1>1, <1>3, <1>4 DEF Linked

\* The foreign keys: what refers to a row that goes is cut off or goes with it.
LEMMA DeletesKeepLinks ==
  ASSUME NEW t, IsTables(t), Linked(t), NEW gone, gone \subseteq t.sessions
  PROVE  Linked(Without(t, gone))
<1> DEFINE w == Without(t, gone)
<1>0. /\ SameRows(w.sessions, t.sessions \ gone)
      /\ \A r \in w.sessions : r.src # 0 => /\ \A g \in gone : g.id # r.src
                                           /\ \E s \in t.sessions : s.src = r.src
      /\ \A p \in w.slots : p \in t.slots /\ Spared(p, gone)
  BY RowsLeft
<1> HIDE DEF w
<1>1. ASSUME NEW s \in w.sessions, NEW r \in w.sessions, s.id = r.id
      PROVE  s = r
  <2>1. PICK u, q \in t.sessions \ gone : Like(s, u) /\ Like(r, q) /\ (u = q => s = r)
    BY <1>0 DEF SameRows
  <2>2. u = q
    BY <1>1, <2>1 DEF Like, Linked
  <2>3. QED
    BY <2>1, <2>2
<1>2. ASSUME NEW s \in t.sessions \ gone
      PROVE  \E r \in w.sessions : r.id = s.id /\ r.serial = s.serial
  BY <1>0 DEF SameRows, Like
<1>3. ASSUME NEW r \in w.sessions, r.src # 0
      PROVE  \E q \in w.sessions : q.id = r.src
  <2>1. PICK s \in t.sessions : s.src = r.src
    BY <1>0, <1>3
  <2>2. PICK u \in t.sessions : u.id = r.src
    BY <1>3, <2>1 DEF Linked
  <2>3. u \notin gone
    BY <1>0, <1>3, <2>2
  <2>4. QED
    BY <1>2, <2>2, <2>3
<1>4. ASSUME NEW p \in w.slots
      PROVE  \E r \in w.sessions : r.id = p.session /\ r.serial = p.of
  <2>1. p \in t.slots /\ \A g \in gone : g.id # p.session
    BY <1>0 DEF Spared
  <2>2. PICK s \in t.sessions : s.id = p.session /\ s.serial = p.of
    BY <2>1 DEF Linked
  <2>3. QED
    BY <1>2, <2>1, <2>2
<1>5. Linked(w)
  BY <1>1, <1>3, <1>4 DEF Linked
<1>6. QED
  BY <1>5 DEF w

\* A recording refers to a row that is there, and its id was nobody's.
LEMMA InsertsKeepLinks ==
  ASSUME StoreType, rec.pc = "insert", Linked(Tables)
  PROVE  Linked(Inserted)
<1>0. IsTables(Tables)
  BY TablesTyped
<1>1. PICK row :
        /\ IsRow(row)
        /\ row.src # 0 => \E s \in Tables.sessions : s.id = row.src
        /\ \A s \in Tables.sessions : s.id < row.id
        /\ Inserted.sessions = Tables.sessions \cup {row}
        /\ Inserted.slots = Tables.slots \cup {[session |-> row.id, of |-> row.serial]}
  BY <1>0, RowInserted
<1>2. row.id \in Nat /\ \A s \in Tables.sessions : s.id \in Nat /\ s.id # row.id
  <2>1. row.id \in Nat /\ \A s \in Tables.sessions : s.id \in Nat
    BY <1>0, <1>1 DEF IsTables, IsRow
  <2>2. QED
    BY <1>1, <2>1
<1>3. \A s, r \in Inserted.sessions : s.id = r.id => s = r
  BY <1>1, <1>2 DEF Linked
<1>4. \A s \in Inserted.sessions : s.src # 0 => \E r \in Inserted.sessions : r.id = s.src
  BY <1>1 DEF Linked
<1>5. \A p \in Inserted.slots : \E s \in Inserted.sessions : s.id = p.session /\ s.serial = p.of
  BY <1>1 DEF Linked
<1>6. QED
  BY <1>3, <1>4, <1>5 DEF Linked

\* What a statement leaves is linked, in the database it ran on and in the other.
LEMMA WritesKeepLinks ==
  ASSUME LinkInv, NEW t, Linked(t), Writes(t)
  PROVE  LinkInv'
BY DEF LinkInv, Linked, Writes

\* Every step keeps the references.
LEMMA StepsKeepLinks ==
  ASSUME StoreType, LinkInv, [Next]_vars
  PROVE  LinkInv'
<1>0. /\ IsTables(Tables) /\ Linked(Tables) /\ Phases /\ ghost.first \in OldFiles
  BY TablesTyped DEF StoreType, GhostType, LinkInv, Tables
<1>s. ASSUME UNCHANGED <<disk, mem>>
      PROVE  LinkInv'
  BY <1>s DEF LinkInv, Linked
<1>r. ASSUME NEW gone, gone \subseteq Tables.sessions, Removes(gone)
      PROVE  LinkInv'
  <2>1. Linked(Without(Tables, gone)) /\ Writes(Without(Tables, gone))
    BY <1>0, <1>r, DeletesKeepLinks DEF Removes
  <2>2. QED
    BY <2>1, WritesKeepLinks
<1>e. \A cutoff : Expired(cutoff) \subseteq Tables.sessions
  BY DEF Expired
<1>1. CASE UNCHANGED vars
  BY <1>s, <1>1 DEF vars
<1>2. CASE \/ Launches \/ DeletesOld \/ Opens \/ Ticks \/ Records \/ RecordSweeps
           \/ Lists \/ ListReads \/ SetsHistory \/ Applies \/ ApplySweeps
  <2>1. UNCHANGED <<disk, mem>>
    BY <1>2 DEF Launches, DeletesOld, Opens, Ticks, Records, RecordSweeps, Lists, ListReads,
       SetsHistory, Applies, ApplySweeps
  <2>2. QED
    BY <1>s, <2>1
<1>3. CASE Migrates
  <2>1. disk.version = 0 /\ disk' = Migrated /\ mem' = mem
    BY <1>3 DEF Migrates
  <2>2. old = ghost.first
    BY <1>0, <2>1 DEF Phases
  <2>3. disk'.sessions = LegacyRows(ghost.first) /\ disk'.slots = {}
    BY <2>1, <2>2 DEF Migrated
  <2>4. Linked(disk)'
    BY <1>0, <2>3, LegacyTyped DEF Linked
  <2>5. QED
    BY <2>1, <2>4 DEF LinkInv, Linked
<1>4. CASE OpenFails \/ Stops
  <2>1. mem'.sessions = {} /\ mem'.slots = {} /\ disk' = disk
    BY <1>4 DEF OpenFails, Stops, Empty
  <2>2. QED
    BY <2>1 DEF LinkInv, Linked
<1>5. CASE \/ Settles \/ RecordDeletes \/ ListDeletes \/ ApplyDeletes \/ Clears \/ ApplyClears
  <2>1. PICK gone : gone \subseteq Tables.sessions /\ Removes(gone)
    BY <1>5, <1>e DEF Settles, RecordDeletes, ListDeletes, ApplyDeletes, Clears, ApplyClears
  <2>2. QED
    BY <1>r, <2>1
<1>6. CASE RecordInserts
  <2>1. rec.pc = "insert" /\ Writes(Inserted)
    BY <1>6 DEF RecordInserts
  <2>2. QED
    BY <1>0, <2>1, InsertsKeepLinks, WritesKeepLinks
<1>7. CASE EditsTerms
  <2>1. PICK terms : Writes([Tables EXCEPT !.terms = terms])
    BY <1>7 DEF EditsTerms
  <2> DEFINE t == [Tables EXCEPT !.terms = terms]
  <2>2. t.sessions = Tables.sessions /\ t.slots = Tables.slots
    BY <1>0, TermsEdited
  <2> HIDE DEF t
  <2>3. Linked(t)
    BY <1>0, <2>2 DEF Linked
  <2>4. Writes(t)
    BY <2>1 DEF t
  <2>5. QED
    BY <2>3, <2>4, WritesKeepLinks
<1>8. CASE EditsScenarios
  <2>1. PICK kept, scenarios : Writes(Saved(Tables, kept, scenarios))
    BY <1>8 DEF EditsScenarios, Saved
  <2> DEFINE t == Saved(Tables, kept, scenarios)
  <2>2. /\ SameRows(t.sessions, Tables.sessions) /\ t.slots = Tables.slots
        /\ \A r \in t.sessions : \E s \in Tables.sessions : s.src = r.src
    BY <1>0, ScenariosSaved
  <2> HIDE DEF t
  <2>3. Linked(t)
    BY <1>0, <2>2, LikeLinked
  <2>4. Writes(t)
    BY <2>1 DEF t
  <2>5. QED
    BY <2>3, <2>4, WritesKeepLinks
<1>9. QED
  BY <1>1, <1>2, <1>3, <1>4, <1>5, <1>6, <1>7, <1>8 DEF Next

\* Whatever is deleted, and whatever new session is given an old id, a slot
\* stays with the session it was recorded with and a source is a session that
\* is there (ON DELETE in schema.rs, insert_session's resolution of the source).
THEOREM SlotsAlwaysFollow == Spec => []SlotsFollow
<1>1. Init => StoreType /\ LinkInv
  <2> SUFFICES ASSUME Init
               PROVE  LinkInv
    BY StartsTyped
  <2>1. disk = Empty /\ mem = Empty
    BY DEF Init
  <2>2. QED
    BY <2>1 DEF LinkInv, Linked, Empty
<1>2. StoreType /\ LinkInv /\ [Next]_vars => StoreType' /\ LinkInv'
  BY StepsTyped, StepsKeepLinks
<1>3. LinkInv => SlotsFollow
  BY DEF LinkInv, Linked, SlotsFollow, Tables
<1>4. QED
  BY <1>1, <1>2, <1>3, PTL DEF Spec

-----------------------------------------------------------------------------
(* A save of the scenarios, entry by entry *)

SaveStep(acc, entries, born, i) ==
  SaveEntry(acc, [id |-> entries[i].id, name |-> entries[i].name, pos |-> i - 1], born + i)

\* The recursive function a save folds its entries with, on sets of them.
Folds(f, n, base, entries, born) ==
  f = [s \in SUBSET (1 .. n) |->
         IF s = {} THEN base ELSE SaveStep(f[s \ {Max(s)}], entries, born, Max(s))]

\* The last of some entries.
LEMMA LastEntry ==
  ASSUME NEW n \in Nat, NEW s \in SUBSET (1 .. n), s # {}
  PROVE  Max(s) \in s /\ \A i \in s : Max(s) >= i
<1> DEFINE all == 1 .. n
<1>0. IsFiniteSet(all) /\ s \in SUBSET all /\ all \in SUBSET Nat
  BY FS_Interval
<1> HIDE DEF all
<1>1. IsFiniteSet(s) /\ s \in SUBSET Nat
  BY <1>0, FS_Subset
<1>2. PICK m \in s : \A i \in s : m >= i
  BY <1>1, LargestExists
<1>3. QED
  BY <1>2 DEF Max

\* Its value on some entries.
LEMMA FoldAt ==
  ASSUME NEW n, NEW base, NEW entries, NEW born, NEW f, Folds(f, n, base, entries, born)
  PROVE  \A s \in SUBSET (1 .. n) :
           s # {} => f[s] = SaveStep(f[s \ {Max(s)}], entries, born, Max(s))
<1> DEFINE g == [t \in SUBSET (1 .. n) |->
                   IF t = {} THEN base ELSE SaveStep(f[t \ {Max(t)}], entries, born, Max(t))]
<1>1. f = g
  BY DEF Folds
<1> SUFFICES ASSUME NEW s \in SUBSET (1 .. n), s # {}
             PROVE  f[s] = SaveStep(f[s \ {Max(s)}], entries, born, Max(s))
  OBVIOUS
<1>2. g[s] = SaveStep(f[s \ {Max(s)}], entries, born, Max(s))
  OBVIOUS
<1> HIDE DEF g
<1>3. QED
  BY <1>1, <1>2

\* There is such a function for any number of entries: one for n entries gives
\* one for n + 1, so no number is the least without.
LEMMA FoldExists ==
  ASSUME NEW n \in Nat, NEW base, NEW entries, NEW born
  PROVE  \E f : Folds(f, n, base, entries, born)
<1> DEFINE Has(k) == \E f : Folds(f, k, base, entries, born)
           Bad    == {k \in Nat : ~Has(k)}
<1> SUFFICES ASSUME ~Has(n)
             PROVE  FALSE
  OBVIOUS
<1>1. n \in Bad
  OBVIOUS
<1>2. PICK k \in Bad : \A j \in Bad : ~(<<j, k>> \in OpToRel(<, Nat))
  <2> HIDE DEF Has
  <2>1. Bad # {} /\ Bad \subseteq Nat
    BY <1>1
  <2> HIDE DEF Bad
  <2>2. QED
    BY <2>1, NatLessThanWellFounded, WFMin
<1>3. k \in Nat /\ \A j \in Nat : j < k => Has(j)
  <2> HIDE DEF Has
  <2>1. QED
    BY <1>2 DEF OpToRel
<1>4. ~Has(k)
  OBVIOUS
<1>5. k # 0
  <2> SUFFICES ASSUME k = 0
               PROVE  Has(0)
    BY <1>4
  <2> DEFINE f == [s \in SUBSET (1 .. 0) |-> base]
  <2>1. SUBSET (1 .. 0) = {{}}
    OBVIOUS
  <2>2. Folds(f, 0, base, entries, born)
    BY <2>1 DEF Folds
  <2>3. QED
    BY <2>2
<1>6. k - 1 \in Nat /\ k - 1 < k
  BY <1>3, <1>5
<1>7. PICK f : Folds(f, k - 1, base, entries, born)
  BY <1>3, <1>6
<1> DEFINE Old == SUBSET (1 .. (k - 1))
           g   == [s \in SUBSET (1 .. k) |->
                     IF k \in s THEN SaveStep(f[s \ {k}], entries, born, k) ELSE f[s]]
<1>8. ASSUME NEW s \in SUBSET (1 .. k)
      PROVE  g[s] = IF s = {} THEN base
                    ELSE SaveStep(g[s \ {Max(s)}], entries, born, Max(s))
  <2>1. s \ {k} \in Old /\ (k \notin s => s \in Old)
    BY <1>3
  <2>2. CASE k \in s
    <3>1. Max(s) \in s /\ \A i \in s : Max(s) >= i
      BY <1>3, <2>2, LastEntry
    <3>2. Max(s) = k
      <4> PICK m : m = Max(s)
        OBVIOUS
      <4>1. m \in 1 .. k /\ m >= k
        BY <2>2, <3>1
      <4>2. QED
        BY <1>3, <4>1
    <3>3. g[s \ {k}] = f[s \ {k}]
      OBVIOUS
    <3>4. QED
      BY <2>2, <3>2, <3>3
  <2>3. CASE k \notin s /\ s = {}
    <3>1. f[{}] = base /\ g[s] = f[s]
      BY <1>7, <2>1, <2>3 DEF Folds
    <3>2. QED
      BY <2>3, <3>1
  <2>4. CASE k \notin s /\ s # {}
    <3>1. s \in SUBSET (1 .. (k - 1)) /\ s # {}
      BY <2>1, <2>4
    <3>2. f[s] = SaveStep(f[s \ {Max(s)}], entries, born, Max(s))
      <4> DEFINE m == k - 1
      <4>1. Folds(f, m, base, entries, born) /\ s \in SUBSET (1 .. m) /\ s # {}
        BY <1>7, <3>1
      <4> HIDE DEF m
      <4>2. \A t \in SUBSET (1 .. m) :
              t # {} => f[t] = SaveStep(f[t \ {Max(t)}], entries, born, Max(t))
        BY <4>1, FoldAt
      <4>3. QED
        BY <4>1, <4>2
    <3>3. s \ {Max(s)} \in SUBSET (1 .. k) /\ k \notin s \ {Max(s)}
      BY <2>4
    <3>4. g[s \ {Max(s)}] = f[s \ {Max(s)}] /\ g[s] = f[s]
      BY <2>4, <3>3
    <3>5. QED
      BY <2>4, <3>2, <3>4
  <2>5. QED
    BY <2>2, <2>3, <2>4
<1>9. Folds(g, k, base, entries, born)
  <2>1. DOMAIN g = SUBSET (1 .. k)
    OBVIOUS
  <2>2. g = [s \in SUBSET (1 .. k) |-> g[s]]
    OBVIOUS
  <2> HIDE DEF g
  <2>3. QED
    BY <1>8, <2>2 DEF Folds
<1>10. QED
  BY <1>4, <1>9

\* A save works through its entries, each on what the one before left.
InSteps(acc, n, entries, scenarios, born) ==
  /\ acc[0] = Start(scenarios, entries)
  /\ \A k \in 0 .. n - 1 : acc[k + 1] = SaveStep(acc[k], entries, born, k + 1)
  /\ SaveScenarios(scenarios, entries, born)
       = IF /\ \A i, j \in DOMAIN entries : entries[i].name = entries[j].name => i = j
            /\ \A i \in DOMAIN entries : Blank \notin {entries[i].name, entries[i].directive}
            /\ acc[n].ok
         THEN acc[n] ELSE Refused(scenarios)

\* The fold of the code's loop is those steps.
LEMMA SavesInSteps ==
  ASSUME NEW n \in Nat, NEW entries, DOMAIN entries = 1 .. n, NEW scenarios, NEW born
  PROVE  \E acc : InSteps(acc, n, entries, scenarios, born)
<1> DEFINE base == Start(scenarios, entries)
           seq  == [i \in DOMAIN entries |-> i]
           it   == CHOOSE f : f = [s \in SUBSET DOMAIN seq |->
                                     IF s = {} THEN base
                                     ELSE SaveStep(f[s \ {Max(s)}], entries, born, seq[Max(s)])]
           acc  == [k \in 0 .. n |-> it[1 .. k]]
<1>1. SaveScenarios(scenarios, entries, born)
        = IF /\ \A i, j \in DOMAIN entries : entries[i].name = entries[j].name => i = j
             /\ \A i \in DOMAIN entries : Blank \notin {entries[i].name, entries[i].directive}
             /\ it[DOMAIN seq].ok
          THEN it[DOMAIN seq] ELSE Refused(scenarios)
  BY DEF SaveScenarios, FoldLeftDomain, FoldLeft, MapThenFoldSet, SaveStep
<1>2. DOMAIN seq = 1 .. n /\ \A i \in 1 .. n : seq[i] = i
  OBVIOUS
<1> HIDE DEF seq, base
<1>3. PICK f : Folds(f, n, base, entries, born)
  BY FoldExists
<1>4. f = [s \in SUBSET DOMAIN seq |->
             IF s = {} THEN base
             ELSE SaveStep(f[s \ {Max(s)}], entries, born, seq[Max(s)])]
  <2>1. ASSUME NEW s \in SUBSET (1 .. n), s # {}
        PROVE  seq[Max(s)] = Max(s)
    BY <1>2, <2>1, LastEntry
  <2>2. \A s \in SUBSET (1 .. n) :
          (IF s = {} THEN base ELSE SaveStep(f[s \ {Max(s)}], entries, born, Max(s)))
            = IF s = {} THEN base
              ELSE SaveStep(f[s \ {Max(s)}], entries, born, seq[Max(s)])
    BY <2>1
  <2>3. QED
    BY <1>2, <1>3, <2>2 DEF Folds
<1> DEFINE g == [s \in SUBSET DOMAIN seq |->
                   IF s = {} THEN base
                   ELSE SaveStep(it[s \ {Max(s)}], entries, born, seq[Max(s)])]
<1>5. it = g
  BY <1>4
<1>10. \A s \in SUBSET (1 .. n) :
        g[s] = IF s = {} THEN base ELSE SaveStep(it[s \ {Max(s)}], entries, born, seq[Max(s)])
  <2> HIDE DEF it
  <2>1. QED
    BY <1>2
<1> HIDE DEF g
<1> HIDE DEF it
<1>6. it[1 .. 0] = base
  <2>1. 1 .. 0 = {} /\ {} \in SUBSET DOMAIN seq
    OBVIOUS
  <2>2. QED
    BY <1>2, <1>5, <1>10, <2>1
<1>7. ASSUME NEW k \in 0 .. n - 1
      PROVE  it[1 .. (k + 1)] = SaveStep(it[1 .. k], entries, born, k + 1)
  <2> DEFINE s == 1 .. (k + 1)
  <2>1. s \in SUBSET (1 .. n) /\ s # {} /\ k + 1 \in s /\ \A i \in s : k + 1 >= i
    BY SMTT(30)
  <2>2. s \ {k + 1} = 1 .. k
    OBVIOUS
  <2> HIDE DEF s
  <2>3. Max(s) \in s /\ \A i \in s : Max(s) >= i
    BY <2>1, LastEntry
  <2>4. Max(s) = k + 1
    <3> PICK m : m = Max(s)
      OBVIOUS
    <3>1. k + 1 >= m /\ m >= k + 1 /\ m \in 1 .. n
      BY <2>1, <2>3
    <3>2. QED
      BY <3>1
  <2>5. it[s] = SaveStep(it[s \ {k + 1}], entries, born, seq[k + 1])
    BY <1>2, <1>5, <1>10, <2>1, <2>4
  <2>6. QED
    BY <1>2, <2>1, <2>2, <2>5 DEF s
<1>8. /\ acc[0] = base
      /\ \A k \in 0 .. n - 1 : acc[k + 1] = SaveStep(acc[k], entries, born, k + 1)
      /\ acc[n] = it[1 .. n]
  BY <1>6, <1>7
<1> HIDE DEF acc
<1>9. InSteps(acc, n, entries, scenarios, born)
  BY <1>1, <1>2, <1>8 DEF base, InSteps
<1>11. QED
  BY <1>9


-----------------------------------------------------------------------------
(* What a save leaves of the library *)

IsScenario(c) ==
  /\ c = [id |-> c.id, name |-> c.name, pos |-> c.pos, born |-> c.born]
  /\ c.id \in Nat \ {0} /\ c.born \in Nat \ {0}

\* One row per id and per birth, none born later than the last.
IsLibrary(rows, last) ==
  /\ IsFiniteSet(rows)
  /\ \A c \in rows : IsScenario(c) /\ c.born <= last
  /\ \A c, d \in rows : c.id = d.id \/ c.born = d.born => c = d

SameScenario(c, d) == c.id = d.id /\ c.born = d.born

\* A library after a save of some entries of it: what was kept is there, and
\* what is there was kept or is new.
Follows(rows, scenarios, kept, born) ==
  /\ \A r \in rows : r.born > born \/ \E c \in scenarios : c.id \in kept /\ SameScenario(c, r)
  /\ \A c \in scenarios : c.id \in kept => \E r \in rows : SameScenario(c, r)

\* A row under another name or place is the same scenario.
LEMMA RowRenamed ==
  ASSUME NEW c, IsScenario(c), NEW name, NEW pos
  PROVE  /\ IsScenario([c EXCEPT !.name = name]) /\ SameScenario([c EXCEPT !.name = name], c)
         /\ LET d == [c EXCEPT !.name = name, !.pos = pos]
            IN  IsScenario(d) /\ SameScenario(d, c)
<1>1. [c EXCEPT !.name = name] = [id |-> c.id, name |-> name, pos |-> c.pos, born |-> c.born]
  BY DEF IsScenario
<1>2. [c EXCEPT !.name = name, !.pos = pos]
        = [id |-> c.id, name |-> name, pos |-> pos, born |-> c.born]
  <2> DEFINE d == [c EXCEPT !.name = name]
  <2>1. [d EXCEPT !.pos = pos] = [id |-> c.id, name |-> name, pos |-> pos, born |-> c.born]
    <3>1. d = [id |-> c.id, name |-> name, pos |-> c.pos, born |-> c.born]
      BY <1>1
    <3> HIDE DEF d
    <3>2. QED
      BY <3>1
  <2>2. QED
    BY <2>1
<1>3. QED
  BY <1>1, <1>2 DEF IsScenario, SameScenario

\* The rows that are kept, out of the way.
LEMMA StartsWell ==
  ASSUME NEW scenarios, NEW born, IsLibrary(scenarios, born), NEW entries
  PROVE  LET first == Start(scenarios, entries)
         IN  /\ first = [ok |-> first.ok, table |-> first.table]
             /\ IsLibrary(first.table, born)
             /\ Follows(first.table, scenarios, Kept(entries), born)
<1> DEFINE kept    == Kept(entries)
           stays   == {r \in scenarios : r.id \in kept}
           Row(r)  == [r EXCEPT !.name = IF r.id \in kept THEN "stash" ELSE r.name]
           rows    == {Row(r) : r \in stays}
           first   == Start(scenarios, entries)
<1>1. \A r \in stays : r \in scenarios /\ IsScenario(Row(r)) /\ SameScenario(Row(r), r)
  BY RowRenamed DEF IsLibrary
<1>2. first = [ok |-> TRUE, table |-> rows]
  <2>1. Stashed(stays, kept) = rows
    <3>1. \A r \in stays : [r EXCEPT !.name = IF r.id \in kept THEN "stash" ELSE @] = Row(r)
      OBVIOUS
    <3>2. QED
      BY <3>1 DEF Stashed
  <2>2. QED
    BY <2>1 DEF Start, Done
<1>3. IsFiniteSet(rows)
  <2> DEFINE f == [r \in stays |-> Row(r)]
  <2>1. IsFiniteSet(stays)
    BY FS_Subset DEF IsLibrary
  <2>2. f \in Surjection(stays, rows)
    BY DEF Surjection
  <2> HIDE DEF f, rows, stays
  <2>3. QED
    BY <2>1, <2>2, FS_Surjection
<1> HIDE DEF Row
<1>4. \A c \in rows : IsScenario(c) /\ c.born <= born
  BY <1>1 DEF IsLibrary, SameScenario
<1>5. ASSUME NEW c \in rows, NEW d \in rows, c.id = d.id \/ c.born = d.born
      PROVE  c = d
  <2>1. PICK r \in stays : c = Row(r)
    OBVIOUS
  <2>2. PICK q \in stays : d = Row(q)
    OBVIOUS
  <2>3. r.id = q.id \/ r.born = q.born
    BY <1>1, <1>5, <2>1, <2>2 DEF SameScenario
  <2>4. QED
    BY <1>1, <2>1, <2>2, <2>3 DEF IsLibrary
<1>6. \A r \in rows : \E c \in scenarios : c.id \in kept /\ SameScenario(c, r)
  BY <1>1 DEF SameScenario
<1>7. \A c \in scenarios : c.id \in kept => \E r \in rows : SameScenario(c, r)
  BY <1>1 DEF SameScenario
<1> HIDE DEF rows, first
<1>8. QED
  BY <1>2, <1>3, <1>4, <1>5, <1>6, <1>7 DEF IsLibrary, Follows, first

\* One entry renames a row in its place, or adds one under a new id, or fails.
LEMMA EntryWell ==
  ASSUME NEW scenarios, NEW kept, NEW born \in Nat, NEW acc, NEW entry, NEW last \in Nat,
         acc = [ok |-> acc.ok, table |-> acc.table], last >= born,
         IsLibrary(acc.table, last), Follows(acc.table, scenarios, kept, born)
  PROVE  LET next == SaveEntry(acc, entry, last + 1)
         IN  /\ next = [ok |-> next.ok, table |-> next.table]
             /\ IsLibrary(next.table, last + 1)
             /\ Follows(next.table, scenarios, kept, born)
<1> DEFINE rows  == acc.table
           clash == \E r \in rows : r.name = entry.name /\ r.id # entry.id
           prior == {r \in rows : r.id = entry.id}
           fresh == [id |-> NewId(rows), name |-> entry.name, pos |-> entry.pos, born |-> last + 1]
           same  == [(CHOOSE r \in prior : TRUE) EXCEPT !.name = entry.name, !.pos = entry.pos]
           row   == IF entry.id = 0 THEN fresh ELSE same
           next  == SaveEntry(acc, entry, last + 1)
<1> SUFFICES /\ next = [ok |-> next.ok, table |-> next.table]
             /\ IsLibrary(next.table, last + 1)
             /\ Follows(next.table, scenarios, kept, born)
  OBVIOUS
<1>1. next = IF ~acc.ok \/ clash \/ (entry.id # 0 /\ prior = {}) THEN [acc EXCEPT !.ok = FALSE]
             ELSE Done((rows \ prior) \cup {row})
  BY DEF SaveEntry
<1>2. ASSUME next = [acc EXCEPT !.ok = FALSE]
      PROVE  /\ next = [ok |-> next.ok, table |-> next.table]
             /\ IsLibrary(next.table, last + 1)
             /\ Follows(next.table, scenarios, kept, born)
  <2>1. next = [ok |-> FALSE, table |-> rows]
    BY <1>2
  <2> HIDE DEF next
  <2>2. \A c \in rows : c.born \in Nat /\ c.born <= last
    BY DEF IsLibrary, IsScenario
  <2>3. \A c \in rows : c.born <= last + 1
    BY <2>2
  <2>4. next.table = rows /\ next = [ok |-> next.ok, table |-> next.table]
    BY <2>1
  <2> HIDE DEF rows
  <2>5. QED
    BY <2>3, <2>4 DEF IsLibrary, rows
<1>3. ASSUME NEW new, IsScenario(new), new.born <= last + 1,
             \A r \in rows \ prior : r.id # new.id /\ r.born # new.born,
             next = Done((rows \ prior) \cup {new}),
             \/ new.born > born /\ prior = {}
             \/ \E r \in prior : SameScenario(r, new)
      PROVE  /\ next = [ok |-> next.ok, table |-> next.table]
             /\ IsLibrary(next.table, last + 1)
             /\ Follows(next.table, scenarios, kept, born)
  <2>1. next = [ok |-> TRUE, table |-> (rows \ prior) \cup {new}]
    BY <1>3 DEF Done
  <2>2. /\ next = [ok |-> next.ok, table |-> next.table]
        /\ next.table = (rows \ prior) \cup {new}
    BY <2>1
  <2> HIDE DEF next
  <2>3. IsFiniteSet((rows \ prior) \cup {new})
    BY FS_Difference, FS_AddElement DEF IsLibrary
  <2>4. \A c \in (rows \ prior) \cup {new} : IsScenario(c) /\ c.born <= last + 1
    <3>1. \A c \in rows : IsScenario(c) /\ c.born \in Nat /\ c.born <= last
      BY DEF IsLibrary, IsScenario
    <3>2. QED
      BY <1>3, <3>1
  <2>5. \A c, d \in (rows \ prior) \cup {new} : c.id = d.id \/ c.born = d.born => c = d
    BY <1>3 DEF IsLibrary
  <2>6. \A r \in prior : \A q \in prior : r = q
    BY DEF IsLibrary
  <2>7. \A r \in (rows \ prior) \cup {new} :
           r.born > born \/ \E c \in scenarios : c.id \in kept /\ SameScenario(c, r)
    <3>1. CASE new.born > born
      BY <3>1 DEF Follows
    <3>2. CASE \E r \in prior : SameScenario(r, new)
      BY <3>2 DEF Follows, SameScenario
    <3>3. QED
      BY <1>3, <3>1, <3>2
  <2>8. \A c \in scenarios : c.id \in kept =>
           \E r \in (rows \ prior) \cup {new} : SameScenario(c, r)
    <3> SUFFICES ASSUME NEW c \in scenarios, c.id \in kept
                 PROVE  \E r \in (rows \ prior) \cup {new} : SameScenario(c, r)
      OBVIOUS
    <3>1. PICK r \in rows : SameScenario(c, r)
      BY DEF Follows
    <3>2. CASE r \in prior
      <4>1. \E q \in prior : SameScenario(q, new)
        BY <1>3, <3>2
      <4>2. SameScenario(r, new)
        BY <2>6, <3>2, <4>1
      <4>3. QED
        BY <3>1, <4>2 DEF SameScenario
    <3>3. QED
      BY <3>1, <3>2
  <2> HIDE DEF rows, prior
  <2>9. QED
    BY <2>2, <2>3, <2>4, <2>5, <2>7, <2>8 DEF IsLibrary, Follows
<1>4. \A r \in rows : r.id \in Nat \ {0} /\ r.born \in Nat /\ r.born <= last
  BY DEF IsLibrary, IsScenario
<1>5. CASE ~acc.ok \/ clash \/ (entry.id # 0 /\ prior = {})
  BY <1>1, <1>2, <1>5
<1>6. CASE ~(~acc.ok \/ clash \/ (entry.id # 0 /\ prior = {})) /\ entry.id = 0
  <2>1. NewId(rows) \in Nat \ {0} /\ \A r \in rows : r.id < NewId(rows)
    <3>1. IsFiniteSet(rows)
      BY DEF IsLibrary
    <3> HIDE DEF rows
    <3>2. QED
      BY <1>4, <3>1, NewIdIsNew
  <2>2. prior = {}
    BY <1>4, <1>6
  <2>3. next = Done((rows \ prior) \cup {fresh})
    BY <1>1, <1>6
  <2> PICK id : id = NewId(rows)
    OBVIOUS
  <2>4. fresh.id = id /\ fresh.born = last + 1 /\ IsScenario(fresh)
    BY <2>1 DEF IsScenario
  <2> HIDE DEF fresh, next
  <2>5. \A r \in rows : r.id # fresh.id /\ r.born # fresh.born
    BY <1>4, <2>1, <2>4
  <2>6. fresh.born > born /\ fresh.born <= last + 1
    BY <2>4
  <2>7. \A r \in rows \ prior : r.id # fresh.id /\ r.born # fresh.born
    BY <2>5
  <2> HIDE DEF rows, prior
  <2>8. QED
    BY <1>3, <2>2, <2>3, <2>4, <2>6, <2>7
<1>7. CASE ~(~acc.ok \/ clash \/ (entry.id # 0 /\ prior = {})) /\ entry.id # 0
  <2> PICK r : r = CHOOSE q \in prior : TRUE
    OBVIOUS
  <2>1. r \in prior
    BY <1>7
  <2>2. r \in rows /\ r.id = entry.id /\ IsScenario(r)
    BY <2>1 DEF IsLibrary
  <2>3. next = Done((rows \ prior) \cup {same})
    BY <1>1, <1>7
  <2>4. same = [r EXCEPT !.name = entry.name, !.pos = entry.pos]
    OBVIOUS
  <2> HIDE DEF same, next
  <2>5. IsScenario(same) /\ SameScenario(same, r)
    BY <2>2, <2>4, RowRenamed, ZenonT(30)
  <2>6. \A q \in rows \ prior : q.id # same.id /\ q.born # same.born
    BY <2>2, <2>5 DEF SameScenario, IsLibrary
  <2>7. same.born <= last + 1
    <3>1. same.born = r.born /\ r.born \in Nat /\ r.born <= last
      BY <1>4, <2>2, <2>5 DEF SameScenario
    <3>2. QED
      BY <3>1
  <2>8. SameScenario(r, same)
    BY <2>5 DEF SameScenario
  <2>9. IsScenario(same)
    BY <2>5
  <2>10. \E q \in prior : SameScenario(q, same)
    BY <2>1, <2>8
  <2> HIDE DEF rows, prior
  <2>11. QED
    BY <1>3, <2>3, <2>6, <2>7, <2>9, <2>10
<1>8. QED
  BY <1>5, <1>6, <1>7

\* So does a save of any number of entries: no number is the least that fails.
LEMMA SavesWell ==
  ASSUME NEW n \in Nat, NEW entries, DOMAIN entries = 1 .. n, NEW born \in Nat, NEW scenarios,
         IsLibrary(scenarios, born)
  PROVE  LET result == SaveScenarios(scenarios, entries, born)
         IN  result.ok => /\ IsLibrary(result.table, born + n)
                          /\ Follows(result.table, scenarios, Kept(entries), born)
<1> PICK acc : InSteps(acc, n, entries, scenarios, born)
  BY SavesInSteps
<1>0. /\ acc[0] = Start(scenarios, entries)
      /\ \A k \in 0 .. n - 1 : acc[k + 1] = SaveStep(acc[k], entries, born, k + 1)
      /\ \/ acc[n].ok /\ SaveScenarios(scenarios, entries, born) = acc[n]
         \/ SaveScenarios(scenarios, entries, born) = Refused(scenarios)
  BY DEF InSteps
<1> DEFINE kept    == Kept(entries)
           Good(k) == /\ acc[k] = [ok |-> acc[k].ok, table |-> acc[k].table]
                      /\ IsLibrary(acc[k].table, born + k)
                      /\ Follows(acc[k].table, scenarios, kept, born)
           Bad     == {k \in 0 .. n : ~Good(k)}
<1>1. Good(0)
  <2>1. born + 0 = born
    OBVIOUS
  <2>2. QED
    BY <1>0, <2>1, StartsWell
<1>2. ASSUME NEW k \in 0 .. n - 1, Good(k)
      PROVE  Good(k + 1)
  <2> DEFINE entry == [id |-> entries[k + 1].id, name |-> entries[k + 1].name, pos |-> k + 1 - 1]
             last  == born + k
  <2>1. acc[k + 1] = SaveEntry(acc[k], entry, born + (k + 1))
    <3> HIDE DEF Good, kept
    <3>1. acc[k + 1] = SaveStep(acc[k], entries, born, k + 1)
      BY <1>0
    <3>2. QED
      BY <3>1 DEF SaveStep
  <2>2. born + (k + 1) = last + 1 /\ last \in Nat /\ last >= born
    OBVIOUS
  <2> HIDE DEF entry, last
  <2>3. IsLibrary(acc[k].table, last)
    BY <1>2 DEF last
  <2>4. LET next == SaveEntry(acc[k], entry, last + 1)
        IN  /\ next = [ok |-> next.ok, table |-> next.table]
            /\ IsLibrary(next.table, last + 1)
            /\ Follows(next.table, scenarios, kept, born)
    <3> HIDE DEF kept
    <3>1. QED
      BY <1>2, <2>2, <2>3, EntryWell
  <2>5. QED
    BY <2>1, <2>2, <2>4
<1> HIDE DEF Good
<1>3. Good(n)
  <2> SUFFICES ASSUME ~Good(n)
               PROVE  FALSE
    OBVIOUS
  <2>1. Bad # {} /\ Bad \subseteq Nat
    OBVIOUS
  <2>2. PICK k \in Bad : \A j \in Bad : ~(<<j, k>> \in OpToRel(<, Nat))
    <3> HIDE DEF Bad
    <3>1. QED
      BY <2>1, NatLessThanWellFounded, WFMin
  <2>3. k \in 0 .. n /\ ~Good(k) /\ \A j \in 0 .. n : j < k => Good(j)
    <3>1. k \in Nat /\ \A j \in Bad : ~(j < k)
      <4> HIDE DEF Bad
      <4>1. QED
        BY <2>1, <2>2 DEF OpToRel
    <3>2. QED
      BY <3>1
  <2>4. k # 0
    BY <1>1, <2>3
  <2>5. k - 1 \in 0 .. n - 1 /\ k - 1 \in 0 .. n /\ k - 1 < k /\ (k - 1) + 1 = k
    BY <2>3, <2>4
  <2>6. QED
    BY <1>2, <2>3, <2>5
<1>4. CASE acc[n].ok /\ SaveScenarios(scenarios, entries, born) = acc[n]
  BY <1>3, <1>4 DEF Good
<1>5. CASE SaveScenarios(scenarios, entries, born) = Refused(scenarios)
  BY <1>5 DEF Refused
<1>6. QED
  BY <1>0, <1>4, <1>5

-----------------------------------------------------------------------------
(* Lines in order *)

Firsts(lines) == {i \in DOMAIN lines : /\ lines[i] \notin {Blank, "#"}
                                       /\ \A j \in 1 .. (i - 1) : lines[j] # lines[i]}
Before(firsts, i) == {j \in firsts : j < i}
Place(firsts, i) == Cardinality(Before(firsts, i))

\* The places of some numbered lines are their ranks.
LEMMA PlacesAre ==
  ASSUME NEW n \in Nat, NEW firsts \in SUBSET (1 .. n)
  PROVE  /\ IsFiniteSet(firsts) /\ Cardinality(firsts) \in Nat
         /\ \A i \in firsts : Place(firsts, i) \in Nat /\ Place(firsts, i) < Cardinality(firsts)
         /\ \A i, k \in firsts : i < k => Place(firsts, i) < Place(firsts, k)
<1> DEFINE all == 1 .. n
<1>1. IsFiniteSet(all) /\ firsts \in SUBSET all
  BY FS_Interval
<1>2. \A i \in firsts : i \in Nat
  OBVIOUS
<1> HIDE DEF all
<1>3. IsFiniteSet(firsts)
  BY <1>1, FS_Subset
<1>4. Cardinality(firsts) \in Nat
  BY <1>3, FS_CardinalityType
<1>5. ASSUME NEW i \in firsts
      PROVE  IsFiniteSet(Before(firsts, i)) /\ Place(firsts, i) \in Nat
  <2>1. Before(firsts, i) \in SUBSET firsts
    BY DEF Before
  <2>2. IsFiniteSet(Before(firsts, i))
    BY <1>3, <2>1, FS_Subset
  <2>3. QED
    BY <2>2, FS_CardinalityType DEF Place
<1>6. ASSUME NEW i \in firsts, NEW T, IsFiniteSet(T), Before(firsts, i) \cup {i} \subseteq T
      PROVE  Place(firsts, i) < Cardinality(T)
  <2> DEFINE A == Before(firsts, i)
             B == A \cup {i}
  <2>1. i \notin A
    BY <1>2 DEF Before
  <2>2. IsFiniteSet(A) /\ Cardinality(A) \in Nat
    BY <1>5 DEF Place
  <2> HIDE DEF A
  <2>3. Cardinality(B) = Cardinality(A) + 1
    BY <2>1, <2>2, FS_AddElement
  <2>4. B \in SUBSET T
    BY <1>6 DEF A
  <2> HIDE DEF B
  <2>5. Cardinality(B) <= Cardinality(T) /\ Cardinality(T) \in Nat
    BY <1>6, <2>4, FS_Subset, FS_CardinalityType
  <2>6. Cardinality(A) < Cardinality(T)
    BY <2>2, <2>3, <2>5
  <2>7. QED
    BY <2>6 DEF A, Place
<1>7. \A i \in firsts : Place(firsts, i) < Cardinality(firsts)
  BY <1>3, <1>6 DEF Before
<1>8. ASSUME NEW i \in firsts, NEW k \in firsts, i < k
      PROVE  Place(firsts, i) < Place(firsts, k)
  <2>1. Before(firsts, i) \cup {i} \subseteq Before(firsts, k)
    <3>1. \A j \in firsts : j < i => j < k
      BY <1>2, <1>8
    <3>2. QED
      BY <1>8, <3>1 DEF Before
  <2>2. IsFiniteSet(Before(firsts, k))
    BY <1>5
  <2>3. QED
    BY <1>6, <2>1, <2>2 DEF Place
<1>9. QED
  BY <1>3, <1>4, <1>5, <1>7, <1>8

\* The scenarios the migration takes: a library, none older than it.
LEMMA LoadsLibrary ==
  ASSUME NEW lines, lines \in Seq(Range(lines)), NEW born \in Nat
  PROVE  LET rows == LoadScenarios(lines, born)
         IN  /\ IsFiniteSet(rows) /\ Cardinality(rows) \in Nat
             /\ IsLibrary(rows, born + Cardinality(rows))
<1> PICK n \in Nat : DOMAIN lines = 1 .. n
  BY LenProperties
<1> DEFINE firsts == Firsts(lines)
           Term(i) == [text |-> lines[i], pos |-> Place(firsts, i)]
           Row(i) == [id |-> Place(firsts, i) + 1, name |-> lines[i], pos |-> Place(firsts, i),
                      born |-> born + Place(firsts, i) + 1]
           rows   == {Row(i) : i \in firsts}
           total  == Cardinality(rows)
<1>1. LoadScenarios(lines, born) = rows
  <2>1. LoadTerms(lines) = {Term(i) : i \in firsts}
    BY DEF LoadTerms, Firsts, Place, Before
  <2>2. LoadScenarios(lines, born) =
          {[id |-> t.pos + 1, name |-> t.text, pos |-> t.pos, born |-> born + t.pos + 1] :
             t \in {Term(i) : i \in firsts}}
    BY <2>1 DEF LoadScenarios
  <2> DEFINE G(t) == [id |-> t.pos + 1, name |-> t.text, pos |-> t.pos, born |-> born + t.pos + 1]
  <2>3. \A i \in firsts : G(Term(i)) = Row(i)
    <3> HIDE DEF firsts
    <3>1. QED
      OBVIOUS
  <2>4. LoadScenarios(lines, born) = {G(t) : t \in {Term(i) : i \in firsts}}
    BY <2>2
  <2> HIDE DEF firsts, G, Term, Row
  <2>5. QED
    BY <2>3, <2>4
<1>2. firsts \in SUBSET (1 .. n)
  BY DEF Firsts
<1> HIDE DEF firsts
<1>3. /\ IsFiniteSet(firsts) /\ Cardinality(firsts) \in Nat
      /\ \A i \in firsts : Place(firsts, i) \in Nat /\ Place(firsts, i) < Cardinality(firsts)
      /\ \A i, k \in firsts : i < k => Place(firsts, i) < Place(firsts, k)
  BY <1>2, PlacesAre
<1>4. ASSUME NEW i \in firsts, NEW k \in firsts, Place(firsts, i) = Place(firsts, k)
      PROVE  i = k
  <2>1. i \in Nat /\ k \in Nat
    BY <1>2
  <2>2. ~(i < k) /\ ~(k < i)
    BY <1>3, <1>4
  <2>3. QED
    BY <2>1, <2>2
<1>5. IsFiniteSet(rows) /\ Cardinality(firsts) <= total /\ total \in Nat
  <2> DEFINE f == [i \in firsts |-> Row(i)]
  <2>1. f \in Surjection(firsts, rows)
    BY DEF Surjection
  <2>2. \A i, k \in firsts : f[i] = f[k] => i = k
    <3>1. \A i \in firsts : f[i] = Row(i) /\ Row(i).pos = Place(firsts, i)
      OBVIOUS
    <3> HIDE DEF Row, f
    <3>2. QED
      BY <1>4, <3>1
  <2>3. f \in [firsts -> rows]
    OBVIOUS
  <2> HIDE DEF f, rows
  <2>4. IsFiniteSet(rows)
    BY <1>3, <2>1, FS_Surjection
  <2>5. f \in Injection(firsts, rows)
    BY <2>2, <2>3 DEF Injection, IsInjective
  <2>6. QED
    BY <2>4, <2>5, FS_Injection, FS_CardinalityType
<1>6. \A i \in firsts : /\ IsScenario(Row(i)) /\ Row(i).id = Place(firsts, i) + 1
                        /\ Row(i).born = born + Place(firsts, i) + 1
                        /\ Row(i).born <= born + total
  <2> SUFFICES ASSUME NEW i \in firsts
               PROVE  /\ IsScenario(Row(i)) /\ Row(i).id = Place(firsts, i) + 1
                      /\ Row(i).born = born + Place(firsts, i) + 1
                      /\ Row(i).born <= born + total
    OBVIOUS
  <2> DEFINE p == Place(firsts, i)
             r == Row(i)
  <2>1. p \in Nat /\ p < total
    <3> HIDE DEF rows
    <3>1. QED
      BY <1>3, <1>5
  <2>2. r = [id |-> p + 1, name |-> lines[i], pos |-> p, born |-> born + p + 1]
    OBVIOUS
  <2> HIDE DEF p, r, total
  <2>3. IsScenario(r) /\ r.id = p + 1 /\ r.born = born + p + 1
    BY <2>1, <2>2 DEF IsScenario
  <2>4. r.born <= born + total
    BY <1>5, <2>1, <2>3
  <2>5. QED
    BY <2>3, <2>4 DEF p, r
<1> HIDE DEF Row
<1>7. ASSUME NEW c \in rows, NEW d \in rows, c.id = d.id \/ c.born = d.born
      PROVE  c = d
  <2>1. PICK i \in firsts : c = Row(i)
    OBVIOUS
  <2>2. PICK k \in firsts : d = Row(k)
    OBVIOUS
  <2>3. /\ c.id = Place(firsts, i) + 1 /\ c.born = born + Place(firsts, i) + 1
        /\ d.id = Place(firsts, k) + 1 /\ d.born = born + Place(firsts, k) + 1
        /\ Place(firsts, i) \in Nat /\ Place(firsts, k) \in Nat
    BY <1>3, <1>6, <2>1, <2>2
  <2>4. Place(firsts, i) = Place(firsts, k)
    BY <1>7, <2>3
  <2>5. QED
    BY <1>4, <2>1, <2>2, <2>4
<1>8. \A c \in rows : IsScenario(c) /\ c.born <= born + total
  BY <1>6
<1> HIDE DEF rows
<1>9. QED
  BY <1>1, <1>5, <1>7, <1>8 DEF IsLibrary

-----------------------------------------------------------------------------
(* A session's scenario *)

\* The session refers to the scenario it ran under, or that one is gone.
Ran(s, scenarios, last) ==
  /\ s.ran \in Nat /\ s.ran <= last
  /\ s.scen # 0 => \E c \in scenarios : c.id = s.scen /\ c.born = s.ran
  /\ s.scen = 0 => \A c \in scenarios : c.born # s.ran

Traced(t, last) ==
  /\ IsLibrary(t.scenarios, last)
  /\ \A s \in t.sessions : Ran(s, t.scenarios, last)

BirthInv == /\ ghost.born \in Nat
            /\ Traced(disk, ghost.born) /\ Traced(mem, ghost.born)

\* More scenarios may be born meanwhile.
LEMMA TracedLater ==
  ASSUME NEW t, NEW a \in Nat, NEW b \in Nat, a <= b, Traced(t, a)
  PROVE  Traced(t, b)
<1>1. \A c \in t.scenarios : c.born \in Nat /\ c.born <= a
  BY DEF Traced, IsLibrary, IsScenario
<1>2. \A s \in t.sessions : s.ran \in Nat /\ s.ran <= a
  BY DEF Traced, Ran
<1>3. (\A c \in t.scenarios : c.born <= b) /\ \A s \in t.sessions : s.ran <= b
  BY <1>1, <1>2
<1>4. QED
  BY <1>3 DEF Traced, Ran, IsLibrary

\* The same rows with the same references, or some of them.
LEMMA TracedLess ==
  ASSUME NEW t, NEW last, Traced(t, last), NEW w, w.scenarios = t.scenarios,
         \A r \in w.sessions : \E s \in t.sessions : r.scen = s.scen /\ r.ran = s.ran
  PROVE  Traced(w, last)
BY DEF Traced, Ran

\* A deletion lets a session keep its scenario.
LEMMA DeletesTraced ==
  ASSUME NEW t, IsTables(t), NEW last, Traced(t, last), NEW gone
  PROVE  Traced(Without(t, gone), last)
<1> DEFINE Row(s)   == [s EXCEPT !.src = IF \E g \in gone : g.id = s.src THEN 0 ELSE s.src]
           sessions == {Row(s) : s \in t.sessions \ gone}
           slots    == {p \in t.slots : \A g \in gone : g.id # p.session}
           w        == Without(t, gone)
<1>1. \A s \in t.sessions \ gone : Row(s).scen = s.scen /\ Row(s).ran = s.ran
  BY DEF IsTables, IsRow
<1>2. w = [t EXCEPT !.sessions = sessions, !.slots = slots]
  <2>1. \A s \in t.sessions : [s EXCEPT !.src = IF \E g \in gone : g.id = @ THEN 0 ELSE @] = Row(s)
    OBVIOUS
  <2>2. {[s EXCEPT !.src = IF \E g \in gone : g.id = @ THEN 0 ELSE @] : s \in t.sessions \ gone}
          = sessions
    BY <2>1
  <2>3. QED
    BY <2>2 DEF Without
<1>3. HasShape(t)
  BY DEF IsTables, HasShape
<1>4. w.sessions = sessions /\ w.scenarios = t.scenarios
  <2> DEFINE u == [t EXCEPT !.sessions = sessions]
  <2> HIDE DEF sessions, slots, w
  <2>1. w = [u EXCEPT !.slots = slots]
    BY <1>2
  <2>2. u = [version |-> t.version, sessions |-> sessions, slots |-> t.slots,
             terms |-> t.terms, scenarios |-> t.scenarios]
    BY <1>3 DEF HasShape
  <2> HIDE DEF u
  <2>3. w = [version |-> t.version, sessions |-> sessions, slots |-> slots,
             terms |-> t.terms, scenarios |-> t.scenarios]
    BY <2>1, <2>2
  <2>4. QED
    BY <2>3
<1> HIDE DEF Row, w
<1>5. \A r \in w.sessions : \E s \in t.sessions : r.scen = s.scen /\ r.ran = s.ran
  BY <1>1, <1>4
<1>6. Traced(w, last)
  BY <1>4, <1>5, TracedLess
<1>7. QED
  BY <1>6 DEF w

\* A recording refers to a scenario of its name, if there is one.
LEMMA InsertsTraced ==
  ASSUME IsTables(Tables), NEW last \in Nat, Traced(Tables, last)
  PROVE  Traced(Inserted, last)
<1> DEFINE scen  == {s \in Tables.scenarios : s.name = rec.name}
           where == IF scen = {} THEN 0 ELSE (CHOOSE s \in scen : TRUE).id
           src   == IF \E s \in Tables.sessions : s.id = rec.src THEN rec.src ELSE 0
           ran   == IF scen = {} THEN 0 ELSE (CHOOSE s \in scen : TRUE).born
           row   == [id |-> NewId(Tables.sessions), at |-> now, scen |-> where, src |-> src,
                     serial |-> ghost.serial + 1, ran |-> ran,
                     late |-> rec.switch # ghost.switch]
           slot  == [session |-> row.id, of |-> row.serial]
<1>1. Inserted = [Tables EXCEPT !.sessions = Tables.sessions \cup {row},
                                !.slots = Tables.slots \cup {slot}]
  BY DEF Inserted
<1>2. \A c \in Tables.scenarios : c.id # 0 /\ c.born \in Nat \ {0} /\ c.born <= last
  BY DEF Traced, IsLibrary, IsScenario
<1>3. /\ ran \in Nat /\ ran <= last
      /\ where # 0 => \E c \in Tables.scenarios : c.id = where /\ c.born = ran
      /\ where = 0 => \A c \in Tables.scenarios : c.born # ran
  <2>1. CASE scen = {}
    BY <1>2, <2>1
  <2>2. CASE scen # {}
    <3> PICK c : c = CHOOSE s \in scen : TRUE
      OBVIOUS
    <3>1. c \in Tables.scenarios
      BY <2>2
    <3>2. where = c.id /\ ran = c.born
      BY <2>2
    <3> HIDE DEF where, ran
    <3>3. QED
      BY <1>2, <3>1, <3>2
  <2>3. QED
    BY <2>1, <2>2
<1> HIDE DEF where, ran, src, scen
<1>4. row.scen = where /\ row.ran = ran
  OBVIOUS
<1> HIDE DEF row
<1>5. Ran(row, Tables.scenarios, last)
  BY <1>3, <1>4 DEF Ran
<1>6. HasShape(Tables)
  BY DEF IsTables, HasShape
<1> HIDE DEF slot
<1>7. Inserted.sessions = Tables.sessions \cup {row} /\ Inserted.scenarios = Tables.scenarios
  <2> DEFINE sessions == Tables.sessions \cup {row}
             slots    == Tables.slots \cup {slot}
             u        == [Tables EXCEPT !.sessions = sessions]
  <2>1. Inserted = [u EXCEPT !.slots = slots]
    BY <1>1
  <2> HIDE DEF sessions, slots
  <2>2. u = [version |-> Tables.version, sessions |-> sessions, slots |-> Tables.slots,
             terms |-> Tables.terms, scenarios |-> Tables.scenarios]
    BY <1>6 DEF HasShape
  <2> HIDE DEF u
  <2>3. Inserted = [version |-> Tables.version, sessions |-> sessions, slots |-> slots,
                    terms |-> Tables.terms, scenarios |-> Tables.scenarios]
    BY <2>1, <2>2
  <2>4. QED
    BY <2>3 DEF sessions
<1>8. QED
  BY <1>5, <1>7 DEF Traced

\* A save of the scenarios: a session whose scenario was kept keeps it, and one
\* whose scenario is gone cannot take a new one for it.
LEMMA SavesTraced ==
  ASSUME NEW t, IsTables(t), NEW born \in Nat, NEW last \in Nat, born <= last, Traced(t, born),
         NEW kept, 0 \notin kept, NEW rows, IsLibrary(rows, last),
         Follows(rows, t.scenarios, kept, born)
  PROVE  Traced(Saved(t, kept, rows), last)
<1> DEFINE Row(s)   == [s EXCEPT !.scen = IF s.scen \in kept THEN s.scen ELSE 0]
           sessions == {Row(s) : s \in t.sessions}
           u        == [t EXCEPT !.sessions = sessions]
           w        == Saved(t, kept, rows)
<1>1. \A s \in t.sessions : /\ Row(s).scen = IF s.scen \in kept THEN s.scen ELSE 0
                            /\ Row(s).ran = s.ran
  BY DEF IsTables, IsRow
<1>2. Forget(t, kept) = u
  <2>1. \A s \in t.sessions : [s EXCEPT !.scen = IF @ \in kept THEN @ ELSE 0] = Row(s)
    OBVIOUS
  <2>2. {[s EXCEPT !.scen = IF @ \in kept THEN @ ELSE 0] : s \in t.sessions} = sessions
    BY <2>1
  <2>3. QED
    BY <2>2 DEF Forget
<1>3. w.sessions = sessions /\ w.scenarios = rows
  <2> HIDE DEF sessions
  <2>1. u = [version |-> t.version, sessions |-> sessions, slots |-> t.slots,
             terms |-> t.terms, scenarios |-> t.scenarios]
    BY DEF IsTables
  <2> HIDE DEF u
  <2>2. [u EXCEPT !.scenarios = rows]
          = [version |-> t.version, sessions |-> sessions, slots |-> t.slots,
             terms |-> t.terms, scenarios |-> rows]
    BY <2>1
  <2>3. QED
    BY <1>2, <2>2 DEF Saved
<1> HIDE DEF Row, w
<1>4. ASSUME NEW s \in t.sessions
      PROVE  Ran(Row(s), rows, last)
  <2> PICK r : r = Row(s)
    OBVIOUS
  <2>1. r.scen = (IF s.scen \in kept THEN s.scen ELSE 0) /\ r.ran = s.ran
    BY <1>1
  <2>2. Ran(s, t.scenarios, born)
    BY DEF Traced
  <2>3. r.ran \in Nat /\ r.ran <= born /\ r.ran <= last
    BY <2>1, <2>2 DEF Ran
  <2>4. CASE s.scen \in kept
    <3>1. r.scen = s.scen /\ s.scen # 0
      BY <2>1, <2>4
    <3>2. PICK c \in t.scenarios : c.id = s.scen /\ c.born = s.ran
      BY <2>2, <3>1 DEF Ran
    <3>3. PICK q \in rows : SameScenario(c, q)
      BY <2>4, <3>2 DEF Follows
    <3>4. QED
      BY <2>1, <2>3, <3>1, <3>2, <3>3 DEF Ran, SameScenario
  <2>5. CASE s.scen \notin kept
    <3>1. r.scen = 0
      BY <2>1, <2>5
    <3>2. ASSUME NEW q \in rows, q.born = r.ran
          PROVE  FALSE
      <4>1. ~(q.born > born)
        BY <2>3, <3>2
      <4>2. PICK c \in t.scenarios : c.id \in kept /\ SameScenario(c, q)
        BY <4>1 DEF Follows
      <4>3. c.born = s.ran
        BY <2>1, <3>2, <4>2 DEF SameScenario
      <4>4. PICK d \in t.scenarios : d.id = s.scen /\ d.born = s.ran
        BY <2>2, <4>3 DEF Ran
      <4>5. c = d
        BY <4>3, <4>4 DEF Traced, IsLibrary
      <4>6. QED
        BY <2>5, <4>2, <4>4, <4>5
    <3>3. QED
      BY <2>3, <3>1, <3>2 DEF Ran
  <2>6. QED
    BY <2>4, <2>5
<1>5. \A s \in sessions : Ran(s, rows, last)
  BY <1>4
<1> HIDE DEF sessions
<1>6. Traced(w, last)
  BY <1>3, <1>5 DEF Traced
<1>7. QED
  BY <1>6 DEF w

\* What each statement does to the count of births.
LEMMA GhostBorn ==
  ASSUME GhostType, NEW x
  PROVE  /\ [ghost EXCEPT !.removed = x].born = ghost.born
         /\ [ghost EXCEPT !.serial = x].born = ghost.born
         /\ [ghost EXCEPT !.switch = x].born = ghost.born
         /\ [ghost EXCEPT !.born = x].born = x
BY DEF GhostType

\* What a statement leaves is traced, in the database it ran on and in the other.
LEMMA WritesKeepTraced ==
  ASSUME BirthInv, NEW t, NEW last \in Nat, ghost.born <= last, ghost'.born = last,
         Traced(t, last), Writes(t)
  PROVE  BirthInv'
<1>1. Traced(disk, last) /\ Traced(mem, last)
  BY TracedLater DEF BirthInv
<1>2. Traced(disk', last) /\ Traced(mem', last)
  BY <1>1 DEF Writes
<1>3. QED
  BY <1>2 DEF BirthInv

\* Nothing is traced in no rows.
LEMMA EmptyTraced ==
  ASSUME NEW t, NEW last, t.sessions = {}, t.scenarios = {}
  PROVE  Traced(t, last)
BY FS_EmptySet DEF Traced, IsLibrary

\* The rows of the migration ran under no scenario, and its scenarios are new.
LEMMA MigrationTraced ==
  ASSUME old \in OldFiles, NEW born \in Nat, ghost.born = born
  PROVE  /\ Cardinality(Migrated.scenarios) \in Nat
         /\ Traced(Migrated, born + Cardinality(Migrated.scenarios))
<1>1. old.scenarios \in Seq(Range(old.scenarios))
  BY StoreAssumption
<1> PICK lines : lines = old.scenarios
  OBVIOUS
<1> PICK rows : rows = LoadScenarios(lines, born)
  OBVIOUS
<1>2. Cardinality(rows) \in Nat /\ IsLibrary(rows, born + Cardinality(rows))
  BY <1>1, LoadsLibrary
<1>3. Migrated.scenarios = rows /\ Migrated.sessions = LegacyRows(old)
  BY DEF Migrated
<1>4. \A s \in LegacyRows(old) : s.scen = 0 /\ s.ran = 0
  BY DEF LegacyRows
<1>5. \A c \in rows : c.born # 0
  BY <1>2 DEF IsLibrary, IsScenario
<1>6. \A s \in LegacyRows(old) : Ran(s, rows, born + Cardinality(rows))
  BY <1>2, <1>4, <1>5 DEF Ran
<1>7. QED
  BY <1>2, <1>3, <1>6 DEF Traced

\* Every step keeps the sessions' scenarios.
LEMMA StepsKeepTraced ==
  ASSUME StoreType, BirthInv, [Next]_vars
  PROVE  BirthInv'
<1>0. /\ IsTables(Tables) /\ Traced(Tables, ghost.born) /\ Phases /\ GhostType
      /\ ghost.first \in OldFiles /\ ghost.born \in Nat
  BY TablesTyped DEF StoreType, GhostType, BirthInv, Tables
<1>s. ASSUME UNCHANGED <<disk, mem>>, ghost'.born = ghost.born
      PROVE  BirthInv'
  BY <1>s DEF BirthInv
<1>w. ASSUME NEW t, Traced(t, ghost.born), Writes(t), ghost'.born = ghost.born
      PROVE  BirthInv'
  BY <1>0, <1>w, WritesKeepTraced
<1>r. ASSUME NEW gone, Removes(gone)
      PROVE  BirthInv'
  <2>1. Traced(Without(Tables, gone), ghost.born) /\ Writes(Without(Tables, gone))
    BY <1>0, <1>r, DeletesTraced DEF Removes
  <2>2. ghost'.born = ghost.born
    BY <1>0, <1>r, GhostBorn DEF Removes
  <2>3. QED
    BY <1>w, <2>1, <2>2
<1>1. CASE UNCHANGED vars
  BY <1>s, <1>1 DEF vars
<1>2. CASE \/ Launches \/ DeletesOld \/ Opens \/ Ticks \/ Records \/ RecordSweeps
           \/ Lists \/ ListReads \/ SetsHistory \/ Applies \/ ApplySweeps
  <2>1. UNCHANGED <<disk, mem>>
    BY <1>2 DEF Launches, DeletesOld, Opens, Ticks, Records, RecordSweeps, Lists, ListReads,
       SetsHistory, Applies, ApplySweeps
  <2>2. \/ ghost' = ghost \/ ghost' = [ghost EXCEPT !.switch = ghost.switch + 1]
    BY <1>2 DEF Launches, DeletesOld, Opens, Ticks, Records, RecordSweeps, Lists, ListReads,
       SetsHistory, Applies, ApplySweeps
  <2>3. ghost'.born = ghost.born
    BY <1>0, <2>2, GhostBorn
  <2>4. QED
    BY <1>s, <2>1, <2>3
<1>3. CASE Migrates
  <2>1. /\ disk.version = 0 /\ disk' = Migrated /\ mem' = mem
        /\ ghost' = [ghost EXCEPT !.born = ghost.born + Cardinality(Migrated.scenarios)]
    BY <1>3 DEF Migrates
  <2>2. old \in OldFiles
    BY <1>0, <2>1 DEF Phases
  <2> DEFINE last == ghost.born + Cardinality(Migrated.scenarios)
  <2>3. Cardinality(Migrated.scenarios) \in Nat /\ Traced(Migrated, last)
    BY <1>0, <2>2, MigrationTraced
  <2>4. last \in Nat /\ ghost.born <= last
    BY <1>0, <2>3
  <2>5. ghost'.born = last
    BY <1>0, <2>1, GhostBorn
  <2> HIDE DEF last
  <2>6. Traced(mem, last)
    BY <1>0, <2>4, TracedLater DEF BirthInv
  <2>7. QED
    BY <2>1, <2>3, <2>4, <2>5, <2>6 DEF BirthInv
<1>4. CASE OpenFails \/ Stops
  <2>1. /\ mem'.sessions = {} /\ mem'.scenarios = {} /\ disk' = disk /\ ghost' = ghost
    BY <1>4 DEF OpenFails, Stops, Empty
  <2>2. Traced(mem', ghost.born)
    BY <2>1, EmptyTraced
  <2>3. QED
    BY <2>1, <2>2 DEF BirthInv
<1>5. CASE \/ Settles \/ RecordDeletes \/ ListDeletes \/ ApplyDeletes \/ Clears \/ ApplyClears
  <2>1. PICK gone : Removes(gone)
    BY <1>5 DEF Settles, RecordDeletes, ListDeletes, ApplyDeletes, Clears, ApplyClears
  <2>2. QED
    BY <1>r, <2>1
<1>6. CASE RecordInserts
  <2>1. Writes(Inserted) /\ ghost' = [ghost EXCEPT !.serial = ghost.serial + 1]
    BY <1>6 DEF RecordInserts
  <2>2. ghost'.born = ghost.born
    BY <1>0, <2>1, GhostBorn
  <2>3. Traced(Inserted, ghost.born)
    BY <1>0, InsertsTraced
  <2>4. QED
    BY <1>w, <2>1, <2>2, <2>3
<1>7. CASE EditsTerms
  <2>1. PICK terms : Writes([Tables EXCEPT !.terms = terms])
    BY <1>7 DEF EditsTerms
  <2>2. ghost'.born = ghost.born
    BY <1>7 DEF EditsTerms
  <2> DEFINE t == [Tables EXCEPT !.terms = terms]
  <2>3. t.sessions = Tables.sessions /\ t.scenarios = Tables.scenarios
    BY <1>0 DEF IsTables
  <2>4. Writes(t)
    BY <2>1
  <2> HIDE DEF t
  <2>5. Traced(t, ghost.born)
    BY <1>0, <2>3, TracedLess
  <2>6. QED
    BY <1>w, <2>2, <2>4, <2>5
<1>8. CASE EditsScenarios
  <2>1. PICK entries \in Payloads :
          LET result == SaveScenarios(Tables.scenarios, entries, ghost.born)
          IN  result.ok /\ Writes(Saved(Tables, Kept(entries), result.table))
    BY <1>8 DEF EditsScenarios, Saved
  <2>2. ghost' = [ghost EXCEPT !.born = ghost.born + Cardinality(Names)]
    BY <1>8 DEF EditsScenarios
  <2>3. PICK n \in 0 .. Cardinality(Names) : DOMAIN entries = 1 .. n
    BY DEF Payloads
  <2>4. Cardinality(Names) \in Nat
    BY StoreAssumption, FS_CardinalityType
  <2>5. n \in Nat /\ n <= Cardinality(Names)
    BY <2>3, <2>4
  <2> PICK rows : rows = SaveScenarios(Tables.scenarios, entries, ghost.born).table
    OBVIOUS
  <2>6. /\ IsLibrary(rows, ghost.born + n)
        /\ Follows(rows, Tables.scenarios, Kept(entries), ghost.born)
    <3>1. IsLibrary(Tables.scenarios, ghost.born)
      BY <1>0 DEF Traced
    <3>2. QED
      BY <1>0, <2>1, <2>3, <2>5, <3>1, SavesWell
  <2> DEFINE t    == Saved(Tables, Kept(entries), rows)
             last == ghost.born + n
             all  == ghost.born + Cardinality(Names)
  <2>7. last \in Nat /\ all \in Nat /\ ghost.born <= last /\ last <= all /\ ghost.born <= all
    BY <1>0, <2>4, <2>5
  <2>8. 0 \notin Kept(entries)
    BY DEF Kept
  <2>9. Traced(t, last)
    <3> HIDE DEF last
    <3>1. IsLibrary(rows, last)
      BY <2>6 DEF last
    <3>2. QED
      BY <1>0, <2>6, <2>7, <2>8, <3>1, SavesTraced
  <2>10. Writes(t)
    BY <2>1
  <2>11. ghost'.born = all
    BY <1>0, <2>2, GhostBorn
  <2> HIDE DEF t, last, all
  <2>12. Traced(t, all)
    BY <2>7, <2>9, TracedLater
  <2>13. QED
    BY <2>7, <2>10, <2>11, <2>12, WritesKeepTraced
<1>9. QED
  BY <1>1, <1>2, <1>3, <1>4, <1>5, <1>6, <1>7, <1>8 DEF Next

\* A session keeps the scenario it ran under through every rename, reorder and
\* deletion of others, and loses it with the scenario, though row ids come back;
\* and so do its slots and its source (ON DELETE in schema.rs, insert_session,
\* save_scenarios, for any library and any payload).
THEOREM ReferencesAlwaysFollow == Spec => []ReferencesFollow
<1>1. Init => StoreType /\ BirthInv
  <2> SUFFICES ASSUME Init
               PROVE  BirthInv
    BY StartsTyped
  <2>1. /\ disk.sessions = {} /\ disk.scenarios = {} /\ mem.sessions = {} /\ mem.scenarios = {}
        /\ ghost.born = 0
    BY DEF Init, Empty
  <2>2. Traced(disk, 0) /\ Traced(mem, 0)
    BY <2>1, EmptyTraced
  <2>3. QED
    BY <2>1, <2>2 DEF BirthInv
<1>2. StoreType /\ BirthInv /\ [Next]_vars => StoreType' /\ BirthInv'
  BY StepsTyped, StepsKeepTraced
<1>3. BirthInv => ScenariosFollow
  BY DEF BirthInv, Traced, Ran, ScenariosFollow, Tables
<1>4. QED
  BY <1>1, <1>2, <1>3, SlotsAlwaysFollow, PTL DEF Spec, ReferencesFollow

-----------------------------------------------------------------------------
(* Rows in their places *)

\* As many rows as places, one row in each.
Ranked(rows) ==
  /\ IsFiniteSet(rows)
  /\ \A r \in rows : r.pos \in Nat /\ r.pos < Cardinality(rows)
  /\ \A r, s \in rows : r.pos = s.pos => r = s

IsTerm(t) == t = [text |-> t.text, pos |-> t.pos]

Dictionary(terms) ==
  /\ Ranked(terms)
  /\ \A t \in terms : IsTerm(t)
  /\ \A t, u \in terms : t.text = u.text => t = u

\* No place is left out.
LEMMA RankedDense ==
  ASSUME NEW rows, Ranked(rows)
  PROVE  Dense(rows) /\ Cardinality(rows) \in Nat
<1> DEFINE n == Cardinality(rows)
           f == [r \in rows |-> r.pos]
           all == 0 .. n - 1
<1>1. n \in Nat /\ IsFiniteSet(rows)
  BY FS_CardinalityType DEF Ranked
<1>2. \A r \in rows : r.pos \in all
  BY <1>1 DEF Ranked
<1>3. IsFiniteSet(all) /\ Cardinality(all) = n
  <2> HIDE DEF n
  <2>1. IsFiniteSet(0 .. n - 1)
        /\ Cardinality(0 .. n - 1) = IF 0 > n - 1 THEN 0 ELSE (n - 1) - 0 + 1
    BY <1>1, FS_Interval
  <2>2. QED
    BY <1>1, <2>1
<1> HIDE DEF all, n
<1>4. f \in Injection(rows, all)
  BY <1>2 DEF Injection, IsInjective, Ranked
<1>5. f \in Surjection(rows, all)
  <2> HIDE DEF f
  <2>1. QED
    BY <1>3, <1>4, FS_Injection DEF n
<1>6. Places(rows) = all
  <2>1. \A p \in all : \E r \in rows : r.pos = p
    BY <1>5 DEF Surjection
  <2>2. QED
    BY <1>2, <2>1 DEF Places
<1>7. QED
  BY <1>1, <1>6 DEF Dense, all, n

\* Rows made over one by one are as many.
LEMMA MadeOver ==
  ASSUME NEW rows, IsFiniteSet(rows), NEW f, DOMAIN f = rows,
         \A r, s \in rows : f[r] = f[s] => r = s
  PROVE  /\ IsFiniteSet({f[r] : r \in rows})
         /\ Cardinality({f[r] : r \in rows}) = Cardinality(rows)
<1> DEFINE g == [r \in rows |-> f[r]]
           made == {f[r] : r \in rows}
<1>1. g \in Surjection(rows, made) /\ g \in Injection(rows, made)
  BY DEF Surjection, Injection, IsInjective
<1> HIDE DEF g, made
<1>2. IsFiniteSet(made) /\ Cardinality(made) = Cardinality(rows)
  BY <1>1, FS_Surjection
<1>3. QED
  BY <1>2 DEF made

\* Each term is said once.
LEMMA TermsDistinct ==
  ASSUME NEW terms, Dictionary(terms)
  PROVE  Cardinality(Texts(terms)) = Cardinality(terms)
<1> DEFINE f == [t \in terms |-> t.text]
<1>1. Texts(terms) = {f[t] : t \in terms}
  BY DEF Texts
<1>2. IsFiniteSet(terms) /\ DOMAIN f = terms /\ \A t, u \in terms : f[t] = f[u] => t = u
  BY DEF Dictionary, Ranked
<1> HIDE DEF f
<1>3. QED
  BY <1>1, <1>2, MadeOver

\* A term more stands at the end.
LEMMA TermAppended ==
  ASSUME NEW terms, Dictionary(terms), NEW text
  PROVE  Dictionary(AppendTerm(terms, text).table)
<1> DEFINE n   == Cardinality(terms)
           end == Max({p + 1 : p \in Places(terms)} \cup {0})
           new == [text |-> text, pos |-> end]
<1>1. CASE text = Blank \/ text \in Texts(terms)
  BY <1>1 DEF AppendTerm, Refused, Done
<1>2. CASE text # Blank /\ text \notin Texts(terms)
  <2>1. AppendTerm(terms, text).table = terms \cup {new}
    BY <1>2 DEF AppendTerm, Done
  <2>2. Places(terms) = 0 .. n - 1 /\ n \in Nat /\ IsFiniteSet(terms)
    BY RankedDense DEF Dense, Dictionary, Ranked
  <2>3. end = n
    <3> HIDE DEF n
    <3> DEFINE all == 0 .. n
    <3>1. {p + 1 : p \in 0 .. n - 1} \cup {0} = all
      <4>1. \A q \in 0 .. n : q # 0 => q - 1 \in 0 .. n - 1 /\ q = (q - 1) + 1
        BY <2>2
      <4>2. \A p \in 0 .. n - 1 : p + 1 \in 0 .. n
        BY <2>2
      <4>3. 0 \in 0 .. n
        BY <2>2
      <4>4. QED
        BY <4>1, <4>2, <4>3
    <3>2. end = Max(all)
      BY <2>2, <3>1
    <3>3. n \in all /\ \A q \in all : n >= q
      BY <2>2
    <3> HIDE DEF all
    <3>4. \A m \in all : (\A q \in all : m >= q) => m >= n /\ n >= m
      BY <3>3
    <3>5. \A m \in all : m \in Int
      BY DEF all
    <3>6. Max(all) \in all /\ \A q \in all : Max(all) >= q
      BY <3>3 DEF Max
    <3> QED
      BY <2>2, <3>2, <3>4, <3>5, <3>6
  <2> HIDE DEF end
  <2>4. new \notin terms
    BY <1>2 DEF Texts
  <2>5. new = [text |-> text, pos |-> n] /\ new.text = text /\ new.pos = n
    BY <2>3
  <2> HIDE DEF new
  <2>6. IsFiniteSet(terms \cup {new}) /\ Cardinality(terms \cup {new}) = n + 1
    BY <2>2, <2>4, FS_AddElement
  <2>7. \A t \in terms : t.pos \in Nat /\ t.pos < n /\ t.text # text
    BY <1>2 DEF Dictionary, Ranked, Texts
  <2> HIDE DEF n
  <2>8. \A t \in terms \cup {new} : t.pos \in Nat /\ t.pos < n + 1
    BY <2>2, <2>5, <2>7
  <2>9. \A t \in terms : t.pos # new.pos /\ t.text # new.text
    BY <2>2, <2>5, <2>7
  <2>10. Ranked(terms \cup {new})
    BY <2>6, <2>8, <2>9 DEF Dictionary, Ranked
  <2>11. IsTerm(new)
    BY <2>5 DEF IsTerm
  <2>12. QED
    BY <2>1, <2>9, <2>10, <2>11 DEF Dictionary
<1>3. QED
  BY <1>1, <1>2

\* The terms after one that goes move up.
LEMMA TermRemoved ==
  ASSUME NEW terms, Dictionary(terms), NEW text
  PROVE  Dictionary(RemoveTerm(terms, text).table)
<1> DEFINE n     == Cardinality(terms)
           gone  == CHOOSE t \in terms : t.text = text
           left  == terms \ {gone}
           f     == [t \in left |-> [text |-> t.text,
                                     pos |-> IF t.pos > gone.pos THEN t.pos - 1 ELSE t.pos]]
           made  == {f[t] : t \in left}
<1>1. CASE text \notin Texts(terms)
  BY <1>1 DEF RemoveTerm, Done
<1>2. CASE text \in Texts(terms)
  <2>1. gone \in terms /\ gone.text = text
    BY <1>2 DEF Texts
  <2>2. RemoveTerm(terms, text).table = made
    <3> DEFINE Row(t) == [t EXCEPT !.pos = IF t.pos > gone.pos THEN t.pos - 1 ELSE t.pos]
    <3>1. \A t \in left : Row(t) = f[t]
      <4> SUFFICES ASSUME NEW t \in left
                   PROVE  Row(t) = f[t]
        OBVIOUS
      <4> HIDE DEF gone
      <4>1. t = [text |-> t.text, pos |-> t.pos]
        BY DEF Dictionary, IsTerm
      <4> DEFINE p == IF t.pos > gone.pos THEN t.pos - 1 ELSE t.pos
      <4>2. [t EXCEPT !.pos = p] = [text |-> t.text, pos |-> p]
        <5> HIDE DEF p
        <5>1. QED
          BY <4>1
      <4>3. f[t] = [text |-> t.text, pos |-> p]
        OBVIOUS
      <4>4. QED
        BY <4>2, <4>3
    <3>2. RemoveTerm(terms, text).table = {Row(t) : t \in left}
      BY <1>2 DEF RemoveTerm, Done
    <3> HIDE DEF left, f, gone, Row
    <3>3. QED
      BY <3>1, <3>2
  <2>3. n \in Nat /\ IsFiniteSet(terms) /\ IsFiniteSet(left) /\ Cardinality(left) = n - 1
    <3> HIDE DEF gone
    <3>1. QED
      BY <2>1, RankedDense, FS_RemoveElement DEF Dictionary, Ranked
  <2> HIDE DEF n
  <2>4. ASSUME NEW t \in left
        PROVE  /\ f[t].text = t.text /\ f[t].pos \in Nat /\ f[t].pos < n - 1
               /\ f[t].pos = IF t.pos > gone.pos THEN t.pos - 1 ELSE t.pos
               /\ t \in terms /\ t.pos \in Nat /\ t.pos # gone.pos
               /\ IsTerm(f[t])
    <3>1. /\ f[t].text = t.text
          /\ f[t].pos = IF t.pos > gone.pos THEN t.pos - 1 ELSE t.pos
          /\ IsTerm(f[t])
      BY DEF IsTerm
    <3> HIDE DEF f, gone
    <3>2. /\ t \in terms /\ t.pos \in Nat /\ t.pos < n /\ t.pos # gone.pos
          /\ gone.pos \in Nat /\ gone.pos < n
      BY <2>1 DEF Dictionary, Ranked, n
    <3>3. QED
      BY <2>3, <3>1, <3>2
  <2>5. gone.pos \in Nat
    BY <2>1 DEF Dictionary, Ranked
  <2>6. DOMAIN f = left
    OBVIOUS
  <2> HIDE DEF f, gone
  <2>7. \A t, u \in left : f[t].pos = f[u].pos => t = u
    <3> SUFFICES ASSUME NEW t \in left, NEW u \in left, f[t].pos = f[u].pos
                 PROVE  t = u
      OBVIOUS
    <3>1. t.pos = u.pos
      BY <2>4, <2>5
    <3>2. QED
      BY <2>4, <3>1 DEF Dictionary, Ranked
  <2>8. \A t, u \in left : f[t].text = f[u].text => t = u
    BY <2>4 DEF Dictionary
  <2> HIDE DEF left
  <2>9. IsFiniteSet(made) /\ Cardinality(made) = n - 1
    BY <2>3, <2>6, <2>7, MadeOver
  <2>10. /\ \A r \in made : r.pos \in Nat /\ r.pos < n - 1 /\ IsTerm(r)
         /\ \A r, s \in made : r.pos = s.pos \/ r.text = s.text => r = s
    BY <2>4, <2>7, <2>8
  <2> HIDE DEF made
  <2>11. QED
    BY <2>2, <2>9, <2>10 DEF Dictionary, Ranked
<1>3. QED
  BY <1>1, <1>2

\* A term said anew stays in its place.
LEMMA TermUpdated ==
  ASSUME NEW terms, Dictionary(terms), NEW prior, NEW new
  PROVE  Dictionary(UpdateTerm(terms, prior, new).table)
<1> DEFINE n    == Cardinality(terms)
           f    == [t \in terms |-> [text |-> IF t.text = prior THEN new ELSE t.text, pos |-> t.pos]]
           made == {f[t] : t \in terms}
<1>1. CASE Blank \in {prior, new} \/ new \in Texts(terms) \/ prior \notin Texts(terms)
  BY <1>1 DEF UpdateTerm, Refused
<1>2. CASE ~(Blank \in {prior, new} \/ new \in Texts(terms) \/ prior \notin Texts(terms))
  <2>1. \A t \in terms : t.text # new
    BY <1>2 DEF Texts
  <2>2. UpdateTerm(terms, prior, new).table = made
    <3> DEFINE Row(t) == [t EXCEPT !.text = IF t.text = prior THEN new ELSE t.text]
    <3>1. \A t \in terms : Row(t) = f[t]
      <4> SUFFICES ASSUME NEW t \in terms
                   PROVE  Row(t) = f[t]
        OBVIOUS
      <4>1. t = [text |-> t.text, pos |-> t.pos]
        BY DEF Dictionary, IsTerm
      <4> DEFINE x == IF t.text = prior THEN new ELSE t.text
      <4>2. [t EXCEPT !.text = x] = [text |-> x, pos |-> t.pos]
        <5> HIDE DEF x
        <5>1. QED
          BY <4>1
      <4>3. QED
        BY <4>2
    <3>2. UpdateTerm(terms, prior, new).table = {Row(t) : t \in terms}
      BY <1>2 DEF UpdateTerm, Done
    <3> HIDE DEF f, Row
    <3>3. QED
      BY <3>1, <3>2
  <2>3. \A t \in terms : /\ f[t].text = (IF t.text = prior THEN new ELSE t.text) /\ f[t].pos = t.pos
                         /\ IsTerm(f[t])
    BY DEF IsTerm
  <2>4. DOMAIN f = terms /\ IsFiniteSet(terms)
    BY DEF Dictionary, Ranked
  <2> HIDE DEF f
  <2>5. \A t, u \in terms : f[t].pos = f[u].pos \/ f[t].text = f[u].text => t = u
    BY <2>1, <2>3 DEF Dictionary, Ranked
  <2>6. IsFiniteSet(made) /\ Cardinality(made) = n
    BY <2>4, <2>5, MadeOver
  <2>7. \A t \in terms : t.pos \in Nat /\ t.pos < n
    BY DEF Dictionary, Ranked
  <2> HIDE DEF n
  <2>8. /\ \A r \in made : r.pos \in Nat /\ r.pos < n /\ IsTerm(r)
        /\ \A r, s \in made : r.pos = s.pos \/ r.text = s.text => r = s
    BY <2>3, <2>5, <2>7
  <2> HIDE DEF made
  <2>9. QED
    BY <2>2, <2>6, <2>8 DEF Dictionary, Ranked
<1>3. QED
  BY <1>1, <1>2

\* What the migration takes from the lines of the old dictionary.
LEMMA TermsLoaded ==
  ASSUME NEW lines, lines \in Seq(Range(lines))
  PROVE  Dictionary(LoadTerms(lines))
<1> PICK n \in Nat : DOMAIN lines = 1 .. n
  BY LenProperties
<1> DEFINE firsts == Firsts(lines)
           f      == [i \in firsts |-> [text |-> lines[i], pos |-> Place(firsts, i)]]
           made   == {f[i] : i \in firsts}
<1>1. LoadTerms(lines) = made
  BY DEF LoadTerms, Firsts, Place, Before
<1>2. firsts \in SUBSET (1 .. n) /\ \A i, k \in firsts : k < i => lines[k] # lines[i]
  BY DEF Firsts
<1> HIDE DEF firsts
<1>3. /\ IsFiniteSet(firsts) /\ Cardinality(firsts) \in Nat
      /\ \A i \in firsts : Place(firsts, i) \in Nat /\ Place(firsts, i) < Cardinality(firsts)
      /\ \A i, k \in firsts : i < k => Place(firsts, i) < Place(firsts, k)
  BY <1>2, PlacesAre
<1>4. /\ DOMAIN f = firsts
      /\ \A i \in firsts : /\ f[i].text = lines[i] /\ f[i].pos = Place(firsts, i)
                           /\ IsTerm(f[i])
  BY DEF IsTerm
<1> HIDE DEF f
<1>5. \A i, k \in firsts : f[i].pos = f[k].pos \/ f[i].text = f[k].text => i = k
  <2> SUFFICES ASSUME NEW i \in firsts, NEW k \in firsts,
                      f[i].pos = f[k].pos \/ f[i].text = f[k].text
               PROVE  i = k
    OBVIOUS
  <2>1. i \in Nat /\ k \in Nat
    BY <1>2
  <2>2. ~(i < k) /\ ~(k < i)
    BY <1>2, <1>3, <1>4
  <2>3. QED
    BY <2>1, <2>2
<1>6. IsFiniteSet(made) /\ Cardinality(made) = Cardinality(firsts)
  BY <1>3, <1>4, <1>5, MadeOver
<1>7. /\ \A r \in made : /\ r.pos \in Nat /\ r.pos < Cardinality(firsts)
                         /\ IsTerm(r)
      /\ \A r, s \in made : r.pos = s.pos \/ r.text = s.text => r = s
  BY <1>3, <1>4, <1>5
<1> HIDE DEF made
<1>8. QED
  BY <1>1, <1>6, <1>7 DEF Dictionary, Ranked

-----------------------------------------------------------------------------
(* The order a save leaves *)

\* One row per place and per name, and every name an editor's.
Shelved(rows) ==
  /\ Ranked(rows)
  /\ \A c, d \in rows : c.name = d.name => c = d
  /\ \A c \in rows : c.name \notin {"stash", Blank}

\* Entries of an editor that knows the rows and gives each a name of its own.
Sayable(entries, n, scenarios) ==
  /\ \A i \in 1 .. n : entries[i].name \notin {"stash", Blank} /\ entries[i].directive # Blank
  /\ \A i, j \in 1 .. n : entries[i].name = entries[j].name => i = j
  /\ \A i, j \in 1 .. n : entries[i].id = entries[j].id => i = j \/ entries[i].id = 0
  /\ \A i \in 1 .. n : entries[i].id # 0 => \E s \in scenarios : s.id = entries[i].id

Put(r, entries, i) ==
  r.name = entries[i].name /\ r.pos = i - 1 /\ entries[i].id \in {0, r.id}
Waits(r, entries, i) == r.name = "stash" /\ r.id = entries[i].id

\* The rows after k entries: the first k are put, each in one row, and the
\* rows of the others wait under a name that is nobody's.
HalfPut(rows, entries, n, k) ==
  /\ \A r \in rows : \/ \E i \in 1 .. k : Put(r, entries, i)
                     \/ \E i \in k + 1 .. n : Waits(r, entries, i)
  /\ \A i \in 1 .. k : \E r \in rows : Put(r, entries, i)
  /\ \A i \in 1 .. k : \A r, s \in rows : Put(r, entries, i) /\ Put(s, entries, i) => r = s
  /\ \A i \in k + 1 .. n : entries[i].id # 0 => \E r \in rows : Waits(r, entries, i)

\* At first every row that is kept waits.
LEMMA AllWait ==
  ASSUME NEW n \in Nat, NEW entries, DOMAIN entries = 1 .. n, NEW scenarios, NEW born,
         IsLibrary(scenarios, born), Sayable(entries, n, scenarios)
  PROVE  LET first == Start(scenarios, entries)
         IN  first.ok /\ HalfPut(first.table, entries, n, 0)
<1> DEFINE kept    == Kept(entries)
           stays   == {r \in scenarios : r.id \in kept}
           Row(r)  == [r EXCEPT !.name = IF r.id \in kept THEN "stash" ELSE r.name]
           rows    == {Row(r) : r \in stays}
           first   == Start(scenarios, entries)
<1>1. \A r \in stays : Row(r).name = "stash" /\ Row(r).id = r.id
  BY DEF IsLibrary, IsScenario
<1>2. first.ok /\ first.table = rows
  <2>1. \A r \in stays : [r EXCEPT !.name = IF r.id \in kept THEN "stash" ELSE @] = Row(r)
    OBVIOUS
  <2>2. Stashed(stays, kept) = rows
    BY <2>1 DEF Stashed
  <2>3. QED
    BY <2>2 DEF Start, Done
<1>3. kept = {entries[i].id : i \in 1 .. n} \ {0}
  BY DEF Kept
<1> HIDE DEF kept, Row, first
<1>4. ASSUME NEW r \in rows
      PROVE  \E i \in 0 + 1 .. n : Waits(r, entries, i)
  <2>1. PICK s \in stays : r = Row(s)
    OBVIOUS
  <2>2. PICK i \in 1 .. n : entries[i].id = s.id
    BY <1>3
  <2>3. QED
    BY <1>1, <2>1, <2>2 DEF Waits
<1>5. ASSUME NEW i \in 0 + 1 .. n, entries[i].id # 0
      PROVE  \E r \in rows : Waits(r, entries, i)
  <2>0. i \in 1 .. n
    OBVIOUS
  <2>1. PICK s \in scenarios : s.id = entries[i].id
    BY <1>5, <2>0 DEF Sayable
  <2>2. s \in stays
    BY <1>3, <1>5, <2>0, <2>1
  <2>3. Waits(Row(s), entries, i)
    BY <1>1, <2>1, <2>2 DEF Waits
  <2>4. QED
    BY <2>2, <2>3
<1> HIDE DEF rows
<1>6. HalfPut(rows, entries, n, 0)
  BY <1>4, <1>5 DEF HalfPut
<1>7. QED
  BY <1>2, <1>6 DEF first

\* No row has the name of an entry that is not put yet.
LEMMA NameFree ==
  ASSUME NEW n \in Nat, NEW entries, NEW scenarios, Sayable(entries, n, scenarios),
         NEW rows, NEW k \in 0 .. n - 1, HalfPut(rows, entries, n, k), NEW r \in rows
  PROVE  r.name # entries[k + 1].name
<1>1. k + 1 \in 1 .. n /\ \A i \in 1 .. k : i \in 1 .. n /\ i # k + 1
  OBVIOUS
<1>2. CASE \E i \in 1 .. k : Put(r, entries, i)
  BY <1>1, <1>2 DEF Put, Sayable
<1>3. CASE \E i \in k + 1 .. n : Waits(r, entries, i)
  BY <1>1, <1>3 DEF Waits, Sayable
<1>4. QED
  BY <1>2, <1>3 DEF HalfPut

\* One more row in its place, instead of the one that waited for it, if any.
LEMMA OnePut ==
  ASSUME NEW n \in Nat, NEW entries, NEW scenarios, Sayable(entries, n, scenarios),
         NEW rows, NEW k \in 0 .. n - 1, HalfPut(rows, entries, n, k),
         \A r \in rows : r.id # 0, \A r, s \in rows : r.id = s.id => r = s,
         NEW prior, prior = {r \in rows : r.id = entries[k + 1].id},
         NEW x, Put(x, entries, k + 1)
  PROVE  HalfPut((rows \ prior) \cup {x}, entries, n, k + 1)
<1> DEFINE rest == rows \ prior
           all  == rest \cup {x}
<1>0. /\ k + 1 \in 1 .. n /\ k + 1 \in k + 1 .. n
      /\ \A i \in 1 .. k : i \in 1 .. n /\ i # k + 1 /\ i - 1 # (k + 1) - 1
      /\ \A i \in k + 1 .. n : i # k + 1 => i \in (k + 1) + 1 .. n
      /\ \A i \in (k + 1) + 1 .. n : i \in k + 1 .. n /\ i # k + 1 /\ i \in 1 .. n
      /\ \A i \in 1 .. (k + 1) : i \in 1 .. k \/ i = k + 1
      /\ \A i \in 1 .. k : i \in 1 .. (k + 1)
      /\ k + 1 \in 1 .. (k + 1)
  OBVIOUS
<1>1. \A r \in rows : r.name # entries[k + 1].name
  BY NameFree
<1>2. ASSUME NEW r \in rest, NEW i \in k + 1 .. n, Waits(r, entries, i)
      PROVE  i \in (k + 1) + 1 .. n
  <2>1. r.id # entries[k + 1].id
    OBVIOUS
  <2>2. QED
    BY <1>0, <1>2, <2>1 DEF Waits
<1>3. ASSUME NEW i \in 1 .. k, NEW r \in rows, Put(r, entries, i)
      PROVE  r \in rest
  <2> SUFFICES ASSUME r \in prior
               PROVE  FALSE
    OBVIOUS
  <2>1. entries[k + 1].id # 0 /\ r.id = entries[k + 1].id
    OBVIOUS
  <2>2. PICK p \in rows : Waits(p, entries, k + 1)
    BY <1>0, <2>1 DEF HalfPut
  <2>3. p = r
    BY <2>1, <2>2 DEF Waits
  <2>4. entries[i].name = "stash"
    BY <1>3, <2>2, <2>3 DEF Waits, Put
  <2>5. QED
    BY <1>0, <2>4 DEF Sayable
<1>4. ASSUME NEW i \in (k + 1) + 1 .. n, NEW r \in rows, Waits(r, entries, i)
      PROVE  r \in rest
  <2> SUFFICES ASSUME r \in prior
               PROVE  FALSE
    OBVIOUS
  <2>1. entries[i].id = entries[k + 1].id /\ entries[i].id # 0
    BY <1>4 DEF Waits
  <2>2. QED
    BY <1>0, <2>1 DEF Sayable
<1>5. \A i \in 1 .. k : ~Put(x, entries, i)
  <2>1. x.pos = (k + 1) - 1
    BY DEF Put
  <2>2. QED
    BY <1>0, <2>1 DEF Put
<1>6. \A r \in rest : ~Put(r, entries, k + 1)
  BY <1>1 DEF Put
<1> HIDE DEF rest
<1>7. rest \subseteq rows
  BY DEF rest
<1>8. ASSUME NEW r \in all
      PROVE  \/ \E i \in 1 .. (k + 1) : Put(r, entries, i)
             \/ \E i \in (k + 1) + 1 .. n : Waits(r, entries, i)
  <2>1. CASE r = x
    BY <1>0, <2>1
  <2>2. CASE r \in rest
    <3>1. \/ \E i \in 1 .. k : Put(r, entries, i)
          \/ \E i \in k + 1 .. n : Waits(r, entries, i)
      BY <1>7, <2>2 DEF HalfPut
    <3>2. QED
      BY <1>0, <1>2, <2>2, <3>1
  <2>3. QED
    BY <2>1, <2>2
<1>9. ASSUME NEW i \in 1 .. (k + 1)
      PROVE  \E r \in all : Put(r, entries, i)
  <2>1. CASE i = k + 1
    BY <2>1
  <2>2. CASE i \in 1 .. k
    BY <1>3, <2>2 DEF HalfPut
  <2>3. QED
    BY <1>0, <2>1, <2>2
<1>10. ASSUME NEW i \in 1 .. (k + 1), NEW r \in all, NEW s \in all,
              Put(r, entries, i), Put(s, entries, i)
       PROVE  r = s
  <2>1. CASE i = k + 1
    BY <1>6, <1>10, <2>1
  <2>2. CASE i \in 1 .. k
    BY <1>5, <1>7, <1>10, <2>2 DEF HalfPut
  <2>3. QED
    BY <1>0, <2>1, <2>2
<1>11. ASSUME NEW i \in (k + 1) + 1 .. n, entries[i].id # 0
       PROVE  \E r \in all : Waits(r, entries, i)
  BY <1>0, <1>4, <1>11 DEF HalfPut
<1> HIDE DEF all
<1>12. QED
  BY <1>8, <1>9, <1>10, <1>11 DEF HalfPut, all, rest

\* An entry of such an editor is never refused.
LEMMA EntryPut ==
  ASSUME NEW n \in Nat, NEW entries, NEW scenarios, Sayable(entries, n, scenarios),
         NEW k \in 0 .. n - 1, NEW acc, acc.ok, NEW last, IsLibrary(acc.table, last),
         HalfPut(acc.table, entries, n, k), NEW born
  PROVE  LET next == SaveStep(acc, entries, born, k + 1)
         IN  next.ok /\ HalfPut(next.table, entries, n, k + 1)
<1> DEFINE rows  == acc.table
           entry == [id |-> entries[k + 1].id, name |-> entries[k + 1].name, pos |-> (k + 1) - 1]
           prior == {r \in rows : r.id = entry.id}
           fresh == [id |-> NewId(rows), name |-> entry.name, pos |-> entry.pos, born |-> born + (k + 1)]
           p     == CHOOSE r \in prior : TRUE
           same  == [p EXCEPT !.name = entry.name, !.pos = entry.pos]
           row   == IF entry.id = 0 THEN fresh ELSE same
           next  == SaveStep(acc, entries, born, k + 1)
<1>1. entry.id = entries[k + 1].id /\ entry.name = entries[k + 1].name /\ entry.pos = (k + 1) - 1
  OBVIOUS
<1>2. next = IF ~acc.ok \/ (\E r \in rows : r.name = entry.name /\ r.id # entry.id)
                \/ (entry.id # 0 /\ prior = {})
             THEN [acc EXCEPT !.ok = FALSE] ELSE Done((rows \ prior) \cup {row})
  BY DEF SaveStep, SaveEntry
<1>3. \A r \in rows : r.name # entry.name
  BY <1>1, NameFree
<1>4. ASSUME entry.id # 0
      PROVE  prior # {}
  <2>1. k + 1 \in k + 1 .. n
    OBVIOUS
  <2>2. \E r \in rows : Waits(r, entries, k + 1)
    BY <1>1, <1>4, <2>1 DEF HalfPut
  <2>3. QED
    BY <1>1, <2>2 DEF Waits
<1>5. next = Done((rows \ prior) \cup {row})
  <2> HIDE DEF rows, entry, prior, row, next
  <2>1. QED
    BY <1>2, <1>3, <1>4
<1>6. (\A r \in rows : r.id # 0) /\ \A r, s \in rows : r.id = s.id => r = s
  BY DEF IsLibrary, IsScenario
<1>7. Put(row, entries, k + 1)
  <2>1. CASE entry.id = 0
    <3>1. row = fresh
      BY <2>1
    <3>2. fresh.name = entry.name /\ fresh.pos = entry.pos
      OBVIOUS
    <3> HIDE DEF fresh, row, entry
    <3>3. QED
      BY <1>1, <2>1, <3>1, <3>2 DEF Put
  <2>2. CASE entry.id # 0
    <3>1. p \in prior
      BY <1>4, <2>2
    <3>2. p \in rows /\ p.id = entry.id
      BY <3>1
    <3> HIDE DEF p
    <3>3. p = [id |-> p.id, name |-> p.name, pos |-> p.pos, born |-> p.born]
      BY <3>2 DEF IsLibrary, IsScenario
    <3>4. same.name = entry.name /\ same.pos = entry.pos /\ same.id = p.id
      <4> HIDE DEF entry
      <4> DEFINE d == [p EXCEPT !.name = entry.name]
      <4>1. d = [id |-> p.id, name |-> entry.name, pos |-> p.pos, born |-> p.born]
        BY <3>3
      <4>2. [d EXCEPT !.pos = entry.pos]
              = [id |-> p.id, name |-> entry.name, pos |-> entry.pos, born |-> p.born]
        <5> HIDE DEF d
        <5>1. QED
          BY <4>1
      <4>3. same = [id |-> p.id, name |-> entry.name, pos |-> entry.pos, born |-> p.born]
        BY <4>2
      <4> HIDE DEF same
      <4>4. QED
        BY <4>3
    <3>5. row = same
      BY <2>2
    <3> HIDE DEF same, row, entry
    <3>6. QED
      BY <1>1, <3>2, <3>4, <3>5 DEF Put
  <2>3. QED
    BY <2>1, <2>2
<1>8. prior = {r \in rows : r.id = entries[k + 1].id}
  OBVIOUS
<1> HIDE DEF row, prior, entry
<1>9. HalfPut((rows \ prior) \cup {row}, entries, n, k + 1)
  <2>1. HalfPut(rows, entries, n, k)
    OBVIOUS
  <2> HIDE DEF rows
  <2>2. QED
    BY <1>6, <1>7, <1>8, <2>1, OnePut
<1> HIDE DEF next
<1>10. next.ok /\ next.table = (rows \ prior) \cup {row}
  BY <1>5 DEF Done
<1>11. next.ok /\ HalfPut(next.table, entries, n, k + 1)
  BY <1>9, <1>10
<1>12. QED
  BY <1>11 DEF next

\* Rows that are all put are in order.
LEMMA AllPut ==
  ASSUME NEW n \in Nat, NEW entries, NEW scenarios, Sayable(entries, n, scenarios),
         NEW rows, HalfPut(rows, entries, n, n)
  PROVE  Shelved(rows)
<1> DEFINE all  == 1 .. n
           f    == [i \in all |-> CHOOSE r \in rows : Put(r, entries, i)]
<1>1. \A r \in rows : \E i \in all : Put(r, entries, i)
  <2>1. n + 1 .. n = {}
    OBVIOUS
  <2>2. QED
    BY <2>1 DEF HalfPut
<1>2. /\ \A i \in all : \E r \in rows : Put(r, entries, i)
      /\ \A i \in all : \A r, s \in rows : Put(r, entries, i) /\ Put(s, entries, i) => r = s
  BY DEF HalfPut
<1>3. IsFiniteSet(all) /\ Cardinality(all) = n
  BY FS_Interval
<1>4. \A i, j \in all : i - 1 = j - 1 => i = j
  OBVIOUS
<1>5. \A i \in all : i - 1 \in Nat /\ i - 1 < n
  OBVIOUS
<1>6. /\ \A i \in all : entries[i].name \notin {"stash", Blank}
      /\ \A i, j \in all : entries[i].name = entries[j].name => i = j
  BY DEF Sayable
<1> HIDE DEF all
<1>7. DOMAIN f = all /\ \A i \in all : f[i] \in rows /\ Put(f[i], entries, i)
  BY <1>2
<1> HIDE DEF f
<1>8. \A i, j \in all : f[i] = f[j] => i = j
  BY <1>4, <1>7 DEF Put
<1>9. {f[i] : i \in all} = rows
  BY <1>1, <1>2, <1>7
<1>10. IsFiniteSet(rows) /\ Cardinality(rows) = n
  BY <1>3, <1>7, <1>8, <1>9, MadeOver
<1>11. \A r \in rows : /\ r.pos \in Nat /\ r.pos < n
                       /\ r.name \notin {"stash", Blank}
  BY <1>1, <1>5, <1>6 DEF Put
<1>12. ASSUME NEW r \in rows, NEW s \in rows, r.pos = s.pos \/ r.name = s.name
       PROVE  r = s
  <2>1. PICK i \in all : Put(r, entries, i)
    BY <1>1
  <2>2. PICK j \in all : Put(s, entries, j)
    BY <1>1
  <2>3. i = j
    BY <1>4, <1>6, <1>12, <2>1, <2>2 DEF Put
  <2>4. QED
    BY <1>2, <2>1, <2>2, <2>3
<1>13. QED
  BY <1>10, <1>11, <1>12 DEF Shelved, Ranked

\* An editor that knows the rows and gives each a name of its own is never
\* refused, whatever names it swaps, and finds every entry in its place.
LEMMA SavesStand ==
  ASSUME NEW n \in Nat, NEW entries, DOMAIN entries = 1 .. n, NEW born \in Nat, NEW scenarios,
         IsLibrary(scenarios, born), Sayable(entries, n, scenarios)
  PROVE  LET result == SaveScenarios(scenarios, entries, born)
         IN  /\ result.ok /\ Shelved(result.table)
             /\ \A i \in 1 .. n : \E s \in result.table : Put(s, entries, i)
<1> PICK acc : InSteps(acc, n, entries, scenarios, born)
  BY SavesInSteps
<1>0. /\ acc[0] = Start(scenarios, entries)
      /\ \A k \in 0 .. n - 1 : acc[k + 1] = SaveStep(acc[k], entries, born, k + 1)
  BY DEF InSteps
<1>01. SaveScenarios(scenarios, entries, born)
         = IF /\ \A i, j \in DOMAIN entries : entries[i].name = entries[j].name => i = j
              /\ \A i \in DOMAIN entries : Blank \notin {entries[i].name, entries[i].directive}
              /\ acc[n].ok
           THEN acc[n] ELSE Refused(scenarios)
  BY DEF InSteps
<1> DEFINE kept    == Kept(entries)
           Good(k) == /\ acc[k] = [ok |-> acc[k].ok, table |-> acc[k].table]
                      /\ IsLibrary(acc[k].table, born + k)
                      /\ Follows(acc[k].table, scenarios, kept, born)
                      /\ acc[k].ok /\ HalfPut(acc[k].table, entries, n, k)
           Bad     == {k \in 0 .. n : ~Good(k)}
<1>1. Good(0)
  <2>1. born + 0 = born
    OBVIOUS
  <2>2. QED
    BY <1>0, <2>1, StartsWell, AllWait
<1>2. ASSUME NEW k \in 0 .. n - 1, Good(k)
      PROVE  Good(k + 1)
  <2> DEFINE entry == [id |-> entries[k + 1].id, name |-> entries[k + 1].name, pos |-> k + 1 - 1]
             last  == born + k
  <2>1. acc[k + 1] = SaveEntry(acc[k], entry, born + (k + 1))
    <3> HIDE DEF Good, kept
    <3>1. acc[k + 1] = SaveStep(acc[k], entries, born, k + 1)
      BY <1>0
    <3>2. QED
      BY <3>1 DEF SaveStep
  <2>2. born + (k + 1) = last + 1 /\ last \in Nat /\ last >= born
    OBVIOUS
  <2> HIDE DEF entry, last
  <2>3. IsLibrary(acc[k].table, last)
    BY <1>2 DEF last
  <2>4. LET next == SaveEntry(acc[k], entry, last + 1)
        IN  /\ next = [ok |-> next.ok, table |-> next.table]
            /\ IsLibrary(next.table, last + 1)
            /\ Follows(next.table, scenarios, kept, born)
    <3> HIDE DEF kept
    <3>1. QED
      BY <1>2, <2>2, <2>3, EntryWell
  <2>5. acc[k + 1].ok /\ HalfPut(acc[k + 1].table, entries, n, k + 1)
    <3>1. acc[k].ok /\ HalfPut(acc[k].table, entries, n, k)
      BY <1>2
    <3>2. acc[k + 1] = SaveStep(acc[k], entries, born, k + 1)
      BY <1>0
    <3> HIDE DEF Good
    <3>3. QED
      BY <2>3, <3>1, <3>2, EntryPut
  <2>6. QED
    BY <2>1, <2>2, <2>4, <2>5
<1> HIDE DEF Good
<1>3. Good(n)
  <2> SUFFICES ASSUME ~Good(n)
               PROVE  FALSE
    OBVIOUS
  <2>1. Bad # {} /\ Bad \subseteq Nat
    OBVIOUS
  <2>2. PICK k \in Bad : \A j \in Bad : ~(<<j, k>> \in OpToRel(<, Nat))
    <3> HIDE DEF Bad
    <3>1. QED
      BY <2>1, NatLessThanWellFounded, WFMin
  <2>3. k \in 0 .. n /\ ~Good(k) /\ \A j \in 0 .. n : j < k => Good(j)
    <3>1. k \in Nat /\ \A j \in Bad : ~(j < k)
      <4> HIDE DEF Bad
      <4>1. QED
        BY <2>1, <2>2 DEF OpToRel
    <3>2. QED
      BY <3>1
  <2>4. k # 0
    BY <1>1, <2>3
  <2>5. k - 1 \in 0 .. n - 1 /\ k - 1 \in 0 .. n /\ k - 1 < k /\ (k - 1) + 1 = k
    BY <2>3, <2>4
  <2>6. QED
    BY <1>2, <2>3, <2>5
<1>4. SaveScenarios(scenarios, entries, born) = acc[n]
  <2>1. acc[n].ok
    BY <1>3 DEF Good
  <2>2. /\ \A i, j \in DOMAIN entries : entries[i].name = entries[j].name => i = j
        /\ \A i \in DOMAIN entries : Blank \notin {entries[i].name, entries[i].directive}
    BY DEF Sayable
  <2>3. QED
    BY <1>01, <2>1, <2>2
<1>5. acc[n].ok /\ HalfPut(acc[n].table, entries, n, n)
  BY <1>3 DEF Good
<1>6. Shelved(acc[n].table)
  BY <1>5, AllPut
<1>7. \A i \in 1 .. n : \E s \in acc[n].table : Put(s, entries, i)
  BY <1>5 DEF HalfPut
<1>8. QED
  BY <1>4, <1>5, <1>6, <1>7

-----------------------------------------------------------------------------
(* The libraries *)

Stands(t) == Dictionary(t.terms) /\ Shelved(t.scenarios)

StandInv == Stands(disk) /\ Stands(mem)

\* Nothing is in order.
LEMMA EmptyStands ==
  ASSUME NEW t, t.terms = {}, t.scenarios = {}
  PROVE  Stands(t)
BY FS_EmptySet DEF Stands, Dictionary, Shelved, Ranked

\* What the migration takes from the lines of the old library.
LEMMA ScenariosLoaded ==
  ASSUME NEW lines, lines \in Seq(Range(lines)), "stash" \notin Range(lines), NEW born
  PROVE  Shelved(LoadScenarios(lines, born))
<1> DEFINE terms == LoadTerms(lines)
           f == [t \in terms |-> [id |-> t.pos + 1, name |-> t.text, pos |-> t.pos,
                                  born |-> born + t.pos + 1]]
           made == {f[t] : t \in terms}
<1>1. LoadScenarios(lines, born) = made
  BY DEF LoadScenarios
<1>2. \A t \in terms : t.text \notin {"stash", Blank}
  <2> SUFFICES ASSUME NEW t \in terms
               PROVE  t.text \notin {"stash", Blank}
    OBVIOUS
  <2> DEFINE firsts == Firsts(lines)
             Term(i) == [text |-> lines[i], pos |-> Place(firsts, i)]
  <2>0. terms = {Term(i) : i \in firsts}
    BY DEF LoadTerms, Firsts, Place, Before
  <2>1. PICK i \in DOMAIN lines : lines[i] # Blank /\ t.text = lines[i]
    <3>1. \A i \in firsts : i \in DOMAIN lines /\ lines[i] # Blank
      BY DEF Firsts
    <3>2. \A i \in firsts : Term(i).text = lines[i]
      OBVIOUS
    <3> HIDE DEF firsts, Term, terms
    <3>3. QED
      BY <2>0, <3>1, <3>2
  <2>2. lines[i] \in Range(lines)
    BY DEF Range
  <2>3. QED
    BY <2>1, <2>2
<1>3. Dictionary(terms)
  BY TermsLoaded
<1> HIDE DEF terms
<1>4. DOMAIN f = terms /\ \A t \in terms : f[t].name = t.text /\ f[t].pos = t.pos
  OBVIOUS
<1> HIDE DEF f
<1>5. \A t, u \in terms : f[t].pos = f[u].pos \/ f[t].name = f[u].name => t = u
  BY <1>3, <1>4 DEF Dictionary, Ranked
<1>6. IsFiniteSet(made) /\ Cardinality(made) = Cardinality(terms)
  BY <1>3, <1>4, <1>5, MadeOver DEF Dictionary, Ranked
<1>7. /\ \A c \in made : /\ c.pos \in Nat /\ c.pos < Cardinality(terms)
                         /\ c.name \notin {"stash", Blank}
      /\ \A c, d \in made : c.pos = d.pos \/ c.name = d.name => c = d
  BY <1>2, <1>3, <1>4, <1>5 DEF Dictionary, Ranked
<1> HIDE DEF made
<1>8. QED
  BY <1>1, <1>6, <1>7 DEF Shelved, Ranked

\* A change of the rows of the history leaves the libraries.
LEMMA HistoryApart ==
  ASSUME NEW t, IsTables(t), NEW sessions, NEW slots
  PROVE  LET w == [t EXCEPT !.sessions = sessions, !.slots = slots]
         IN  w.terms = t.terms /\ w.scenarios = t.scenarios
<1> DEFINE u == [t EXCEPT !.sessions = sessions]
           w == [t EXCEPT !.sessions = sessions, !.slots = slots]
<1>1. u = [version |-> t.version, sessions |-> sessions, slots |-> t.slots,
           terms |-> t.terms, scenarios |-> t.scenarios]
  BY DEF IsTables
<1>2. w = [u EXCEPT !.slots = slots]
  OBVIOUS
<1> HIDE DEF u
<1>3. [u EXCEPT !.slots = slots]
        = [version |-> t.version, sessions |-> sessions, slots |-> slots,
           terms |-> t.terms, scenarios |-> t.scenarios]
  BY <1>1
<1> HIDE DEF w
<1>4. w.terms = t.terms /\ w.scenarios = t.scenarios
  BY <1>2, <1>3
<1>5. QED
  BY <1>4 DEF w

\* A save of the scenarios leaves the terms.
LEMMA TermsApart ==
  ASSUME NEW t, IsTables(t), NEW kept, NEW rows
  PROVE  Saved(t, kept, rows).terms = t.terms /\ Saved(t, kept, rows).scenarios = rows
<1> DEFINE sessions == {[s EXCEPT !.scen = IF @ \in kept THEN @ ELSE 0] : s \in t.sessions}
           u == [t EXCEPT !.sessions = sessions]
           w == [u EXCEPT !.scenarios = rows]
<1>1. Saved(t, kept, rows) = w
  BY DEF Saved, Forget
<1> HIDE DEF sessions
<1>2. u = [version |-> t.version, sessions |-> sessions, slots |-> t.slots,
           terms |-> t.terms, scenarios |-> t.scenarios]
  BY DEF IsTables
<1> HIDE DEF u
<1>3. w = [version |-> t.version, sessions |-> sessions, slots |-> t.slots,
           terms |-> t.terms, scenarios |-> rows]
  BY <1>2
<1> HIDE DEF w
<1>4. QED
  BY <1>1, <1>3

\* A payload with its names apart and its directives given is one of an editor that
\* knows the rows.
LEMMA PayloadSayable ==
  ASSUME NEW p \in Payloads, \A i, j \in DOMAIN p : p[i].name = p[j].name => i = j,
         \A i \in DOMAIN p : p[i].directive # Blank
  PROVE  \E n \in Nat : /\ DOMAIN p = 1 .. n /\ n <= Cardinality(Names)
                        /\ Sayable(p, n, Tables.scenarios)
<1> DEFINE ids == {s.id : s \in Tables.scenarios}
<1>1. Cardinality(Names) \in Nat
  BY StoreAssumption, FS_CardinalityType
<1>2. PICK n \in 0 .. Cardinality(Names) : p \in [1 .. n -> [id : ids \cup {0}, name : Names, directive : {"said", Blank}]]
  BY DEF Payloads
<1>3. \A i, j \in DOMAIN p : p[i].id = p[j].id => i = j \/ p[i].id = 0
  BY DEF Payloads
<1>4. n \in Nat /\ DOMAIN p = 1 .. n /\ n <= Cardinality(Names)
  BY <1>1, <1>2
<1>5. \A i \in 1 .. n : p[i].id \in ids \cup {0} /\ p[i].name \in Names
  BY <1>2
<1>6. \A i \in 1 .. n : p[i].name \notin {"stash", Blank}
  BY <1>5, NamesAssumption
<1>7. \A i \in 1 .. n : p[i].directive # Blank
  BY <1>4
<1>8. Sayable(p, n, Tables.scenarios)
  BY <1>3, <1>4, <1>5, <1>6, <1>7 DEF Sayable
<1>9. QED
  BY <1>4, <1>8

\* A payload that is not refused has names apart and every directive.
LEMMA PayloadApart ==
  ASSUME NEW p \in Payloads, NEW scenarios, NEW born, SaveScenarios(scenarios, p, born).ok
  PROVE  /\ \A i, j \in DOMAIN p : p[i].name = p[j].name => i = j
         /\ \A i \in DOMAIN p : p[i].directive # Blank
<1>1. PICK n \in Nat : DOMAIN p = 1 .. n
  <2>1. Cardinality(Names) \in Nat
    BY StoreAssumption, FS_CardinalityType
  <2>2. PICK n \in 0 .. Cardinality(Names) : DOMAIN p = 1 .. n
    BY DEF Payloads
  <2>3. QED
    BY <2>1, <2>2
<1>2. PICK acc : InSteps(acc, n, p, scenarios, born)
  BY <1>1, SavesInSteps
<1>3. CASE \/ ~\A i, j \in DOMAIN p : p[i].name = p[j].name => i = j
           \/ \E i \in DOMAIN p : p[i].directive = Blank
  <2>1. SaveScenarios(scenarios, p, born) = Refused(scenarios)
    BY <1>2, <1>3 DEF InSteps
  <2>2. QED
    BY <2>1 DEF Refused
<1>4. QED
  BY <1>3

\* Every step leaves both libraries in order.
LEMMA StepsKeepStands ==
  ASSUME StoreType, BirthInv, StandInv, [Next]_vars
  PROVE  StandInv'
<1>0. /\ IsTables(Tables) /\ Stands(Tables) /\ Phases /\ ghost.first \in OldFiles
      /\ Traced(Tables, ghost.born) /\ ghost.born \in Nat
  BY TablesTyped DEF StoreType, GhostType, BirthInv, StandInv, Tables
<1>s. ASSUME UNCHANGED <<disk, mem>>
      PROVE  StandInv'
  BY <1>s DEF StandInv
<1>w. ASSUME NEW t, Stands(t), Writes(t)
      PROVE  StandInv'
  BY <1>w DEF StandInv, Writes
<1>a. ASSUME NEW sessions, NEW slots,
             Writes([Tables EXCEPT !.sessions = sessions, !.slots = slots])
      PROVE  StandInv'
  <2> DEFINE w == [Tables EXCEPT !.sessions = sessions, !.slots = slots]
  <2>1. w.terms = Tables.terms /\ w.scenarios = Tables.scenarios
    BY <1>0, HistoryApart
  <2>2. Writes(w)
    BY <1>a
  <2> HIDE DEF w
  <2>3. Stands(w)
    BY <1>0, <2>1 DEF Stands
  <2>4. QED
    BY <1>w, <2>2, <2>3
<1>1. CASE UNCHANGED vars
  BY <1>s, <1>1 DEF vars
<1>2. CASE \/ Launches \/ DeletesOld \/ Opens \/ Ticks \/ Records \/ RecordSweeps
           \/ Lists \/ ListReads \/ SetsHistory \/ Applies \/ ApplySweeps
  <2>1. UNCHANGED <<disk, mem>>
    BY <1>2 DEF Launches, DeletesOld, Opens, Ticks, Records, RecordSweeps, Lists, ListReads,
       SetsHistory, Applies, ApplySweeps
  <2>2. QED
    BY <1>s, <2>1
<1>3. CASE Migrates
  <2>1. disk.version = 0 /\ disk' = Migrated /\ mem' = mem
    BY <1>3 DEF Migrates
  <2>2. old \in OldFiles
    BY <1>0, <2>1 DEF Phases
  <2>3. /\ old.scenarios \in Seq(Range(old.scenarios)) /\ old.terms \in Seq(Range(old.terms))
        /\ "stash" \notin Range(old.scenarios)
    BY <2>2, StoreAssumption, NamesAssumption
  <2> PICK lines : lines = old.scenarios
    OBVIOUS
  <2> PICK said : said = old.terms
    OBVIOUS
  <2>4. Shelved(LoadScenarios(lines, ghost.born)) /\ Dictionary(LoadTerms(said))
    <3> PICK born : born = ghost.born
      OBVIOUS
    <3>1. QED
      BY <2>3, ScenariosLoaded, TermsLoaded
  <2>5. Migrated.scenarios = LoadScenarios(lines, ghost.born) /\ Migrated.terms = LoadTerms(said)
    BY DEF Migrated
  <2>6. Stands(Migrated)
    BY <2>4, <2>5 DEF Stands
  <2>7. QED
    BY <2>1, <2>6 DEF StandInv
<1>4. CASE OpenFails \/ Stops
  <2>1. mem'.terms = {} /\ mem'.scenarios = {} /\ disk' = disk
    BY <1>4 DEF OpenFails, Stops, Empty
  <2>2. Stands(mem')
    BY <2>1, EmptyStands
  <2>3. QED
    BY <2>1, <2>2 DEF StandInv
<1>5. CASE \/ Settles \/ RecordDeletes \/ ListDeletes \/ ApplyDeletes \/ Clears \/ ApplyClears
  <2>1. PICK gone : Removes(gone)
    BY <1>5 DEF Settles, RecordDeletes, ListDeletes, ApplyDeletes, Clears, ApplyClears
  <2>2. \E sessions, slots : Writes([Tables EXCEPT !.sessions = sessions, !.slots = slots])
    BY <2>1 DEF Removes, Without
  <2>3. QED
    BY <1>a, <2>2
<1>6. CASE RecordInserts
  <2>1. PICK sessions, slots :
          Inserted = [Tables EXCEPT !.sessions = sessions, !.slots = slots]
    BY DEF Inserted
  <2>2. Writes(Inserted)
    BY <1>6 DEF RecordInserts
  <2>3. Writes([Tables EXCEPT !.sessions = sessions, !.slots = slots])
    BY <2>1, <2>2 DEF Writes
  <2>4. QED
    BY <1>a, <2>3
<1>7. CASE EditsTerms
  <2>0. PICK w, v : \E r \in {AppendTerm(Tables.terms, w), RemoveTerm(Tables.terms, w),
                              UpdateTerm(Tables.terms, w, v)} :
                      Writes([Tables EXCEPT !.terms = r.table])
    BY <1>7 DEF EditsTerms
  <2>1. PICK result \in {AppendTerm(Tables.terms, w), RemoveTerm(Tables.terms, w),
                         UpdateTerm(Tables.terms, w, v)} :
          Writes([Tables EXCEPT !.terms = result.table])
    BY <2>0
  <2> PICK terms : terms = Tables.terms
    OBVIOUS
  <2>2. Dictionary(result.table)
    <3>1. Dictionary(terms)
      BY <1>0 DEF Stands
    <3>2. QED
      BY <2>1, <3>1, TermAppended, TermRemoved, TermUpdated
  <2> DEFINE t == [Tables EXCEPT !.terms = result.table]
  <2>3. t.terms = result.table /\ t.scenarios = Tables.scenarios
    BY <1>0 DEF IsTables
  <2>4. Writes(t)
    BY <2>1
  <2> HIDE DEF t
  <2>5. Stands(t)
    BY <1>0, <2>2, <2>3 DEF Stands
  <2>6. QED
    BY <1>w, <2>4, <2>5
<1>8. CASE EditsScenarios
  <2>1. PICK entries \in Payloads :
          LET result == SaveScenarios(Tables.scenarios, entries, ghost.born)
          IN  result.ok /\ Writes(Saved(Tables, Kept(entries), result.table))
    BY <1>8 DEF EditsScenarios, Saved
  <2> PICK scenarios : scenarios = Tables.scenarios
    OBVIOUS
  <2> PICK born : born = ghost.born
    OBVIOUS
  <2> PICK result : result = SaveScenarios(scenarios, entries, born)
    OBVIOUS
  <2>2. PICK n \in Nat : DOMAIN entries = 1 .. n /\ Sayable(entries, n, scenarios)
    <3>1. SaveScenarios(scenarios, entries, born).ok
      BY <2>1
    <3>2. /\ \A i, j \in DOMAIN entries : entries[i].name = entries[j].name => i = j
          /\ \A i \in DOMAIN entries : entries[i].directive # Blank
      BY <3>1, PayloadApart
    <3>3. QED
      BY <3>2, PayloadSayable
  <2>3. Shelved(result.table)
    <3>1. IsLibrary(scenarios, born) /\ born \in Nat
      BY <1>0 DEF Traced
    <3>2. QED
      BY <2>2, <3>1, SavesStand
  <2> DEFINE t == Saved(Tables, Kept(entries), result.table)
  <2>4. t.terms = Tables.terms /\ t.scenarios = result.table
    BY <1>0, TermsApart
  <2>5. Writes(t)
    BY <2>1
  <2> HIDE DEF t
  <2>6. Stands(t)
    BY <1>0, <2>3, <2>4 DEF Stands
  <2>7. QED
    BY <1>w, <2>5, <2>6
<1>9. QED
  BY <1>1, <1>2, <1>3, <1>4, <1>5, <1>6, <1>7, <1>8 DEF Next

\* Rows that stand are in order, as the pickers and the recogniser rely on.
LEMMA StandingInOrder ==
  ASSUME NEW terms, NEW scenarios, Dictionary(terms), Shelved(scenarios)
  PROVE  InOrder(terms, scenarios)
<1>1. Dense(terms) /\ Dense(scenarios)
  BY RankedDense DEF Dictionary, Shelved
<1>2. Cardinality(Texts(terms)) = Cardinality(terms)
  BY TermsDistinct
<1>3. Cardinality({s.name : s \in scenarios}) = Cardinality(scenarios)
  <2> DEFINE f == [s \in scenarios |-> s.name]
             names == {s.name : s \in scenarios}
  <2>1. names = {f[s] : s \in scenarios}
    OBVIOUS
  <2>2. IsFiniteSet(scenarios) /\ DOMAIN f = scenarios
        /\ \A c, d \in scenarios : f[c] = f[d] => c = d
    BY DEF Shelved, Ranked
  <2> HIDE DEF f, names
  <2>3. Cardinality(names) = Cardinality(scenarios)
    BY <2>1, <2>2, MadeOver
  <2>4. QED
    BY <2>3 DEF names
<1>4. QED
  BY <1>1, <1>2, <1>3 DEF InOrder, Shelved

\* The dictionary and the scenario library stand one row per place with no gap,
\* each said once, for any old files and any sequence of edits, and save_scenarios
\* never refuses an editor that knows the rows, names each apart and gives each a
\* directive, whatever names it swaps: every entry is found under its name in its
\* place.
THEOREM LibrariesAlwaysHold == Spec => []LibrariesHold
<1>1. Init => StoreType /\ BirthInv /\ StandInv
  <2> SUFFICES ASSUME Init
               PROVE  BirthInv /\ StandInv
    BY StartsTyped
  <2>1. /\ disk.sessions = {} /\ disk.scenarios = {} /\ mem.sessions = {} /\ mem.scenarios = {}
        /\ disk.terms = {} /\ mem.terms = {} /\ ghost.born = 0
    BY DEF Init, Empty
  <2>2. Traced(disk, 0) /\ Traced(mem, 0)
    BY <2>1, EmptyTraced
  <2>3. Stands(disk) /\ Stands(mem)
    BY <2>1, EmptyStands
  <2>4. QED
    BY <2>1, <2>2, <2>3 DEF BirthInv, StandInv
<1>2. StoreType /\ BirthInv /\ StandInv /\ [Next]_vars => StoreType' /\ BirthInv' /\ StandInv'
  BY StepsTyped, StepsKeepTraced, StepsKeepStands
<1>3. BirthInv /\ StandInv => LibrariesHold
  <2> SUFFICES ASSUME BirthInv, StandInv
               PROVE  LibrariesHold
    OBVIOUS
  <2>1. Stands(Tables) /\ IsLibrary(Tables.scenarios, ghost.born) /\ ghost.born \in Nat
    BY DEF BirthInv, Traced, StandInv, Tables
  <2>2. InOrder(Tables.terms, Tables.scenarios)
    BY <2>1, StandingInOrder DEF Stands
  <2>3. ASSUME NEW p \in Payloads, \A i, j \in DOMAIN p : p[i].name = p[j].name => i = j,
               \A i \in DOMAIN p : p[i].directive # Blank
        PROVE  LET result == SaveScenarios(Tables.scenarios, p, ghost.born)
               IN  /\ result.ok
                   /\ \A i \in DOMAIN p : \E s \in result.table :
                        s.name = p[i].name /\ s.pos = i - 1 /\ p[i].id \in {0, s.id}
    <3> PICK scenarios : scenarios = Tables.scenarios
      OBVIOUS
    <3> PICK born : born = ghost.born
      OBVIOUS
    <3>1. PICK n \in Nat : DOMAIN p = 1 .. n /\ Sayable(p, n, scenarios)
      BY <2>3, PayloadSayable
    <3>2. LET result == SaveScenarios(scenarios, p, born)
          IN  /\ result.ok
              /\ \A i \in 1 .. n : \E s \in result.table : Put(s, p, i)
      BY <2>1, <3>1, SavesStand
    <3>3. QED
      BY <3>1, <3>2 DEF Put
  <2>4. QED
    BY <2>2, <2>3 DEF LibrariesHold
<1>4. QED
  BY <1>1, <1>2, <1>3, PTL DEF Spec

=============================================================================
