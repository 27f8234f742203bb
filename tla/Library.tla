------------------------------ MODULE Library ------------------------------
(***************************************************************************)
(* The two libraries of the store as the calls on their tables leave them: *)
(* the hotword dictionary (crates/store/src/terms.rs) and the scenario     *)
(* library (scenarios.rs), with the loaders of the files they came from    *)
(* (crates/config/src/terms.rs, scenarios.rs).  Every call holds the one   *)
(* connection from beginning to end, so each is an operator from tables to *)
(* tables.                                                                 *)
(*                                                                         *)
(* A term is [text, pos], a scenario [id, name, pos, born]: born tells two *)
(* scenarios apart that were given one row id after the other.             *)
(***************************************************************************)
EXTENDS Naturals, Sequences, FiniteSets, SequencesExt

\* A refused call leaves the table as it was.
Refused(table) == [ok |-> FALSE, table |-> table]
Done(table) == [ok |-> TRUE, table |-> table]

\* trim leaves nothing.
Blank == "blank"

\* SQLite gives a new row the largest id in the table and one: ids come back.
NewId(table) == 1 + Max({row.id : row \in table} \cup {0})

Places(table) == {row.pos : row \in table}

-----------------------------------------------------------------------------
(* The dictionary *)

Texts(terms) == {t.text : t \in terms}

AppendTerm(terms, text) ==
  IF text = Blank THEN Refused(terms)
  ELSE Done(IF text \in Texts(terms) THEN terms
            ELSE terms \cup {[text |-> text,
                              pos |-> Max({p + 1 : p \in Places(terms)} \cup {0})]})

\* Faulty: the gap stays open.
FaultyRemoveTerm(terms, text) == Done({t \in terms : t.text # text})

RemoveTerm(terms, text) ==
  IF text \notin Texts(terms) THEN Done(terms)
  ELSE LET gone == CHOOSE t \in terms : t.text = text
       IN  Done({[t EXCEPT !.pos = IF @ > gone.pos THEN @ - 1 ELSE @] : t \in terms \ {gone}})

UpdateTerm(terms, old, new) ==
  IF Blank \in {old, new} \/ new \in Texts(terms) \/ old \notin Texts(terms)
  THEN Refused(terms)
  ELSE Done({[t EXCEPT !.text = IF @ = old THEN new ELSE @] : t \in terms})

\* load_terms and the migration: the lines that say something, first ones only.
LoadTerms(lines) ==
  LET firsts == {i \in DOMAIN lines : /\ lines[i] \notin {Blank, "#"}
                                      /\ \A j \in 1..(i - 1) : lines[j] # lines[i]}
  IN  {[text |-> lines[i], pos |-> Cardinality({j \in firsts : j < i})] : i \in firsts}

-----------------------------------------------------------------------------
(* The scenario library *)

Stashed(rows, ids) == {[r EXCEPT !.name = IF r.id \in ids THEN "stash" ELSE @] : r \in rows}

\* One entry: its row updated in place, or a new row; names are unique per statement.
SaveEntry(acc, entry, born) ==
  LET clash == \E r \in acc.table : r.name = entry.name /\ r.id # entry.id
      old == {r \in acc.table : r.id = entry.id}
      row == IF entry.id = 0
             THEN [id |-> NewId(acc.table), name |-> entry.name, pos |-> entry.pos, born |-> born]
             ELSE [(CHOOSE r \in old : TRUE) EXCEPT !.name = entry.name, !.pos = entry.pos]
  IN  IF ~acc.ok \/ clash \/ (entry.id # 0 /\ old = {}) THEN [acc EXCEPT !.ok = FALSE]
      ELSE Done((acc.table \ old) \cup {row})

Kept(entries) == {entries[i].id : i \in DOMAIN entries} \ {0}

\* Deletions first, then every kept name out of the way.
Start(scenarios, entries) ==
  Done(Stashed({r \in scenarios : r.id \in Kept(entries)}, Kept(entries)))

\* save_scenarios: one transaction, all of it or nothing; born numbers the new rows.
\* A blank name or directive and a name said twice are refused first.
SaveScenarios(scenarios, entries, born) ==
  LET distinct == \A i, j \in DOMAIN entries : entries[i].name = entries[j].name => i = j
      said == \A i \in DOMAIN entries : Blank \notin {entries[i].name, entries[i].directive}
      Step(acc, i) == SaveEntry(acc, [id |-> entries[i].id, name |-> entries[i].name, pos |-> i - 1],
                                born + i)
      result == FoldLeftDomain(Step, Start(scenarios, entries), entries)
  IN  IF distinct /\ said /\ result.ok THEN result ELSE Refused(scenarios)

\* parse_scenarios and the migration: a name said again only changes its directive.
LoadScenarios(names, born) ==
  {[id |-> t.pos + 1, name |-> t.text, pos |-> t.pos, born |-> born + t.pos + 1] : t \in LoadTerms(names)}

-----------------------------------------------------------------------------
Dense(table) == Places(table) = 0..(Cardinality(table) - 1)

\* What the pickers and the recogniser rely on: terms and scenarios stand one
\* per place with no gap, each said once.
InOrder(terms, scenarios) ==
  /\ Dense(terms) /\ Cardinality(Texts(terms)) = Cardinality(terms)
  /\ Dense(scenarios)
  /\ Cardinality({s.name : s \in scenarios}) = Cardinality(scenarios)
  /\ \A s \in scenarios : s.name \notin {"stash", Blank}
=============================================================================
