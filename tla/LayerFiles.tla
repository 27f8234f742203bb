----------------------------- MODULE LayerFiles -----------------------------
(***************************************************************************)
(* The two layer files of the settings, spokenrectifier.toml (shared, may  *)
(* be committed) and spokenrectifier.local.toml, and the two functions     *)
(* every settings surface goes through: load_section_layers                *)
(* (crates/config/src/lib.rs) and write_section_fields                     *)
(* (crates/config/src/section_write.rs).                                   *)
(*                                                                         *)
(* A file is the set of its tables and a function from the path of a key   *)
(* to its value; a path is the sequence of its names, <<"llm", "model">>.  *)
(* Comments and layout, which a write leaves alone, are not modelled.      *)
(***************************************************************************)
EXTENDS Naturals, Sequences, SequencesExt

CONSTANT Env  \* the environment: from the name of a variable to its value

Layers == <<"shared", "local">>
Both == {"shared", "local"}

\* An optional value that is absent, and a text that is all blanks.
NotSet == "not set"
Blank == ""
Given(value) == value \notin {NotSet, Blank}

Missing == [there |-> FALSE, good |-> TRUE, tables |-> {}, keys |-> <<>>]
Malformed == [there |-> TRUE, good |-> FALSE, tables |-> {}, keys |-> <<>>]

\* A file of which only some sections have been written; none, and it is empty.
Sections(file) == {Head(table) : table \in file.tables}
OnlySections(file, sections) ==
  LET of(paths) == {path \in paths : Head(path) \in sections} IN
  [there |-> TRUE, good |-> TRUE, tables |-> of(file.tables),
   keys |-> [path \in of(DOMAIN file.keys) |-> file.keys[path]]]

\* f with the entries of g over it.
Over(f, g) == [k \in DOMAIN f \cup DOMAIN g |-> IF k \in DOMAIN g THEN g[k] ELSE f[k]]
Within(section) == {SubSeq(section, 1, n) : n \in 1..Len(section)}
Under(section, names) == {Append(section, n) : n \in names}

(***************************************************************************)
(* Reading                                                                 *)
(***************************************************************************)

Has(file, path) == path \in DOMAIN file.keys

\* table_carries_secret: an api_key anywhere, inside the value of an overlay
\* included; below [asr] also secret_id and every key that ends in _key.
SecretNames(path) ==
  {"api_key"} \cup IF Head(path) = "asr" THEN {"secret_id", "secret_key", "access_key"} ELSE {}
Shares == {"body", "thinking_on", "thinking_off", "extra_body"}
CarriesSecret(file) ==
  \E path \in DOMAIN file.keys :
     IF Last(path) \in Shares THEN "api_key" \in DOMAIN file.keys[path]
     ELSE Last(path) \in SecretNames(path) /\ Given(file.keys[path])

\* A malformed file, or a secret in the shared one, refuses every section.
LayersLoad(files) ==
  /\ \A l \in Both : files[l].good
  /\ ~CarriesSecret(files["shared"])

\* The layer whose word counts among those that say something: local over shared.
Layer(saying) ==
  IF "local" \in saying THEN "local" ELSE IF "shared" \in saying THEN "shared" ELSE "none"

\* Folding the overlays onto a default, one key at a time.
Value(files, path, default) ==
  CASE Has(files["local"], path) -> files["local"].keys[path]
    [] ~Has(files["local"], path) /\ Has(files["shared"], path) -> files["shared"].keys[path]
    [] OTHER -> default

Fields(files, defaults) == [path \in DOMAIN defaults |-> Value(files, path, defaults[path])]

(***************************************************************************)
(* Writing.  A write names a section, the fields it sets, the names it     *)
(* removes, and the layer it goes to: "owning" stands for the last layer   *)
(* that has the section "owner", the shared file when none has.            *)
(***************************************************************************)

OwningLayer(files, section) ==
  IF section \in files["local"].tables THEN "local" ELSE "shared"

Target(files, w) == IF w.to = "owning" THEN OwningLayer(files, w.owner) ELSE w.to

Put(file, section, sets) ==
  [file EXCEPT !.there = TRUE, !.tables = @ \cup Within(section),
               !.keys = Over(@, [path \in Under(section, DOMAIN sets) |-> sets[Last(path)]])]

Strip(file, section, resets) ==
  [file EXCEPT !.keys = [path \in DOMAIN @ \ Under(section, resets) |-> @[path]]]

\* What the write makes of one layer: the target gets table and fields, a
\* missing one only when there is a field to set; a removal is made wherever
\* the key is.
EditedFile(file, w, target) ==
  Strip(IF target /\ (file.there \/ DOMAIN w.sets # {}) THEN Put(file, w.section, w.sets) ELSE file,
        w.section, w.resets)
Edited(files, w, layer) == EditedFile(files[layer], w, layer = Target(files, w))

FaultyWrites(files, w) ==
  LET l == Target(files, w) IN <<[layer |-> l, file |-> Edited(files, w, l)]>>
\* The calls of fs::write a section write comes to: the files that exist,
\* shared first, then a target that did not; a file is written when it changes.
Writes(files, w) ==
  LET order == SelectSeq(Layers, LAMBDA l : files[l].there)
                 \o SelectSeq(Layers, LAMBDA l : ~files[l].there)
      changed == SelectSeq(order, LAMBDA l : Edited(files, w, l) # files[l]) IN
  [i \in DOMAIN changed |-> [layer |-> changed[i], file |-> Edited(files, w, changed[i])]]

Write(section, sets, resets, to) ==
  [section |-> section, owner |-> section, sets |-> sets, resets |-> resets, to |-> to]

\* A form's section: its given fields are set, its blank ones removed.
FormWrite(section, ask, names) ==
  LET given == {n \in names : Given(ask[Append(section, n)])} IN
  Write(section, [n \in given |-> ask[Append(section, n)]], names \ given, "owning")

\* KeyEdit::write_to_local: keep writes nothing, a blank key is a cleared one.
KeyWrites(section, name, edit) ==
  IF edit = "keep" THEN <<>>
  ELSE IF edit \in {"clear", Blank} THEN <<Write(section, <<>>, {name}, "local")>>
  ELSE <<Write(section, [n \in {name} |-> edit], {}, "local")>>

\* A stored key, else the variable named for it.
Resolved(key, env) ==
  IF key # NotSet THEN key
  ELSE IF env \in DOMAIN Env /\ Env[env] # Blank THEN Env[env] ELSE NotSet
=============================================================================
