---------------------------- MODULE OverlayText ----------------------------
(***************************************************************************)
(* An overlay of the connection card from its box to the request: the JSON *)
(* text the user types, the TOML the save makes of it                      *)
(* (crates/llm/src/config/save.rs, crates/config/src/section_write.rs) and *)
(* the JSON the next load makes of that (crates/llm/src/config/load.rs).   *)
(* A value is a pair of what it is and what it holds; texts and numbers    *)
(* are told apart by what the two notations can say of them.               *)
(***************************************************************************)
EXTENDS Naturals, FiniteSets, Sequences, SequencesExt

Is(value) == value[1]
Of(value) == value[2]
Scalars == {"bool", "string", "integer", "float"}
Refused == <<"refused", {}>>
NoOverlay == <<"none", {}>>

RECURSIVE FaultyJsonItem(_), JsonItem(_), TomlToJson(_)

\* Faulty: a null is left out of its table instead of being refused.
FaultyJsonItem(value) ==
  CASE Is(value) \in Scalars -> value
    [] Is(value) = "array" -> <<"array", [i \in DOMAIN Of(value) |-> FaultyJsonItem(Of(value)[i])]>>
    [] Is(value) = "object" ->
         <<"table", [name \in {n \in DOMAIN Of(value) : Is(Of(value)[n]) # "null"} |->
                       FaultyJsonItem(Of(value)[name])]>>
    [] OTHER -> Refused

\* A null, an integer beyond 64 signed bits and an array of objects and others
\* have no TOML shape.
JsonItem(value) ==
  CASE Is(value) \in Scalars -> value
    [] Is(value) = "array" ->
         LET items == [i \in DOMAIN Of(value) |-> JsonItem(Of(value)[i])]
             objects == {i \in DOMAIN Of(value) : Is(Of(value)[i]) = "object"} IN
         IF objects \notin {{}, DOMAIN Of(value)} \/ Refused \in ToSet(items) THEN Refused
         ELSE <<IF objects = {} THEN "array" ELSE "array of tables", items>>
    [] Is(value) = "object" ->
         LET items == [name \in DOMAIN Of(value) |-> JsonItem(Of(value)[name])] IN
         IF \E name \in DOMAIN items : items[name] = Refused THEN Refused ELSE <<"table", items>>
    [] OTHER -> Refused

ValidShape(fields) == \A name \in DOMAIN fields : JsonItem(fields[name]) # Refused

\* A box: blank or {} is no overlay, anything but an object is refused.
ParseOverlay(text) ==
  CASE Is(text) = "blank" -> NoOverlay
    [] Is(text) = "object" /\ DOMAIN Of(text) = {} -> NoOverlay
    [] Is(text) = "object" /\ DOMAIN Of(text) # {} /\ ValidShape(Of(text)) -> text
    [] OTHER -> Refused

\* A number that is not finite or a date, written by hand, has no JSON shape.
TomlToJson(value) ==
  CASE Is(value) \in Scalars -> value
    [] Is(value) \in {"array", "array of tables"} ->
         <<"array", [i \in DOMAIN Of(value) |-> TomlToJson(Of(value)[i])]>>
    [] Is(value) = "table" ->
         <<"object", [name \in DOMAIN Of(value) |-> TomlToJson(Of(value)[name])]>>
    [] OTHER -> Refused

\* The share as the next load has it; an empty table is no share.
ReadShare(table) ==
  IF Is(table) = "none" \/ DOMAIN Of(table) = {} THEN NoOverlay ELSE TomlToJson(table)

(***************************************************************************)
(* What may be typed: two levels of arrays and objects over every leaf.    *)
(***************************************************************************)
Leaves == {<<kind, 1>> : kind \in Scalars \cup {"null", "big integer"}}
Nested(values) ==
  {<<"array", items>> : items \in {<<>>} \cup {<<v>> : v \in values} \cup {<<v, w>> : v, w \in values}}
  \cup {<<"object", <<>>>>} \cup {<<"object", "a" :> v>> : v \in values}
  \cup {<<"object", "a" :> v @@ "b" :> w>> : v, w \in values}
Documents ==
  LET one == Nested(Leaves)
      two == Nested({v \in one : Cardinality(DOMAIN Of(v)) < 2} \cup {<<"string", 1>>, <<"null", 1>>}) IN
  {<<"blank", 1>>} \cup Leaves \cup one \cup two

\* Whatever a box takes comes back from the file as it was typed, an empty
\* overlay as none; only a document TOML cannot say, or no object, is refused.
OverlaysReadBack ==
  \A text \in Documents :
    LET parsed == ParseOverlay(text) IN
    CASE parsed = Refused -> Is(text) # "blank"
      [] parsed = NoOverlay -> Is(text) = "blank" \/ DOMAIN Of(text) = {}
      [] OTHER -> ReadShare(JsonItem(parsed)) = text
=============================================================================
