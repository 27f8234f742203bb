---------------------------- MODULE SlotDocument ----------------------------
(***************************************************************************)
(* The fill-slot document of a preview                                     *)
(* (app/lib/src/preview/slot_document.dart): a skeleton with placeholders, *)
(* one value per identity, rounds of rectified text that arrive over it,   *)
(* and two stacks of snapshots.                                            *)
(*                                                                         *)
(* A skeleton is a sequence of identities and other characters: module     *)
(* Sentinels has the scan that cuts a text into them.  A value is one      *)
(* thing, Empty among them.                                                *)
(***************************************************************************)
EXTENDS Naturals, Sequences, SequencesExt, FiniteSetsExt

CONSTANTS
  Ids,         \* identities: the numbers of placeholders
  Skeletons,   \* the texts that may arrive or be edited to
  Values,      \* the values of slots
  Empty,       \* the empty string
  Marks,       \* cursors an edit may carry
  NoMark,      \* null
  MaxHistory   \* bound: edits that can be stepped back at once

ASSUME SlotAssumption ==
  /\ Skeletons \subseteq Seq(UNION {Range(text) : text \in Skeletons})
  /\ Empty \in Values /\ NoMark \in Marks /\ MaxHistory \in Nat

VARIABLES
  skeleton,  \* _skeleton
  values,    \* _values: of the identities minted so far
  prefill,   \* _prefill: of each identity's last visible round
  visible,   \* _visible
  undo,      \* _undo, newest last
  redo,      \* _redo, newest last
  restored   \* _restoredMark
vars == <<skeleton, values, prefill, visible, undo, redo, restored>>

Minted == DOMAIN values

IdsIn(text) == Range(text) \cap Ids

Snapshot(mark) == [skeleton |-> skeleton, values |-> values, mark |-> mark]

-----------------------------------------------------------------------------
(* Projections *)

\* isModified, of an identity seen before.
Modified(id) == id \in Minted /\ values[id] # prefill[id]

Landed(value) == IF value = Empty THEN <<>> ELSE <<value>>

\* substitute: every minted occurrence becomes its value, in one pass.
Substituted ==
  FlattenSeq([i \in DOMAIN skeleton |->
                IF skeleton[i] \in Minted THEN Landed(values[skeleton[i]])
                ELSE <<skeleton[i]>>])

FaultyFillSlots ==
  FoldLeft(LAMBDA slots, c : IF c \in visible THEN Append(slots, c) ELSE slots,
           <<>>, skeleton)

\* fillSlots: minted occurrences, in body order.
FillSlots ==
  FoldLeft(LAMBDA slots, c : IF c \in Minted THEN Append(slots, c) ELSE slots,
           <<>>, skeleton)

\* confirmRows: one row per identity with an occurrence.
ConfirmRows ==
  LET row(id) == [number |-> id, prefill |-> prefill[id], value |-> values[id]]
      seen == FoldLeft(LAMBDA ids, id : IF Contains(ids, id) THEN ids
                                        ELSE Append(ids, id),
                       <<>>, FillSlots)
  IN [k \in DOMAIN seen |-> row(seen[k])]

-----------------------------------------------------------------------------
(* Operations *)

Init ==
  /\ skeleton = <<>> /\ values = <<>> /\ prefill = <<>> /\ visible = {}
  /\ undo = <<>> /\ redo = <<>> /\ restored = NoMark

\* The rows of a round: any identities, whether or not the text has them.
Tables == UNION {[ids -> Values] : ids \in SUBSET Ids}

FaultyArrive(text, table) ==
  LET fresh == [id \in IdsIn(text) |->
                  IF id \in DOMAIN table THEN table[id] ELSE Empty]
  IN /\ visible' = IdsIn(text)
     /\ values' = [id \in Minted \cup visible' |->
                     IF id \in visible' /\ ~Modified(id) THEN fresh[id]
                     ELSE values[id]]
     /\ prefill' = [id \in Minted \cup visible' |->
                      IF id \in visible' THEN fresh[id] ELSE prefill[id]]
     /\ skeleton' = text
     /\ undo' = <<>> /\ restored' = NoMark
     /\ UNCHANGED redo

\* arrive: identities come from the text, a modified value outlives the
\* round, and no step crosses it.
Arrive(text, table) ==
  LET fresh == [id \in IdsIn(text) |->
                  IF id \in DOMAIN table THEN table[id] ELSE Empty]
  IN /\ visible' = IdsIn(text)
     /\ values' = [id \in Minted \cup visible' |->
                     IF id \in visible' /\ ~Modified(id) THEN fresh[id]
                     ELSE values[id]]
     /\ prefill' = [id \in Minted \cup visible' |->
                      IF id \in visible' THEN fresh[id] ELSE prefill[id]]
     /\ skeleton' = text
     /\ undo' = <<>> /\ redo' = <<>> /\ restored' = NoMark

\* edit: body and values in one step; what is not minted is ignored, and an
\* edit that changes nothing is none.
Edit(text, typed, mark) ==
  LET next == [id \in Minted |-> IF id \in DOMAIN typed THEN typed[id]
                                 ELSE values[id]]
  IN /\ text # skeleton \/ next # values
     /\ undo' = Append(undo, Snapshot(mark))
     /\ redo' = <<>> /\ restored' = NoMark
     /\ skeleton' = text /\ values' = next
     /\ UNCHANGED <<prefill, visible>>

Restores(snapshot) ==
  /\ skeleton' = snapshot.skeleton /\ values' = snapshot.values
  /\ restored' = snapshot.mark
  /\ UNCHANGED <<prefill, visible>>

\* undo: the state left goes to the other stack under the mark of the edit
\* that is stepped back, not under one of its own.
Undo ==
  /\ undo # <<>>
  /\ redo' = Append(redo, Snapshot(Last(undo).mark))
  /\ undo' = Front(undo)
  /\ Restores(Last(undo))

Redo ==
  /\ redo # <<>>
  /\ undo' = Append(undo, Snapshot(Last(redo).mark))
  /\ redo' = Front(redo)
  /\ Restores(Last(redo))

Next ==
  \/ \E text \in Skeletons, table \in Tables : Arrive(text, table)
  \/ /\ Len(undo) < MaxHistory
     /\ \E text \in Skeletons \cup {skeleton}, typed \in Tables, mark \in Marks :
          Edit(text, typed, mark)
  \/ Undo \/ Redo

Spec == Init /\ [][Next]_vars

-----------------------------------------------------------------------------
(* Properties *)

\* What a confirm hands over for the record is what it inserts: the text
\* filled from the rows alone is the text the confirm substitutes, and every
\* row has a place in it.
RowsFillTheText ==
  LET rows == ConfirmRows
      rowOf(id) == {k \in DOMAIN rows : rows[k].number = id}
      filled == [i \in DOMAIN skeleton |->
                   IF rowOf(skeleton[i]) = {} THEN <<skeleton[i]>>
                   ELSE Landed(rows[CHOOSE k \in rowOf(skeleton[i]) : TRUE].value)]
  IN /\ FlattenSeq(filled) = Substituted
     /\ {rows[k].number : k \in DOMAIN rows} \subseteq IdsIn(skeleton)
     /\ \A k, l \in DOMAIN rows : rows[k].number = rows[l].number => k = l

\* The two stacks are one history: module EditHistory, whose line of states
\* is what can be undone, the document, and what can be redone.
Content(snapshot) == [skeleton |-> snapshot.skeleton, values |-> snapshot.values]
Contents(stack) == [k \in DOMAIN stack |-> Content(stack[k])]
MarksOf(stack) == [k \in DOMAIN stack |-> stack[k].mark]

Documents ==
  [skeleton : Skeletons \cup {<<>>},
   values : UNION {[ids -> Values] : ids \in SUBSET Ids}]

History == INSTANCE EditHistory WITH
  States  <- Documents,
  states  <- Append(Contents(undo), Content(Snapshot(NoMark)))
               \o Reverse(Contents(redo)),
  marks   <- MarksOf(undo) \o Reverse(MarksOf(redo)),
  at      <- Len(undo) + 1,
  crossed <- restored

IsOneHistory == History!Spec
=============================================================================
