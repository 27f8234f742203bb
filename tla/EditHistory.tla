---------------------------- MODULE EditHistory ----------------------------
(***************************************************************************)
(* What the history of a preview round promises                            *)
(* (app/lib/src/preview/slot_document.dart): one line of states in time    *)
(* order, each reached from the one before by a marked edit, and a place   *)
(* in it.  Undo and redo walk the line one edit at a time and hand out the *)
(* mark of the edit they cross; an edit cuts off what lies ahead; a new    *)
(* round starts a new line.                                                *)
(***************************************************************************)
EXTENDS Naturals, Sequences

CONSTANTS States, Marks, NoMark

VARIABLES
  states,  \* the states of the round, oldest first
  marks,   \* marks[i] belongs to the edit from states[i] to states[i + 1]
  at,      \* the state the document is in
  crossed  \* the mark of the edit crossed last, NoMark after anything else
vars == <<states, marks, at, crossed>>

Init ==
  /\ states \in {<<s>> : s \in States}
  /\ marks = <<>> /\ at = 1 /\ crossed = NoMark

Round ==
  /\ states' \in {<<s>> : s \in States}
  /\ marks' = <<>> /\ at' = 1 /\ crossed' = NoMark

Edit ==
  \E s \in States, mark \in Marks :
    /\ s # states[at]
    /\ states' = Append(SubSeq(states, 1, at), s)
    /\ marks' = Append(SubSeq(marks, 1, at - 1), mark)
    /\ at' = at + 1 /\ crossed' = NoMark

Undo ==
  /\ at > 1
  /\ at' = at - 1 /\ crossed' = marks[at - 1]
  /\ UNCHANGED <<states, marks>>

Redo ==
  /\ at < Len(states)
  /\ at' = at + 1 /\ crossed' = marks[at]
  /\ UNCHANGED <<states, marks>>

Next == Round \/ Edit \/ Undo \/ Redo

Spec == Init /\ [][Next]_vars
=============================================================================
