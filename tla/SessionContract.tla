-------------------------- MODULE SessionContract --------------------------
(***************************************************************************)
(* What the engine promises of a dictation, whatever it does inside: one   *)
(* session at a time, each ends once, and text reaches the target only as  *)
(* the very step that ends its session as inserted.                        *)
(***************************************************************************)
EXTENDS Naturals, Sequences

CONSTANT Sids

VARIABLES phase,  \* per session: "unborn", "active", "inserted", "cancelled"
          output  \* the sessions whose text reached the target, in order

Init ==
  /\ phase = [s \in Sids |-> "unborn"]
  /\ output = <<>>

Open(s) ==
  /\ phase[s] = "unborn"
  /\ \A other \in Sids : phase[other] # "active"
  /\ \A other \in Sids : other < s => phase[other] # "unborn"
  /\ phase' = [phase EXCEPT ![s] = "active"]
  /\ UNCHANGED output

Deliver(s) ==
  /\ phase[s] = "active"
  /\ phase' = [phase EXCEPT ![s] = "inserted"]
  /\ output' = Append(output, s)

Discard(s) ==
  /\ phase[s] = "active"
  /\ phase' = [phase EXCEPT ![s] = "cancelled"]
  /\ UNCHANGED output

Next == \E s \in Sids : Open(s) \/ Deliver(s) \/ Discard(s)

Spec == Init /\ [][Next]_<<phase, output>>
=============================================================================
