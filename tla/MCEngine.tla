------------------------------ MODULE MCEngine ------------------------------
(* Instances of Engine for TLC. *)
EXTENDS Engine

\* The quick pass-through with and without the model, and passage mode.
MCConfigs ==
  {[passage |-> FALSE, quickMode |-> TRUE, quickRectify |-> TRUE],
   [passage |-> FALSE, quickMode |-> TRUE, quickRectify |-> FALSE],
   [passage |-> TRUE, quickMode |-> FALSE, quickRectify |-> TRUE]}

\* The straight-through paste only.
MCQuickRaw == {[passage |-> FALSE, quickMode |-> TRUE, quickRectify |-> FALSE]}
=============================================================================
