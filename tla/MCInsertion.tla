---------------------------- MODULE MCInsertion ----------------------------
\* The instance TLC checks: a character, a line break of either kind, a
\* character; every wait looks twice, then gives up.
EXTENDS Insertion

TheText == <<"char", "return", "newline", "char">>
TheTries == [w \in {"poll", "gate", "clip"} |-> 2]
=============================================================================
