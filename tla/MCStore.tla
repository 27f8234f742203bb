------------------------------ MODULE MCStore ------------------------------
\* The instance TLC checks: a history with a blank row beside a dictionary and a
\* library that say a name twice, or nothing but a history that cannot be read.
EXTENDS Store

Row(n, blank) == [id |-> n, at |-> 0, blank |-> blank]
Before == [sessions |-> {Row(1, FALSE), Row(2, TRUE)}, readable |-> TRUE,
           terms |-> <<"u", "#", "u", "v">>, scenarios |-> <<"x", Blank, "x">>]
Unreadable == [sessions |-> {Row(1, FALSE)}, readable |-> FALSE, terms |-> <<>>,
               scenarios |-> <<>>]
TheOldFiles == {Before, Unreadable}
=============================================================================
