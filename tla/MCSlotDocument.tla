--------------------------- MODULE MCSlotDocument ---------------------------
EXTENDS SlotDocument

CONSTANTS s1, s2, plain

\* Two slots apart, and one that occurs twice.
MCSkeletons == {<<s2, plain, s1>>, <<s1, s1>>}
=============================================================================
