------------------------------- MODULE MCDoor -------------------------------
\* The seller and a friend, a transfer with one code, a tab with two calls
\* under way (a call the tab gave up on stands for another tab's), one scanner
\* and one member of staff, who may also work for another event.
EXTENDS Door, TLC

Symmetry == Permutations(Calls)
=============================================================================
