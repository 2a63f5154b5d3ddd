-------------------------------- MODULE MCSharedRef --------------------------------
EXTENDS SharedRef, TLC

CONSTANTS c1, c2, c3, r1, r2, r3

Symmetry == Permutations({c1, c2, c3}) \cup Permutations({r1, r2, r3})
MCRight == {"READ"}
===============================================================================
