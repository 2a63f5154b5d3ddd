------------------------------ MODULE MCVmSpace ------------------------------
EXTENDS VmSpace, TLC

CONSTANTS a1, a2

\* A one-page and a two-page area.
MCNumPages == a1 :> 1 @@ a2 :> 2

MCSymmetry == Permutations(Spaces)
==============================================================================
