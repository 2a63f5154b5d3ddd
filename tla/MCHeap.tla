------------------------------- MODULE MCHeap -------------------------------
EXTENDS Heap

CONSTANTS Sizes, Aligns

MCLayouts == [size : Sizes, align : Aligns]
=============================================================================
