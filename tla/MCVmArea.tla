------------------------------ MODULE MCVmArea ------------------------------
EXTENDS VmArea

\* The data of the longest writes; shorter buffers are their prefixes.
MCBuffers ==
    {SubSeq(s, 1, n) : s \in {<<1, 0, 1, 1>>, <<0, 1, 1, 0>>}, n \in 0..4}
=============================================================================
