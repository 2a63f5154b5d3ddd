---------------------------- MODULE MCPhysMemory ----------------------------
EXTENDS PhysMemory

\* The points at which a reserved range starts or ends.
CONSTANT Points

MCReserved ==
    LET R == {r \in [start : Points, end : Points] : RangeOK(r)}
    IN  {<<a, b, c>> : a \in R, b \in R, c \in R}

\* One RAM, two adjacent RAMs in either order, a RAM beyond the direct map, and one
\* whose end overflows.
MCRams ==
    LET R(a, n) == [addr |-> a, size |-> n] IN
    { <<R(0, 8)>>, <<R(1, 3), R(4, 4)>>, <<R(5, 2), R(1, 4)>>,
      <<R(6, 5), R(2, 4)>>, <<R(2, 10), R(0, 2)>> }

MCBootMaps == [free_rams : MCRams, reserved : MCReserved]
=============================================================================
