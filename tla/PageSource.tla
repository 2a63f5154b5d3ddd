------------------------------ MODULE PageSource ------------------------------
(***************************************************************************)
(* What the rest of the kernel relies on from PAGE_ALLOCATOR.alloc: every  *)
(* block is page-aligned, made of usable memory only, and disjoint from    *)
(* every block handed out before.  Blocks are never taken back.            *)
(***************************************************************************)
EXTENDS Integers

CONSTANTS PageSize, MaxUsize, AllocLens

VARIABLES
    usable,  \* the addresses of free RAM nobody else uses
    blocks,  \* the ranges handed out
    given    \* how often: a range handed out twice is two allocations

Init == usable \subseteq 0..MaxUsize /\ blocks = {} /\ given = 0

Disjoint(r, s) == r.end <= s.start \/ s.end <= r.start

Alloc(n) ==
    \E a \in 0..MaxUsize :
        LET new == [start |-> a, end |-> a + n] IN
        /\ a % PageSize = 0
        /\ a..(a + n - 1) \subseteq usable
        /\ \A b \in blocks : Disjoint(new, b)
        /\ blocks' = blocks \cup {new}
        /\ given' = given + 1
        /\ UNCHANGED usable

Next == \E n \in AllocLens : Alloc(n)

Spec == Init /\ [][Next]_<<usable, blocks, given>>
===============================================================================
