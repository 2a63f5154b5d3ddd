------------------------------ MODULE PhysMemory ------------------------------
(***************************************************************************)
(* Physical memory: memory::init() turns the boot loader's memory map into *)
(* the regions of PAGE_ALLOCATOR, which then hands out pages for good      *)
(* (kernel/src/memory.rs, libs/rust/ftl_bump_allocator/src/lib.rs).        *)
(*                                                                         *)
(* A range is a record [start, end] that stands for the addresses from     *)
(* start up to, not including, end.  memory::init() runs on the BSP before *)
(* anything allocates; its loops are modelled iteration by iteration.  An  *)
(* allocation is one critical section of PAGE_ALLOCATOR.regions.           *)
(***************************************************************************)
EXTENDS Integers, Sequences

CONSTANTS
    BootMaps,      \* the memory maps a boot loader may pass, see BootMapOK
    PageSize,      \* MIN_PAGE_SIZE
    DirectMapEnd,  \* arch::DIRECT_MAP_END
    MaxUsize,      \* usize::MAX
    MaxRegions,    \* capacity of PageAllocator.regions
    AllocLens      \* the lengths requested, multiples of PageSize

RangeOK(r) == r.start <= r.end
Overlap(r, s) == r.start < s.end /\ s.start < r.end

RangesIn(m) == [start : 0..m, end : 0..m]

\* free_rams do not overlap each other; the reserved ranges (the kernel image and
\* the modules) may overlap each other and the free RAM in any way.
BootMapOK(b) ==
    /\ b.free_rams \in Seq([addr : 0..MaxUsize, size : 0..MaxUsize])
    /\ b.reserved \in Seq(RangesIn(MaxUsize))
    /\ \A i \in DOMAIN b.reserved : RangeOK(b.reserved[i])
    /\ \A i, j \in DOMAIN b.free_rams :
        LET r == b.free_rams[i]
            s == b.free_rams[j]
        IN  i # j => r.addr + r.size <= s.addr \/ s.addr + s.size <= r.addr

ASSUME PhysAssumption ==
    /\ PageSize \in Nat \ {0}
    /\ MaxUsize \in Nat
    /\ DirectMapEnd \in 0..MaxUsize
    /\ MaxRegions \in Nat
    /\ AllocLens \subseteq {n \in Nat \ {0} : n % PageSize = 0}
    /\ \A b \in BootMaps : BootMapOK(b)

VARIABLES
    bootinfo,  \* the memory map, never changed
    pc,        \* "sort", "ram", "visit", "tail" in init(); "ready" after it
    reserved,  \* init()'s reserved_regions
    i, j,      \* bubble_sort's loop variables
    ram,       \* the free RAM being visited (1-based)
    res,       \* the reserved range being visited (1-based)
    cursor,    \* visit_unused_regions' cursor
    end,       \* visit_unused_regions' end
    regions,   \* PageAllocator.regions; limit is the end new() was called with
    blocks,    \* the ranges handed out so far
    given      \* how often a range was handed out

sortVars == <<reserved, i, j>>
visitVars == <<ram, res, cursor, end>>
vars == <<bootinfo, pc, sortVars, visitVars, regions, blocks, given>>

Init ==
    /\ bootinfo \in BootMaps
    /\ pc = "sort"
    /\ reserved = bootinfo.reserved
    /\ i = 0 /\ j = 0
    /\ ram = 1 /\ res = 1 /\ cursor = 0 /\ end = 0
    /\ regions = <<>>
    /\ blocks = {} /\ given = 0

-------------------------------------------------------------------------------
(* bubble_sort(reserved_regions, |a, b| a.start > b.start)                    *)

len == Len(reserved)

Swapped(s, a, b) == [s EXCEPT ![a] = s[b], ![b] = s[a]]

\* One iteration of the inner loop.
\* Faulty variant: the inner loop stops one pair early.
InnerBoundShort == len - i - 2
InnerBound == len - i - 1

SortInner ==
    /\ pc = "sort" /\ i < len /\ j < InnerBound
    /\ reserved' = IF reserved[j + 1].start > reserved[j + 2].start
                   THEN Swapped(reserved, j + 1, j + 2) ELSE reserved
    /\ j' = j + 1
    /\ UNCHANGED <<bootinfo, pc, i, visitVars, regions, blocks, given>>

SortOuter ==
    /\ pc = "sort" /\ i < len /\ ~(j < InnerBound)
    /\ i' = i + 1 /\ j' = 0
    /\ UNCHANGED <<bootinfo, pc, reserved, visitVars, regions, blocks, given>>

SortDone ==
    /\ pc = "sort" /\ ~(i < len)
    /\ pc' = "ram"
    /\ UNCHANGED <<bootinfo, sortVars, visitVars, regions, blocks, given>>

-------------------------------------------------------------------------------
(* for FreeRam { addr, size } in &bootinfo.free_rams: visit_unused_regions    *)

\* PageAllocator::add_region: a region beyond the capacity is only traced.
\* Faulty variant: the capacity is not looked at.
AddRegionUnbounded(s, e) ==
    regions' = Append(regions, [start |-> s, next |-> e, limit |-> e])
AddRegion(s, e) ==
    regions' = IF Len(regions) < MaxRegions
               THEN Append(regions, [start |-> s, next |-> e, limit |-> e])
               ELSE regions

\* visit_unused_regions' end.
CappedEnd(e) == IF e < DirectMapEnd THEN e ELSE DirectMapEnd

VisitRam ==
    /\ pc = "ram" /\ ram <= Len(bootinfo.free_rams)
    /\ LET r == bootinfo.free_rams[ram] IN
       \/ /\ r.addr + r.size > MaxUsize  \* checked_add fails: skipped
          /\ ram' = ram + 1
          /\ UNCHANGED <<pc, res, cursor, end>>
       \/ /\ r.addr + r.size <= MaxUsize
          /\ cursor' = r.addr
          /\ end' = CappedEnd(r.addr + r.size)
          /\ res' = 1
          /\ pc' = "visit"
          /\ UNCHANGED ram
    /\ UNCHANGED <<bootinfo, sortVars, regions, blocks, given>>

\* `return` and the end of visit_unused_regions.
LeaveRam == ram' = ram + 1 /\ pc' = "ram"

\* `continue`: the reserved range ends before the cursor.
\* Faulty variant: the test is on its start.
StartsBefore(r) == r.start < cursor
EndsBefore(r) == r.end <= cursor

\* `break`: what follows the loop is still to be done.
\* Faulty variant: a `return`, as when the cursor is past the end.
BreakReturns == pc' = "ram" /\ ram' = ram + 1
Break == pc' = "tail" /\ ram' = ram

\* One iteration of the loop over reserved_regions.
VisitReserved ==
    /\ pc = "visit" /\ res <= len
    /\ LET r == reserved[res] IN
       \/ /\ cursor >= end
          /\ LeaveRam
          /\ UNCHANGED <<res, cursor, regions>>
       \/ /\ cursor < end /\ EndsBefore(r)
          /\ res' = res + 1
          /\ UNCHANGED <<pc, ram, cursor, regions>>
       \/ /\ cursor < end /\ ~EndsBefore(r) /\ r.start >= end
          /\ Break
          /\ UNCHANGED <<res, cursor, regions>>
       \/ /\ cursor < end /\ ~EndsBefore(r) /\ r.start < end
          /\ IF cursor < r.start THEN AddRegion(cursor, r.start)
                                 ELSE UNCHANGED regions
          /\ cursor' = r.end
          /\ res' = res + 1
          /\ UNCHANGED <<pc, ram>>
    /\ UNCHANGED <<bootinfo, sortVars, end, blocks, given>>

\* After the loop: the region behind all reserved ranges.
VisitTail ==
    /\ pc = "tail" \/ (pc = "visit" /\ res > len)
    /\ IF cursor < end THEN AddRegion(cursor, end) ELSE UNCHANGED regions
    /\ LeaveRam
    /\ UNCHANGED <<bootinfo, sortVars, res, cursor, end, blocks, given>>

InitDone ==
    /\ pc = "ram" /\ ram > Len(bootinfo.free_rams)
    /\ pc' = "ready"
    /\ UNCHANGED <<bootinfo, sortVars, visitVars, regions, blocks, given>>

-------------------------------------------------------------------------------
(* PageAllocator::alloc                                                       *)

align_down(v, a) == v - (v % a)

\* BumpAllocator::alloc, growing downwards: the address the block would get.
\* Faulty variant: no alignment.
BumpAddrUnaligned(r, n) == r.next - n
BumpAddr(r, n) == align_down(r.next - n, PageSize)

\* checked_sub succeeds and the block does not reach below the region.
\* Faulty variant: the region's start is not looked at.
FitsUnchecked(r, n) == r.next >= n
Fits(r, n) == r.next >= n /\ BumpAddr(r, n) >= r.start

\* The first region with room serves the request.
Alloc(n) ==
    /\ pc = "ready"
    /\ \E k \in DOMAIN regions :
        /\ Fits(regions[k], n)
        /\ \A m \in 1..(k - 1) : ~Fits(regions[m], n)
        /\ LET a == BumpAddr(regions[k], n) IN
           /\ regions' = [regions EXCEPT ![k].next = a]
           /\ blocks' = blocks \cup {[start |-> a, end |-> a + n]}
           /\ given' = given + 1
    /\ UNCHANGED <<bootinfo, pc, sortVars, visitVars>>

\* None: no region has room.
AllocNone(n) ==
    /\ pc = "ready"
    /\ \A k \in DOMAIN regions : ~Fits(regions[k], n)
    /\ UNCHANGED vars

Next ==
    \/ SortInner \/ SortOuter \/ SortDone
    \/ VisitRam \/ VisitReserved \/ VisitTail \/ InitDone
    \/ \E n \in AllocLens : Alloc(n) \/ AllocNone(n)

Spec == Init /\ [][Next]_vars

-------------------------------------------------------------------------------
(* Properties                                                                 *)

\* Every variable keeps its type; the loop indices stay within the ArrayVecs.
TypeOK ==
    /\ bootinfo \in BootMaps
    /\ pc \in {"sort", "ram", "visit", "tail", "ready"}
    /\ reserved \in Seq(RangesIn(MaxUsize)) /\ len = Len(bootinfo.reserved)
    /\ i \in 0..len /\ j \in 0..len
    /\ ram \in 1..(Len(bootinfo.free_rams) + 1)
    /\ res \in 1..(len + 1)
    /\ cursor \in 0..MaxUsize /\ end \in 0..MaxUsize
    /\ regions \in Seq([start : 0..MaxUsize, next : 0..MaxUsize, limit : 0..MaxUsize])
    /\ Len(regions) <= MaxRegions
    /\ \A b \in blocks : b \in RangesIn(MaxUsize)
    /\ given \in Nat

\* The address a belongs to free RAM that the direct map reaches and that is not
\* reserved.
InRam(r, a) == r.addr + r.size <= MaxUsize /\ r.addr <= a /\ a < r.addr + r.size

Usable ==
    {a \in 0..(DirectMapEnd - 1) :
        /\ \E k \in DOMAIN bootinfo.free_rams : InRam(bootinfo.free_rams[k], a)
        /\ \A k \in DOMAIN bootinfo.reserved :
            ~(bootinfo.reserved[k].start <= a /\ a < bootinfo.reserved[k].end)}

\* bubble_sort leaves the reserved ranges sorted by start, and none is lost: the
\* visit's `break` and its cursor depend on both.
ReservedSorted ==
    pc # "sort" =>
        /\ \A a, b \in 1..len : a < b => reserved[a].start <= reserved[b].start
        /\ {reserved[a] : a \in 1..len} =
               {bootinfo.reserved[a] : a \in DOMAIN bootinfo.reserved}

\* However the kernel image, the modules and the free RAM overlap, no region holds
\* an address that is reserved, not RAM, or beyond the direct map.
RegionsUsable ==
    \A k \in DOMAIN regions : regions[k].start..(regions[k].limit - 1) \subseteq Usable

\* visit_unused_regions loses nothing: unless add_region had to drop a region,
\* every usable address is in exactly one region once init() is done.
RegionsComplete ==
    pc = "ready" /\ Len(regions) < MaxRegions =>
        \A a \in Usable :
            \E k \in DOMAIN regions :
                /\ regions[k].start <= a /\ a < regions[k].limit
                /\ \A m \in DOMAIN regions \ {k} :
                    ~(regions[m].start <= a /\ a < regions[m].limit)

\* No two allocations share an address, and each one is page-aligned usable memory:
\* a page is never given to two owners, nor taken from the kernel image or a module.
BlocksSound ==
    /\ \A b \in blocks : b.start % PageSize = 0 /\ b.start..(b.end - 1) \subseteq Usable
    /\ \A b, c \in blocks : b # c => ~Overlap(b, c)

\* PAGE_ALLOCATOR implements PageSource.
Source == INSTANCE PageSource WITH usable <- Usable
ImplementsPageSource == Source!Spec
===============================================================================
