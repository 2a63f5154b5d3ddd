-------------------------------- MODULE VmSpace --------------------------------
(***************************************************************************)
(* Address spaces: VmSpace::map and VmSpace::read_bytes over the sorted    *)
(* list of mappings (kernel/src/vmspace.rs) and the four-level page tables *)
(* of kernel/src/arch/x64/vmspace.rs.                                      *)
(*                                                                         *)
(* A call holds the lock of its VmSpace to the end; calls on different     *)
(* spaces interleave, between one page (map) or one mapping (read_bytes)   *)
(* and the next.  Pages are numbered; the page allocator hands out left,   *)
(* left - 1, ..., 1 and then nothing.                                      *)
(***************************************************************************)
EXTENDS Integers, Sequences, FiniteSets

CONSTANTS
    Spaces,       \* VmSpaces
    Areas,        \* VmAreas
    NumPages,     \* area |-> its number of pages
    PageSize,     \* MIN_PAGE_SIZE
    Entries,      \* ENTRIES_PER_TABLE
    HugeEntries,  \* how many entries of BOOT_PDPT map the direct map
    KernelBase,   \* KERNEL_BASE
    MaxUsize,     \* usize::MAX
    MapAddrs,     \* where areas are mapped
    ReadAddrs,    \* where reads start
    ReadLens,     \* how long they are
    MaxPages      \* how many pages the page allocator may have

None == 0
BOOT_PDPT == MaxPages + 1
Pages == 1..MaxPages

ASSUME VmSpaceAssumption ==
    /\ NumPages \in [Areas -> Nat \ {0}]
    /\ PageSize \in Nat \ {0} /\ Entries \in Nat \ {0, 1} /\ Entries % 2 = 0
    /\ HugeEntries \in 0..Entries
    /\ MaxUsize \in Nat /\ KernelBase \in 0..MaxUsize
    /\ MapAddrs \subseteq 0..MaxUsize /\ ReadAddrs \subseteq 0..MaxUsize
    /\ ReadLens \subseteq Nat
    /\ MaxPages \in Nat

AreaLen(a) == NumPages[a] * PageSize

VARIABLES
    left,      \* pages left in the page allocator
    tables,    \* page |-> its entries, for the pages that are page tables
    pml4,      \* space |-> the page of its top-level table, None before new()
    pages,     \* area |-> index |-> its page or None
    mappings,  \* space |-> its mappings, sorted by start
    stray,     \* space |-> the addresses failed map() calls left mapped
    op         \* space |-> the call that holds its lock, or its outcome

memory == <<left, tables>>
vars == <<left, tables, pml4, pages, mappings, stray, op>>

Pte(page, flags) == [page |-> page, flags |-> flags]
NotPresent == Pte(None, {})
EmptyTable == [k \in 0..(Entries - 1) |-> NotPresent]

\* The first entries of BOOT_PDPT map the direct map with huge pages.
BootPdpt ==
    [k \in 0..(Entries - 1) |-> IF k < HugeEntries THEN Pte(None, {"V", "HUGE"}) ELSE NotPresent]

Done(result) ==
    [call |-> "none", area |-> None, start |-> 0, len |-> 0, index |-> 0,
     got |-> <<>>, result |-> result]

Init ==
    /\ left \in 0..MaxPages
    /\ tables = [t \in {BOOT_PDPT} |-> BootPdpt]
    /\ pml4 = [s \in Spaces |-> None]
    /\ pages = [a \in Areas |-> [k \in 0..(NumPages[a] - 1) |-> None]]
    /\ mappings = [s \in Spaces |-> <<>>]
    /\ stray = [s \in Spaces |-> {}]
    /\ op = [s \in Spaces |-> Done("none")]

-------------------------------------------------------------------------------
(* arch::VmSpace                                                              *)

pt_index(u) == (u \div PageSize) % Entries
pdt_index(u) == (u \div (PageSize * Entries)) % Entries
pdpt_index(u) == (u \div (PageSize * Entries * Entries)) % Entries
pml4_index(u) == (u \div (PageSize * Entries * Entries * Entries)) % Entries

\* The entry of a new PML4 that leads to BOOT_PDPT.
KernelSlot == Entries \div 2

\* VmSpace::new
New(s) ==
    /\ pml4[s] = None /\ left > 0
    /\ left' = left - 1
    /\ tables' = [t \in DOMAIN tables \cup {left} |->
                     IF t = left
                     THEN [EmptyTable EXCEPT ![KernelSlot] = Pte(BOOT_PDPT, {"V"})]
                     ELSE tables[t]]
    /\ pml4' = [pml4 EXCEPT ![s] = left]
    /\ UNCHANGED <<pages, mappings, stray, op>>

NewFails(s) == pml4[s] = None /\ left = 0 /\ UNCHANGED vars

\* The state of a walk: tables, left, the table reached, and "Ok" or an error.
Walk(ts, n, t, e) == [tables |-> ts, left |-> n, at |-> t, error |-> e]

\* The flags of a new table's entry.
TableFlags == {"V", "W", "U"}

ensure_next_table(w, index) ==
    LET entry == w.tables[w.at][index] IN
    IF w.error # "Ok" THEN w
    ELSE IF "V" \in entry.flags
         THEN IF "HUGE" \in entry.flags THEN [w EXCEPT !.error = "UNSUPPORTED"]
                                        ELSE [w EXCEPT !.at = entry.page]
    ELSE IF w.left = 0 THEN [w EXCEPT !.error = "OUT_OF_MEMORY"]
    ELSE Walk([t \in DOMAIN w.tables \cup {w.left} |->
                  IF t = w.left THEN EmptyTable
                  ELSE IF t = w.at
                       THEN [w.tables[t] EXCEPT ![index] = Pte(w.left, TableFlags)]
                       ELSE w.tables[t]],
              w.left - 1, w.left, "Ok")

\* The last level: the entry must be free.  Faulty variant: it is overwritten.
SetEntryAlways(w, index, page) ==
    [w EXCEPT !.tables[w.at][index] = Pte(page, {"V", "U"})]
SetEntry(w, index, page) ==
    IF "V" \in w.tables[w.at][index].flags
    THEN [w EXCEPT !.error = "ALREADY_EXISTS"]
    ELSE [w EXCEPT !.tables[w.at][index] = Pte(page, {"V", "U"})]

\* arch::VmSpace::map, with n pages left.
ArchMap(s, u, page, n) ==
    IF u >= KernelBase THEN Walk(tables, n, pml4[s], "NOT_ALLOWED")
    ELSE LET pdpt == ensure_next_table(Walk(tables, n, pml4[s], "Ok"), pml4_index(u))
             pdt == ensure_next_table(pdpt, pdpt_index(u))
             pt == ensure_next_table(pdt, pdt_index(u))
         IN  IF pt.error = "Ok" THEN SetEntry(pt, pt_index(u), page) ELSE pt

-------------------------------------------------------------------------------
(* VmSpace::map                                                               *)

Idle(s) == pml4[s] # None /\ op[s].call = "none"

Finish(s, result) == op' = [op EXCEPT ![s] = Done(result)]

overlaps_with(m, start, end) == start < m.end /\ m.start < end

Map(s, a, u) ==
    /\ Idle(s)
    /\ LET end == u + AreaLen(a) IN
       IF u % PageSize # 0 THEN Finish(s, "INVALID_ARG")
       ELSE IF end > MaxUsize THEN Finish(s, "OUT_OF_BOUNDS")
       ELSE IF \E k \in DOMAIN mappings[s] : overlaps_with(mappings[s][k], u, end)
            THEN Finish(s, "ALREADY_EXISTS")
       ELSE op' = [op EXCEPT ![s] = [Done("none") EXCEPT
                !.call = "map", !.area = a, !.start = u, !.len = AreaLen(a)]]
    /\ UNCHANGED <<memory, pml4, pages, mappings, stray>>

\* VmArea::ensure_page: the page, None if none is left, and the pages left after it.
PageOf(a, index) == IF pages[a][index] # None THEN pages[a][index] ELSE left
\* Faulty variant of LeftAfter: the page is not taken.
LeftKept(a, index) == left
LeftAfter(a, index) == IF pages[a][index] # None THEN left ELSE left - 1

\* `?` in the loop: the pages mapped so far stay mapped.
Abandon(s, error) ==
    /\ Finish(s, error)
    /\ stray' = [stray EXCEPT ![s] =
           @ \cup {op[s].start + k * PageSize : k \in 0..(op[s].index - 1)}]

\* One iteration of the loop.
MapPage(s) ==
    /\ op[s].call = "map" /\ op[s].index < NumPages[op[s].area]
    /\ LET a == op[s].area
           k == op[s].index
           page == PageOf(a, k)
           w == ArchMap(s, op[s].start + k * PageSize, page, LeftAfter(a, k))
       IN  IF page = None
           THEN Abandon(s, "OUT_OF_MEMORY") /\ UNCHANGED <<memory, pages>>
           ELSE /\ pages' = [pages EXCEPT ![a][k] = page]
                /\ tables' = w.tables /\ left' = w.left
                /\ IF w.error = "Ok"
                   THEN op' = [op EXCEPT ![s].index = k + 1] /\ UNCHANGED stray
                   ELSE Abandon(s, w.error)
    /\ UNCHANGED <<pml4, mappings>>

\* Vec::insert at partition_point(start < u), which counts the mappings before u.
\* Faulty variant: the mapping is appended.
InsertLast(s, m) == Append(mappings[s], m)
Insert(s, m) ==
    LET at == Cardinality({k \in DOMAIN mappings[s] : mappings[s][k].start < m.start})
    IN  SubSeq(mappings[s], 1, at) \o <<m>> \o SubSeq(mappings[s], at + 1, Len(mappings[s]))

\* The loop has visited every page.
AllMapped(s) == op[s].index = NumPages[op[s].area]

MapDone(s) ==
    /\ op[s].call = "map" /\ AllMapped(s)
    /\ mappings' = [mappings EXCEPT ![s] =
           Insert(s, [start |-> op[s].start, end |-> op[s].start + op[s].len,
                      area |-> op[s].area])]
    /\ Finish(s, "Ok")
    /\ UNCHANGED <<memory, pml4, pages, stray>>

-------------------------------------------------------------------------------
(* VmSpace::read_bytes                                                        *)

\* The mapping the read starts with: the last one that starts at or before u, 0 if
\* there is none.  Faulty variant: the first one.
FirstMapping(s, u) == IF mappings[s] = <<>> THEN 0 ELSE 1
LastStartingBefore(s, u) ==
    Cardinality({k \in DOMAIN mappings[s] : mappings[s][k].start <= u})

Read(s, u, n) ==
    /\ Idle(s)
    /\ LET k == LastStartingBefore(s, u) IN
       IF n = 0 THEN Finish(s, "Ok")
       ELSE IF u + n > MaxUsize \/ k = 0 THEN Finish(s, "OUT_OF_BOUNDS")
       ELSE op' = [op EXCEPT ![s] = [Done("none") EXCEPT
                !.call = "read", !.start = u, !.len = n, !.index = k]]
    /\ UNCHANGED <<memory, pml4, pages, mappings, stray>>

\* The bytes of the buffer: where each one was copied from.
Byte(a, o) == [page |-> pages[a][o \div PageSize], offset |-> o % PageSize]

\* Where the address u of mapping m is in its area.  Faulty variant: at its start.
AreaStart(m, u) == 0
AreaOffset(m, u) == u - m.start

\* One iteration of the loop over the mappings.  VmArea::read would fill a page on
\* demand, but the pages of a mapping are filled: see TranslationExact.
ReadMapping(s) ==
    /\ op[s].call = "read" /\ op[s].index <= Len(mappings[s])
    /\ Len(op[s].got) < op[s].len
    /\ LET m == mappings[s][op[s].index]
           u == op[s].start + Len(op[s].got)
           rest == op[s].len - Len(op[s].got)
           n == IF rest < m.end - u THEN rest ELSE m.end - u
       IN  IF m.start <= u /\ u < m.end
           THEN op' = [op EXCEPT
                    ![s].got = @ \o [k \in 1..n |-> Byte(m.area, AreaOffset(m, u) + k - 1)],
                    ![s].index = @ + 1]
           ELSE Finish(s, "OUT_OF_BOUNDS")
    /\ UNCHANGED <<memory, pml4, pages, mappings, stray>>

\* The buffer is full, or there is no mapping left: both return Ok.
ReadDone(s) ==
    /\ op[s].call = "read"
    /\ Len(op[s].got) = op[s].len \/ op[s].index > Len(mappings[s])
    /\ op' = [op EXCEPT ![s].call = "none", ![s].result = "Ok"]
    /\ UNCHANGED <<memory, pml4, pages, mappings, stray>>

Next ==
    \E s \in Spaces :
        \/ New(s) \/ NewFails(s)
        \/ \E a \in Areas, u \in MapAddrs : Map(s, a, u)
        \/ MapPage(s) \/ MapDone(s)
        \/ \E u \in ReadAddrs, n \in ReadLens : Read(s, u, n)
        \/ ReadMapping(s) \/ ReadDone(s)

Spec == Init /\ [][Next]_vars

-------------------------------------------------------------------------------
(* Properties                                                                 *)

\* Every variable keeps its type.
TypeOK ==
    /\ left \in 0..MaxPages
    /\ DOMAIN tables \subseteq Pages \cup {BOOT_PDPT}
    /\ \A t \in DOMAIN tables, k \in 0..(Entries - 1) :
        /\ tables[t][k].page \in 0..BOOT_PDPT
        /\ tables[t][k].flags \subseteq {"V", "W", "U", "HUGE"}
    /\ pml4 \in [Spaces -> 0..MaxPages]
    /\ \A a \in Areas : pages[a] \in [0..(NumPages[a] - 1) -> 0..MaxPages]
    /\ \A s \in Spaces : \A k \in DOMAIN mappings[s] :
        mappings[s][k] \in [start : 0..MaxUsize, end : 0..MaxUsize, area : Areas]
    /\ \A s \in Spaces : stray[s] \subseteq 0..MaxUsize
    /\ \A s \in Spaces : op[s].call \in {"none", "map", "read"}

\* "The mapping sorted by the start address": the mappings of a space are sorted and do
\* not overlap, which both partition_points rely on.
MappingsSorted ==
    \A s \in Spaces : \A k, m \in DOMAIN mappings[s] :
        k < m => mappings[s][k].end <= mappings[s][m].start

\* What the MMU finds for the user address u: the entry of the last level, if every
\* level is present and open to user mode.
Entry(t, index) == tables[t][index]
UserTable(e) == {"V", "U"} \subseteq e.flags /\ "HUGE" \notin e.flags
Translate(s, u) ==
    LET e4 == Entry(pml4[s], pml4_index(u))
        e3 == Entry(e4.page, pdpt_index(u))
        e2 == Entry(e3.page, pdt_index(u))
        e1 == Entry(e2.page, pt_index(u))
    IN  IF pml4[s] # None /\ UserTable(e4) /\ UserTable(e3) /\ UserTable(e2) /\ UserTable(e1)
        THEN e1.page ELSE None

\* The page a mapping promises at u, None if no mapping covers u.
Covers(s, k, u) == mappings[s][k].start <= u /\ u < mappings[s][k].end
Promised(s, u) ==
    IF \E k \in DOMAIN mappings[s] : Covers(s, k, u)
    THEN LET m == mappings[s][CHOOSE k \in DOMAIN mappings[s] : Covers(s, k, u)]
         IN  pages[m.area][(u - m.start) \div PageSize]
    ELSE None

\* The user addresses looked at: every page of the user half of the address space.
UserPages == {k * PageSize : k \in 0..((Entries * Entries * Entries * Entries) \div 2 - 1)}

\* Mappings and page tables agree.  The MMU translates every address of a mapping to the
\* page of its area, which has been filled, so that read_bytes never allocates.  What a
\* failed map() left translated is lost for the space: no mapping ever covers it, and a
\* retry meets ALREADY_EXISTS.  Any other page that is translated belongs to a map() in
\* progress.
BeingMapped(s, u) ==
    op[s].call = "map" /\ u \in op[s].start..(op[s].start + op[s].index * PageSize - 1)
TranslationExact ==
    \A s \in Spaces, u \in UserPages :
        IF \E k \in DOMAIN mappings[s] : Covers(s, k, u)
        THEN Promised(s, u) # None /\ Translate(s, u) = Promised(s, u) /\ u \notin stray[s]
        ELSE Translate(s, u) # None <=> u \in stray[s] \/ BeingMapped(s, u)

\* No page serves two purposes: a page table is reached by one entry only, is never a
\* page of an area, and no two areas share a page.
EntriesTo(page) ==
    {e \in (DOMAIN tables) \X (0..(Entries - 1)) :
        "V" \in tables[e[1]][e[2]].flags /\ tables[e[1]][e[2]].page = page}
PagesExclusive ==
    /\ TypeOK
    /\ \A t \in DOMAIN tables \cap Pages : Cardinality(EntriesTo(t)) <= 1
    /\ \A a \in Areas : \A k \in DOMAIN pages[a] : pages[a][k] \notin DOMAIN tables
    /\ \A a, b \in Areas : a # b =>
        {pages[a][k] : k \in DOMAIN pages[a]} \cap {pages[b][k] : k \in DOMAIN pages[b]}
            \subseteq {None}

\* "Keep kernel mappings immutable from this API": no map() changes the table that maps
\* the kernel in every address space.
KernelTableFixed == tables[BOOT_PDPT] = BootPdpt

\* What read_bytes copied is what the user sees at these addresses; it stops short of
\* the end of the buffer only behind the last mapping.
ReadAgrees ==
    \A s \in Spaces : op[s].result \in {"none", "Ok"} =>
        /\ \A k \in DOMAIN op[s].got :
            LET u == op[s].start + k - 1 IN
            /\ op[s].got[k].page = Translate(s, u - (u % PageSize))
            /\ op[s].got[k].offset = u % PageSize
        /\ op[s].result = "Ok" /\ Len(op[s].got) < op[s].len =>
            mappings[s][Len(mappings[s])].end = op[s].start + Len(op[s].got)

\* read_bytes refuses a read only if some address of it is not mapped.
ReadRefused ==
    [][\A s \in Spaces :
        op[s].call = "read" /\ op'[s].result = "OUT_OF_BOUNDS" =>
            \E u \in op[s].start..(op[s].start + op[s].len - 1) : Promised(s, u) = None]_vars

\* "Check if the read is out of bounds": a read that returns Ok filled the buffer.
ReadFills == \A s \in Spaces : op[s].result = "Ok" => Len(op[s].got) = op[s].len
===============================================================================
