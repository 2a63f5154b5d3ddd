-------------------------------- MODULE VmArea --------------------------------
(***************************************************************************)
(* An anonymous VmArea (kernel/src/vmarea.rs): a sequence of pages that    *)
(* are allocated, zeroed, when first touched.                              *)
(*                                                                         *)
(* write() and read() hold the area's lock; their loops are modelled page  *)
(* by page because each page may fail to be allocated.  Stores of user     *)
(* threads through a mapping are left out.                                 *)
(***************************************************************************)
EXTENDS Integers, Sequences

CONSTANTS
    PageSize,   \* MIN_PAGE_SIZE
    Length,     \* VmArea.len, a multiple of PageSize
    MaxUsize,   \* usize::MAX
    Bytes,      \* the values of a byte
    Zero,       \* the byte 0
    Buffers,    \* the data written, and the buffers read into
    MaxPages,   \* how many pages the page allocator may have left
    None        \* a page not filled yet

ASSUME VmAreaAssumption ==
    /\ PageSize \in Nat \ {0}
    /\ Length \in Nat \ {0} /\ Length % PageSize = 0
    /\ MaxUsize \in Nat /\ Length <= MaxUsize
    /\ Zero \in Bytes
    /\ None \notin [0..(PageSize - 1) -> Bytes]
    /\ Buffers \subseteq Seq(Bytes)
    /\ MaxPages \in Nat

NumPages == Length \div PageSize
Indices == 0..(NumPages - 1)
ZeroPage == [o \in 0..(PageSize - 1) |-> Zero]

VARIABLES
    pages,   \* Mutable.pages: index |-> None or the page's contents
    left,    \* pages left in the page allocator
    call, offset, data, buf, result  \* as in FlatMemory

callVars == <<call, offset, data, buf, result>>
areaVars == <<pages, left, callVars>>

AreaInit ==
    /\ pages = [k \in Indices |-> None]
    /\ left \in 0..MaxPages
    /\ call = "none" /\ offset = 0 /\ data = <<>> /\ buf = <<>> /\ result = "none"

-------------------------------------------------------------------------------
\* The page allocator: PageType::Zeroed.  Faulty variant: PageType::Dirty.
DirtyPage == [ZeroPage EXCEPT ![0] = CHOOSE b \in Bytes : b # Zero]
NewPage == ZeroPage

\* get_or_fill succeeds, and the pages it leaves.
CanFill(index) == pages[index] # None \/ left > 0
Filled(index) == IF pages[index] = None THEN [pages EXCEPT ![index] = NewPage] ELSE pages
LeftAfter(index) == IF pages[index] = None THEN left - 1 ELSE left

\* The check on offset and length in write() and read(); MaxUsize stands in for
\* checked_add.  Faulty variant: only the offset is checked.
OffsetInBounds(o, d) == o <= Length
InBounds(o, d) == o + Len(d) <= MaxUsize /\ o + Len(d) <= Length

\* The entry of write() (c = "write") and of read() (c = "read").
Begin(c, o, d) ==
    /\ call = "none"
    /\ IF InBounds(o, d)
       THEN call' = c /\ offset' = o /\ data' = d /\ buf' = <<>> /\ result' = "none"
       ELSE result' = "OUT_OF_BOUNDS" /\ UNCHANGED <<call, offset, data, buf>>
    /\ UNCHANGED <<pages, left>>

CopyLen ==
    LET room == PageSize - (offset % PageSize)
    IN  IF Len(data) < room THEN Len(data) ELSE room

\* What both loops do at the end of an iteration.
Advance ==
    /\ data' = SubSeq(data, CopyLen + 1, Len(data))
    /\ offset' = offset + CopyLen
    /\ UNCHANGED <<call, result>>

Index == offset \div PageSize

\* One iteration of write()'s loop.
WritePage ==
    /\ call = "write" /\ data # <<>> /\ CanFill(Index)
    /\ LET po == offset % PageSize IN
       pages' = [Filled(Index) EXCEPT ![Index] =
                    [o \in 0..(PageSize - 1) |->
                        IF o \in po..(po + CopyLen - 1) THEN data[o - po + 1] ELSE @[o]]]
    /\ left' = LeftAfter(Index)
    /\ Advance
    /\ UNCHANGED buf

\* One iteration of read()'s loop.
ReadPage ==
    /\ call = "read" /\ data # <<>> /\ CanFill(Index)
    /\ pages' = Filled(Index)
    /\ left' = LeftAfter(Index)
    /\ buf' = buf \o [k \in 1..CopyLen |-> pages'[Index][(offset % PageSize) + k - 1]]
    /\ Advance

Return ==
    /\ call # "none"
    /\ \/ data = <<>> /\ result' = "Ok"
       \/ data # <<>> /\ ~CanFill(Index) /\ result' = "OUT_OF_MEMORY"
    /\ call' = "none"
    /\ UNCHANGED <<pages, left, offset, data, buf>>

\* VmSpace::map fills the pages; it waits for the lock.
ensure_page(index) ==
    /\ call = "none" /\ CanFill(index)
    /\ pages' = Filled(index)
    /\ left' = LeftAfter(index)
    /\ UNCHANGED callVars

AreaNext ==
    \/ \E c \in {"write", "read"}, o \in 0..MaxUsize, d \in Buffers : Begin(c, o, d)
    \/ WritePage \/ ReadPage \/ Return
    \/ \E index \in Indices : ensure_page(index)

AreaSpec == AreaInit /\ [][AreaNext]_areaVars

-------------------------------------------------------------------------------
(* Properties                                                                 *)

\* Every variable keeps its type, and the call in progress stays within the area.
AreaTypeOK ==
    /\ pages \in [Indices -> {None} \cup [0..(PageSize - 1) -> Bytes]]
    /\ left \in 0..MaxPages
    /\ call \in {"none", "write", "read"}
    /\ offset \in 0..Length
    /\ data \in Seq(Bytes) /\ offset + Len(data) <= Length
    /\ buf \in Seq(Bytes)
    /\ result \in {"none", "Ok", "OUT_OF_BOUNDS", "OUT_OF_MEMORY"}

\* The bytes a user of the area sees: a page not filled yet reads as zeros.
Contents ==
    [o \in 0..(Length - 1) |->
        IF pages[o \div PageSize] = None THEN Zero
        ELSE pages[o \div PageSize][o % PageSize]]

\* A VmArea behaves as a zeroed array of bytes: filling a page on demand, at a page
\* boundary, from read() or from ensure_page(), is never seen by its users.
Flat == INSTANCE FlatMemory WITH mem <- Contents
ImplementsFlatMemory == Flat!Spec
===============================================================================
