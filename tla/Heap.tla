--------------------------------- MODULE Heap ---------------------------------
(***************************************************************************)
(* The heap: GlobalAllocator of the kernel (kernel/src/memory.rs) and of   *)
(* the servers (libs/rust/ftl_api/src/allocator.rs), on the K&R free list  *)
(* of libs/rust/ftl_malloc/src/lib.rs.                                     *)
(*                                                                         *)
(* A chunk is a header followed by its data; headers[a] is the header at   *)
(* address a.  An allocation holds the allocator's lock from start to end, *)
(* so one request is in progress at a time: the walk along the free list   *)
(* is modelled node by node.  Chunks come from the page allocator, of      *)
(* which only PageSource's promise is used: they are disjoint and aligned, *)
(* and there may be none left.                                             *)
(***************************************************************************)
EXTENDS Integers, FiniteSets

CONSTANTS
    ChunkAddrs,    \* where the page allocator may place a chunk
    ChunkSize,     \* MALLOC_CHUNK_SIZE
    HeaderSize,    \* HEADER_SIZE
    MinCapacity,   \* MIN_CAPACITY
    MinSize,       \* MIN_SIZE
    MaxU32,        \* u32::MAX
    Layouts        \* the layouts requested: records [size, align]

NULL == 0

ASSUME HeapAssumption ==
    /\ HeaderSize \in Nat \ {0} /\ MinCapacity \in Nat \ {0} /\ MinSize \in Nat \ {0}
    /\ HeaderSize % MinSize = 0
    /\ ChunkSize \in Nat /\ MaxU32 \in Nat
    /\ ChunkSize - HeaderSize \in MinCapacity..(MaxU32 \div 2)
    /\ ChunkAddrs \subseteq {a \in Nat \ {NULL} : a % MinSize = 0}
    /\ \A a, b \in ChunkAddrs : a < b => a + ChunkSize <= b
    /\ Layouts \subseteq [size : Nat \ {0}, align : Nat \ {0}]

VARIABLES
    head,     \* LinkedListAllocator.head
    headers,  \* address |-> [next, capacity, magic], for every header written
    chunks,   \* the addresses of the chunks got from the page allocator
    live,     \* the allocations not freed yet: [ptr, size, align]
    pc,       \* where the request in progress is
    req,      \* its layout
    grown,    \* it has already added a chunk
    prev,     \* malloc's prev
    next      \* malloc's next

walkVars == <<prev, next>>
vars == <<head, headers, chunks, live, pc, req, grown, walkVars>>

Init ==
    /\ head = NULL
    /\ headers = [a \in {} |-> NULL]
    /\ chunks = {}
    /\ live = {}
    /\ pc = "idle"
    /\ req \in Layouts
    /\ grown = FALSE
    /\ prev = NULL /\ next = NULL

-------------------------------------------------------------------------------
(* Header                                                                     *)

Header(n, c, m) == [next |-> n, capacity |-> c, magic |-> m]

is_aligned(v, a) == v % a = 0
align_up(v, a) == ((v + a - 1) \div a) * a

data_ptr(a) == a + HeaderSize
from_data_ptr(p) == p - HeaderSize

\* Faulty variants: the alignment of the data area is not looked at; a chunk of exactly
\* the size is refused.
can_fit_unaligned(a, size, align) == headers[a].capacity >= size
can_fit_strict(a, size, align) ==
    headers[a].capacity > size /\ is_aligned(data_ptr(a), align)
can_fit(a, size, align) ==
    headers[a].capacity >= size /\ is_aligned(data_ptr(a), align)

\* try_split succeeds.
can_split(a, size) == headers[a].capacity - size >= HeaderSize + MinCapacity

-------------------------------------------------------------------------------
(* GlobalAllocator::alloc                                                     *)

\* The size malloc looks for.  Faulty variant: it is not rounded.
ExactSize == req.size
Size == align_up(req.size, MinSize)

\* malloc's entry, with the lists as head leaves them.
MallocEntry(layout, h) ==
    IF layout.size > MaxU32 \div 2
    THEN pc' = "none" /\ UNCHANGED walkVars
    ELSE pc' = "walk" /\ prev' = NULL /\ next' = h

Alloc(layout) ==
    /\ pc = "idle"
    /\ req' = layout
    /\ grown' = FALSE
    /\ MallocEntry(layout, head)
    /\ UNCHANGED <<head, headers, chunks, live>>

\* The chunk at next does not fit: go on to the one behind it.
Walk ==
    /\ pc = "walk" /\ next # NULL /\ ~can_fit(next, Size, req.align)
    /\ prev' = next
    /\ next' = headers[next].next
    /\ UNCHANGED <<head, headers, chunks, live, pc, req, grown>>

WalkEnd ==
    /\ pc = "walk" /\ next = NULL
    /\ pc' = "none" /\ prev' = NULL
    /\ UNCHANGED <<head, headers, chunks, live, req, grown, next>>

\* The header of the remainder, linked where the chunk was.
\* Faulty variant: the room its header takes is not deducted.
RemainderWide(a) == Header(headers[a].next, headers[a].capacity - Size, "FREE")
Remainder(a) ==
    Header(headers[a].next, headers[a].capacity - Size - HeaderSize, "FREE")

\* What follows prev in the list, instead of the chunk at next.
\* Faulty variant: the head is replaced, whatever prev is.
UnlinkHead(hs, nextFree) == head' = nextFree /\ headers' = hs
Unlink(hs, nextFree) ==
    IF prev = NULL
    THEN head' = nextFree /\ headers' = hs
    ELSE headers' = [hs EXCEPT ![prev].next = nextFree] /\ UNCHANGED head

\* The chunk at next fits: split it, mark it, unlink it, return its data.
Take ==
    /\ pc = "walk" /\ next # NULL /\ can_fit(next, Size, req.align)
    /\ LET rest == data_ptr(next) + Size IN
       IF can_split(next, Size)
       THEN LET marked == [headers EXCEPT ![next] = Header(NULL, Size, "ALLOCATED")]
            IN  Unlink([a \in DOMAIN headers \cup {rest} |->
                            IF a = rest THEN Remainder(next) ELSE marked[a]],
                       rest)
       ELSE Unlink([headers EXCEPT ![next].next = NULL, ![next].magic = "ALLOCATED"],
                   headers[next].next)
    /\ live' = live \cup {[ptr |-> data_ptr(next), size |-> req.size, align |-> req.align]}
    /\ pc' = "idle" /\ prev' = NULL /\ next' = NULL
    /\ UNCHANGED <<chunks, req, grown>>

\* add_chunk takes the chunk.
ChunkOK(a) ==
    /\ a # NULL /\ is_aligned(a, MinSize)
    /\ ChunkSize - HeaderSize >= MinCapacity
    /\ ChunkSize - HeaderSize <= MaxU32

\* Nothing fits: get a chunk from the page allocator, add it and try again.
Grow ==
    /\ pc = "none" /\ ~grown
    /\ \E a \in ChunkAddrs \ chunks :
        /\ chunks' = chunks \cup {a}
        /\ IF ChunkOK(a)
           THEN /\ headers' = [x \in DOMAIN headers \cup {a} |->
                                  IF x = a THEN Header(head, ChunkSize - HeaderSize, "FREE")
                                  ELSE headers[x]]
                /\ head' = a
           ELSE UNCHANGED <<head, headers>>
        /\ MallocEntry(req, head')
    /\ grown' = TRUE
    /\ UNCHANGED <<live, req>>

\* The page allocator has no chunk left.
OutOfMemory ==
    /\ pc = "none" /\ ~grown
    /\ pc' = "out_of_memory"
    /\ UNCHANGED <<head, headers, chunks, live, req, grown, walkVars>>

\* The new chunk does not serve the request either.
NewChunkFails ==
    /\ pc = "none" /\ grown
    /\ pc' = "new_chunk_failed"
    /\ UNCHANGED <<head, headers, chunks, live, req, grown, walkVars>>

\* Both panic; the CPU keeps the lock.
Panicked == pc \in {"out_of_memory", "new_chunk_failed"} /\ UNCHANGED vars

-------------------------------------------------------------------------------
(* GlobalAllocator::dealloc                                                   *)

Free(l) ==
    /\ pc = "idle" /\ l \in live
    /\ LET h == from_data_ptr(l.ptr) IN
       /\ headers' = [headers EXCEPT ![h].magic = "FREE", ![h].next = head]
       /\ head' = h
    /\ live' = live \ {l}
    /\ UNCHANGED <<chunks, pc, req, grown, walkVars>>

Next ==
    \/ \E layout \in Layouts : Alloc(layout)
    \/ Walk \/ WalkEnd \/ Take
    \/ Grow \/ OutOfMemory \/ NewChunkFails \/ Panicked
    \/ \E l \in live : Free(l)

Spec == Init /\ [][Next]_vars

-------------------------------------------------------------------------------
(* Properties                                                                 *)

Addrs == DOMAIN headers
FreeHeaders == {a \in Addrs : headers[a].magic = "FREE"}

\* Every variable keeps its type, and list pointers point to headers.
TypeOK ==
    /\ \A a \in Addrs :
        /\ a \in Nat /\ a # NULL /\ is_aligned(a, MinSize)
        /\ headers[a] \in [next : Addrs \cup {NULL}, capacity : Nat,
                           magic : {"FREE", "ALLOCATED"}]
    /\ {head, prev, next} \subseteq Addrs \cup {NULL}
    /\ chunks \subseteq ChunkAddrs
    /\ live \subseteq [ptr : Nat, size : Nat, align : Nat]
    /\ pc \in {"idle", "walk", "none", "out_of_memory", "new_chunk_failed"}
    /\ req \in Layouts
    /\ grown \in BOOLEAN

\* The bytes a header and its data occupy.
Extent(a) == a..(data_ptr(a) + headers[a].capacity - 1)

\* After any sequence of splits and frees the headers and their data tile the
\* chunks: no two overlap, and no byte is lost (with the types the sums rely on).
Tiling ==
    /\ TypeOK
    /\ \A a, b \in Addrs : a # b => Extent(a) \cap Extent(b) = {}
    /\ UNION {Extent(a) : a \in Addrs} = UNION {c..(c + ChunkSize - 1) : c \in chunks}

\* The nodes met when following the free list from its head.
FreeList ==
    LET path[k \in 0..Cardinality(Addrs)] ==
            IF k = 0 THEN head
            ELSE IF path[k - 1] = NULL THEN NULL ELSE headers[path[k - 1]].next
    IN  path

\* The free list ends, visits every free header and visits nothing else: no chunk is
\* leaked by an unlink, and none that is in use can be handed out again.
FreeListExact ==
    /\ FreeList[Cardinality(Addrs)] = NULL
    /\ {FreeList[k] : k \in DOMAIN FreeList} \ {NULL} = FreeHeaders

\* Every live allocation is aligned as asked for, lies within a chunk of its own that
\* is marked allocated, and overlaps no other allocation.
LiveSound ==
    /\ \A l \in live :
        /\ is_aligned(l.ptr, l.align)
        /\ from_data_ptr(l.ptr) \in Addrs \ FreeHeaders
        /\ headers[from_data_ptr(l.ptr)].capacity >= l.size
    /\ \A l, m \in live : l # m => l.ptr + l.size <= m.ptr \/ m.ptr + m.size <= l.ptr

\* malloc gives up only when no free chunk fits: the walk misses none.  "failed to malloc
\* from new chunk" is reached only by a request that is larger than a chunk or asks for
\* more than the alignment of a header; all others are served.
NewChunkServes ==
    /\ pc = "none" /\ req.size <= MaxU32 \div 2 =>
        \A a \in FreeHeaders : ~can_fit(a, Size, req.align)
    /\ pc = "new_chunk_failed" =>
        \/ Size > ChunkSize - HeaderSize
        \/ ~is_aligned(MinSize, req.align)
===============================================================================
