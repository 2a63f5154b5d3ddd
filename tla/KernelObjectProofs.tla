------------------------- MODULE KernelObjectProofs --------------------------
(***************************************************************************)
(* Proofs about the memory of the kernel and what lives in it: VmArea, the *)
(* memory given to servers; SharedRef, the references to kernel objects;   *)
(* and Heap, the allocator that the objects and containers come from.      *)
(*                                                                         *)
(* Proofs about VmArea, for every page size, area length, set of buffers   *)
(* and number of pages left: its types and its refinement of FlatMemory.   *)
(*                                                                         *)
(* AreaTypeOK is inductive.  The refinement rests on the arithmetic of     *)
(* offset = PageSize * (offset \div PageSize) + offset % PageSize: the     *)
(* bytes an iteration copies are CopyLen consecutive bytes of one page.    *)
(*                                                                         *)
(* SharedRef: the counter is exact, and every access happens before the    *)
(* free, for every number of CPUs and references.                          *)
(*                                                                         *)
(* The argument for FreeOrdered: what a CPU has done to the object is      *)
(* always known to whoever holds some reference, or has been released with *)
(* the counter (Carried).  A reference that is dropped hands its holder's  *)
(* knowledge to the counter, one that is passed on through the lock takes  *)
(* it along.  When the last one is dropped, the counter has all of it, and *)
(* the fence takes it over.                                                *)
(*                                                                         *)
(* Proofs about Heap, for every chunk and header size, every placement of  *)
(* the chunks and every set of layouts: Tiling, LiveSound, NewChunkServes  *)
(* and FreeListExact.                                                      *)
(*                                                                         *)
(* None of the four is inductive: an unlink is harmless only because the   *)
(* free list is a list.  The invariant below says so with an order r of    *)
(* the free headers, the distance to the end of the list: next decreases   *)
(* it by one, no two free headers have the same, and head has the largest. *)
(* It follows that exactly one link leads to the chunk that is taken, that *)
(* the walk starts in front of every free header and that it skips none.   *)
(***************************************************************************)
EXTENDS VmArea, SharedRef, Heap, TLAPS

-------------------------------------------------------------------------------
(* Heap: the inductive invariant                                              *)

\* The address behind the data of a header.
End(a) == data_ptr(a) + headers[a].capacity

Apart == \A a, b \in Addrs : a < b => End(a) <= b

InHeader(x) == \E a \in Addrs : a <= x /\ x < End(a)
InChunk(x) == \E c \in chunks : c <= x /\ x < c + ChunkSize
Covered == \A x \in Nat : InHeader(x) <=> InChunk(x)

Owned ==
    /\ \A l \in live :
        /\ is_aligned(l.ptr, l.align)
        /\ from_data_ptr(l.ptr) \in Addrs \ FreeHeaders
        /\ headers[from_data_ptr(l.ptr)].capacity >= l.size
    /\ \A l, m \in live : l.ptr = m.ptr => l = m

ListOrder(r) ==
    /\ \A a, b \in FreeHeaders : r[a] = r[b] => a = b
    /\ \A a \in FreeHeaders :
        IF r[a] = 0 THEN headers[a].next = NULL
        ELSE headers[a].next \in FreeHeaders /\ r[headers[a].next] = r[a] - 1
    /\ IF head = NULL THEN FreeHeaders = {}
       ELSE head \in FreeHeaders /\ \A a \in FreeHeaders : r[a] <= r[head]

Fits(a) == can_fit(a, Size, req.align)

\* The walk is at the link behind prev, and what it has passed does not fit.
WalkOrder(r) ==
    pc = "walk" =>
        /\ IF prev = NULL THEN next = head
           ELSE prev \in FreeHeaders /\ headers[prev].next = next
        /\ \A a \in FreeHeaders : (next = NULL \/ r[a] > r[next]) => ~Fits(a)

Listed == \E r \in [FreeHeaders -> Nat] : ListOrder(r) /\ WalkOrder(r)

TooMuch == Size > ChunkSize - HeaderSize \/ ~is_aligned(MinSize, req.align)

Served ==
    /\ pc = "walk" => req.size <= MaxU32 \div 2
    /\ pc = "none" /\ req.size <= MaxU32 \div 2 => \A a \in FreeHeaders : ~Fits(a)
    /\ grown /\ pc = "walk" => TooMuch \/ (next # NULL /\ Fits(next))
    /\ grown /\ pc = "none" => TooMuch
    /\ pc = "new_chunk_failed" => TooMuch

IInv == TypeOK /\ Apart /\ Covered /\ Owned /\ Listed /\ Served

-------------------------------------------------------------------------------
(* Sizes and alignments                                                       *)

\* Addresses are ordered.
LEMMA Ordering ==
    ASSUME NEW x \in Nat, NEW y \in Nat, NEW z \in Nat
    PROVE  /\ x # y => x < y \/ y < x
           /\ x <= y /\ y < z => x <= z
           /\ x < y /\ y <= z => ~(z < x)
OBVIOUS

LEMMA DivideBy ==
    ASSUME NEW v \in Nat, NEW a \in Nat \ {0}
    PROVE  /\ v \div a \in Nat
           /\ v % a \in 0..(a - 1)
           /\ v = a * (v \div a) + (v % a)
BY SMT

LEMMA Multiple ==
    ASSUME NEW k \in Nat, NEW a \in Nat \ {0}
    PROVE  (k * a) % a = 0 /\ k * a \in Nat
BY SMT

\* Multiples of a are the aligned numbers.
LEMMA AlignedMultiple ==
    ASSUME NEW v \in Nat, NEW a \in Nat \ {0}, v % a = 0
    PROVE  \E k \in Nat : v = k * a
<1>1. v \div a \in Nat /\ v = a * (v \div a) + (v % a)
  BY DivideBy, Zenon
<1>2. v = (v \div a) * a
  BY <1>1, SMT
<1>. QED
  BY <1>1, <1>2, Zenon

LEMMA AlignedSum ==
    ASSUME NEW v \in Nat, NEW w \in Nat, NEW a \in Nat \ {0}, v % a = 0, w % a = 0
    PROVE  (v + w) % a = 0
<1>1. PICK j \in Nat : v = j * a
  BY AlignedMultiple, Zenon
<1>2. PICK k \in Nat : w = k * a
  BY AlignedMultiple, Zenon
<1>3. v + w = (j + k) * a /\ j + k \in Nat
  BY <1>1, <1>2, SMT
<1>. QED
  BY <1>3, Multiple, Zenon

LEMMA AlignedTransitive ==
    ASSUME NEW v \in Nat, NEW a \in Nat \ {0}, NEW b \in Nat \ {0}, v % a = 0, a % b = 0
    PROVE  v % b = 0
<1>1. PICK j \in Nat : v = j * a
  BY AlignedMultiple, Zenon
<1>2. PICK k \in Nat : a = k * b
  BY AlignedMultiple, Zenon
<1>3. v = (j * k) * b /\ j * k \in Nat
  BY <1>1, <1>2, SMT
<1>. QED
  BY <1>3, Multiple, Zenon

\* malloc's size is the size asked for, rounded up to a multiple of MinSize.
LEMMA SizeRounded ==
    ASSUME TypeOK
    PROVE  /\ Size \in Nat /\ Size >= req.size /\ Size % MinSize = 0
           /\ req.size \in Nat \ {0} /\ req.align \in Nat \ {0}
<1>1. req.size \in Nat \ {0} /\ req.align \in Nat \ {0}
  BY HeapAssumption, Zenon DEF TypeOK
<1>. DEFINE v == req.size + MinSize - 1
            q == v \div MinSize
<1>2. v \in Nat /\ MinSize \in Nat \ {0}
  BY <1>1, HeapAssumption
<1>3. q \in Nat /\ v % MinSize \in 0..(MinSize - 1) /\ v = MinSize * q + (v % MinSize)
  BY <1>2, DivideBy, Zenon
<1>4. (q * MinSize) % MinSize = 0 /\ q * MinSize \in Nat
  BY <1>2, <1>3, Multiple, Zenon
<1>5. MinSize * q = q * MinSize
  BY <1>2, <1>3, SMT
<1>6. Size = q * MinSize
  BY Zenon DEF Size, align_up
<1>7. Size >= req.size
  <2>. DEFINE m == v % MinSize
  <2>1. m \in 0..(MinSize - 1) /\ v = Size + m /\ Size \in Nat
    BY <1>3, <1>4, <1>5, <1>6, Zenon
  <2>. HIDE DEF m
  <2>. QED
    BY <2>1, <1>1, <1>2
<1>. QED
  BY <1>1, <1>4, <1>6, <1>7, Zenon

-------------------------------------------------------------------------------
(* Steps that leave the headers alone                                         *)

\* head, prev and next lead to free headers.
LEMMA NextFree ==
    ASSUME TypeOK, NEW r \in [FreeHeaders -> Nat], ListOrder(r), WalkOrder(r), pc = "walk",
           next # NULL
    PROVE  next \in FreeHeaders
BY Zenon DEF ListOrder, WalkOrder

\* What a header is.
LEMMA HeaderType ==
    ASSUME TypeOK, NEW a \in Addrs
    PROVE  /\ a \in Nat \ {NULL} /\ a % MinSize = 0
           /\ headers[a] \in [next : Addrs \cup {NULL}, capacity : Nat,
                              magic : {"FREE", "ALLOCATED"}]
           /\ headers[a].capacity \in Nat /\ headers[a].next \in Addrs \cup {NULL}
           /\ End(a) \in Nat /\ End(a) = a + HeaderSize + headers[a].capacity
BY HeapAssumption DEF TypeOK, is_aligned, End, data_ptr

LEMMA SameHeaders ==
    ASSUME IInv, UNCHANGED <<headers, chunks, live>>
    PROVE  /\ Apart' /\ Covered' /\ Owned'
           /\ Addrs' = Addrs /\ FreeHeaders' = FreeHeaders
BY Zenon DEF IInv, Apart, Covered, Owned, InHeader, InChunk, End, Addrs, FreeHeaders, data_ptr,
       from_data_ptr, is_aligned

LEMMA AllocPreserves ==
    ASSUME IInv, NEW layout \in Layouts, Alloc(layout)
    PROVE  IInv'
<1>1. /\ UNCHANGED <<head, headers, chunks, live>> /\ req' = layout /\ grown' = FALSE
      /\ \/ layout.size > MaxU32 \div 2 /\ pc' = "none" /\ prev' = prev /\ next' = next
         \/ ~(layout.size > MaxU32 \div 2) /\ pc' = "walk" /\ prev' = NULL /\ next' = head
  BY Zenon DEF Alloc, MallocEntry, walkVars
<1>2. Apart' /\ Covered' /\ Owned' /\ Addrs' = Addrs /\ FreeHeaders' = FreeHeaders
  BY <1>1, SameHeaders, Zenon
<1>3. TypeOK'
  BY <1>1, <1>2, Zenon DEF IInv, TypeOK
<1>4. Listed'
  <2>1. PICK r \in [FreeHeaders -> Nat] : ListOrder(r)
    BY Zenon DEF IInv, Listed
  <2>2. ListOrder(r)'
    BY <1>1, <1>2, <2>1, Zenon DEF ListOrder
  <2>3. WalkOrder(r)'
    <3>1. ASSUME pc' = "walk", NEW a \in FreeHeaders, (next' = NULL \/ r[a] > r[next'])
          PROVE  FALSE
      BY <1>1, <3>1, <2>1 DEF ListOrder
    <3>2. pc' = "walk" => prev' = NULL /\ next' = head'
      BY <1>1, Zenon
    <3>. QED
      BY <1>2, <3>1, <3>2, Zenon DEF WalkOrder
  <2>. QED
    BY <1>2, <2>1, <2>2, <2>3, Zenon DEF Listed
<1>5. Served'
  <2>1. MaxU32 \div 2 \in Int /\ layout.size \in Nat
    BY HeapAssumption
  <2>2. pc' = "walk" => req'.size <= MaxU32 \div 2
    BY <1>1, <2>1
  <2>3. pc' = "none" => ~(req'.size <= MaxU32 \div 2)
    BY <1>1, <2>1
  <2>. QED
    BY <1>1, <2>2, <2>3, Zenon DEF Served
<1>. QED
  BY <1>2, <1>3, <1>4, <1>5, Zenon DEF IInv

LEMMA WalkPreserves ==
    ASSUME IInv, Walk
    PROVE  IInv'
<1>1. /\ UNCHANGED <<head, headers, chunks, live, pc, req, grown>>
      /\ pc = "walk" /\ next # NULL /\ ~Fits(next)
      /\ prev' = next /\ next' = headers[next].next
  BY Zenon DEF Walk, Fits
<1>2. Apart' /\ Covered' /\ Owned' /\ Addrs' = Addrs /\ FreeHeaders' = FreeHeaders
  BY <1>1, SameHeaders, Zenon
<1>3. PICK r \in [FreeHeaders -> Nat] : ListOrder(r) /\ WalkOrder(r)
  BY Zenon DEF IInv, Listed
<1>4. TypeOK /\ next \in FreeHeaders /\ next \in Addrs /\ \A a \in FreeHeaders : a # NULL
  BY <1>1, <1>3, NextFree, HeaderType, Zenon DEF IInv, FreeHeaders
<1>5. headers[next].next \in Addrs \cup {NULL}
  BY <1>4, HeaderType, Zenon
<1>6. TypeOK'
  BY <1>1, <1>2, <1>4, <1>5 DEF TypeOK
<1>7. \A a : Fits(a)' <=> Fits(a)
  BY <1>1, Zenon DEF Fits, can_fit, data_ptr, is_aligned, Size, align_up
<1>8. ListOrder(r)'
  BY <1>1, <1>2, <1>3, Zenon DEF ListOrder
<1>9. WalkOrder(r)'
  <2>1. ASSUME NEW a \in FreeHeaders, (next' = NULL \/ r[a] > r[next'])
        PROVE  ~Fits(a)
    <3>1. r[a] \in Nat /\ r[next] \in Nat
      BY <1>3, <1>4, Zenon
    <3>2. r[a] >= r[next]
      <4>1. CASE r[next] = 0
        BY <3>1, <4>1
      <4>2. CASE r[next] # 0
        BY <3>1, <4>2, <2>1, <1>1, <1>3, <1>4 DEF ListOrder
      <4>. QED
        BY <4>1, <4>2, Zenon
    <3>3. CASE r[a] = r[next]
      BY <3>3, <1>1, <1>3, <1>4, Zenon DEF ListOrder
    <3>4. CASE r[a] > r[next]
      BY <3>4, <1>1, <1>3, Zenon DEF WalkOrder
    <3>. QED
      BY <3>1, <3>2, <3>3, <3>4
  <2>. QED
    BY <1>1, <1>2, <1>4, <1>7, <2>1, Zenon DEF WalkOrder
<1>10. Listed'
  BY <1>2, <1>3, <1>8, <1>9, Zenon DEF Listed
<1>11. Served'
  <2>1. TooMuch' <=> TooMuch
    BY <1>1, Zenon DEF TooMuch, Size, align_up, is_aligned
  <2>. QED
    BY <1>1, <2>1, Zenon DEF IInv, Served
<1>. QED
  BY <1>2, <1>6, <1>10, <1>11, Zenon DEF IInv

LEMMA WalkEndPreserves ==
    ASSUME IInv, WalkEnd
    PROVE  IInv'
<1>1. /\ UNCHANGED <<head, headers, chunks, live, req, grown, next>>
      /\ pc = "walk" /\ next = NULL /\ pc' = "none" /\ prev' = NULL
  BY Zenon DEF WalkEnd
<1>2. Apart' /\ Covered' /\ Owned' /\ Addrs' = Addrs /\ FreeHeaders' = FreeHeaders
  BY <1>1, SameHeaders, Zenon
<1>3. PICK r \in [FreeHeaders -> Nat] : ListOrder(r) /\ WalkOrder(r)
  BY Zenon DEF IInv, Listed
<1>4. TypeOK'
  BY <1>1, <1>2, Zenon DEF IInv, TypeOK
<1>5. Listed'
  <2>1. ListOrder(r)' /\ WalkOrder(r)'
    BY <1>1, <1>2, <1>3, Zenon DEF ListOrder, WalkOrder
  <2>. QED
    BY <1>2, <1>3, <2>1, Zenon DEF Listed
<1>6. Served'
  <2>1. TooMuch' <=> TooMuch
    BY <1>1, Zenon DEF TooMuch, Size, align_up, is_aligned
  <2>2. \A a \in FreeHeaders : ~Fits(a)
    BY <1>1, <1>3, Zenon DEF WalkOrder
  <2>3. \A a : Fits(a)' <=> Fits(a)
    BY <1>1, Zenon DEF Fits, can_fit, data_ptr, is_aligned, Size, align_up
  <2>. QED
    BY <1>1, <1>2, <2>1, <2>2, <2>3, Zenon DEF IInv, Served
<1>. QED
  BY <1>2, <1>4, <1>5, <1>6, Zenon DEF IInv

LEMMA PanicPreserves ==
    ASSUME IInv, OutOfMemory \/ NewChunkFails
    PROVE  IInv'
<1>1. /\ UNCHANGED <<head, headers, chunks, live, req, grown, prev, next>>
      /\ pc = "none" /\ pc' \in {"out_of_memory", "new_chunk_failed"}
      /\ pc' = "new_chunk_failed" => grown
  BY Zenon DEF OutOfMemory, NewChunkFails, walkVars
<1>2. Apart' /\ Covered' /\ Owned' /\ Addrs' = Addrs /\ FreeHeaders' = FreeHeaders
  BY <1>1, SameHeaders, Zenon
<1>3. PICK r \in [FreeHeaders -> Nat] : ListOrder(r) /\ WalkOrder(r)
  BY Zenon DEF IInv, Listed
<1>4. TypeOK'
  BY <1>1, <1>2, Zenon DEF IInv, TypeOK
<1>5. Listed'
  <2>1. ListOrder(r)' /\ WalkOrder(r)'
    BY <1>1, <1>2, <1>3, Zenon DEF ListOrder, WalkOrder
  <2>. QED
    BY <1>2, <1>3, <2>1, Zenon DEF Listed
<1>6. Served'
  <2>1. TooMuch' <=> TooMuch
    BY <1>1, Zenon DEF TooMuch, Size, align_up, is_aligned
  <2>. QED
    BY <1>1, <2>1, Zenon DEF IInv, Served
<1>. QED
  BY <1>2, <1>4, <1>5, <1>6, Zenon DEF IInv

-------------------------------------------------------------------------------
(* Steps that put a header in front of the free list                          *)

LEMMA PushOrdered ==
    ASSUME TypeOK, Listed, NEW h \in Nat \ {NULL}, h \notin FreeHeaders,
           FreeHeaders' = FreeHeaders \cup {h}, head' = h, headers'[h].next = head,
           \A a \in FreeHeaders : headers'[a].next = headers[a].next
    PROVE  \E r \in [FreeHeaders' -> Nat] : ListOrder(r)'
<1>1. PICK r \in [FreeHeaders -> Nat] : ListOrder(r)
  BY Zenon DEF Listed
<1>. DEFINE top == IF head = NULL THEN 0 ELSE r[head] + 1
<1>2. top \in Nat /\ \A a \in FreeHeaders : r[a] \in Nat /\ r[a] < top
  <2>1. CASE head = NULL
    BY <1>1, <2>1, Zenon DEF ListOrder
  <2>2. CASE head # NULL
    <3>1. head \in FreeHeaders /\ r[head] \in Nat
      BY <1>1, <2>2, Zenon DEF ListOrder
    <3>. QED
      BY <1>1, <2>2, <3>1 DEF ListOrder
  <2>. QED
    BY <2>1, <2>2, Zenon
<1>3. PICK q \in [FreeHeaders' -> Nat] : q[h] = top /\ \A a \in FreeHeaders : q[a] = r[a]
  <2>. DEFINE f == [x \in FreeHeaders' |-> IF x = h THEN top ELSE r[x]]
  <2>1. f \in [FreeHeaders' -> Nat] /\ f[h] = top /\ \A a \in FreeHeaders : f[a] = r[a]
    BY <1>2, Zenon
  <2>. QED
    BY <2>1, Zenon
<1>4. IF top = 0 THEN head = NULL ELSE head \in FreeHeaders /\ r[head] = top - 1
  BY <1>1, <1>2 DEF ListOrder
<1>. HIDE DEF top
<1>5. \A a, b \in FreeHeaders' : q[a] = q[b] => a = b
  BY <1>1, <1>2, <1>3 DEF ListOrder
<1>6. ASSUME NEW a \in FreeHeaders'
      PROVE  IF q[a] = 0 THEN headers'[a].next = NULL
             ELSE headers'[a].next \in FreeHeaders' /\ q[headers'[a].next] = q[a] - 1
  <2>1. CASE a = h
    BY <2>1, <1>3, <1>4, Zenon
  <2>2. CASE a \in FreeHeaders
    BY <2>2, <1>1, <1>3 DEF ListOrder
  <2>. QED
    BY <2>1, <2>2, Zenon
<1>7. \A a \in FreeHeaders' : q[a] <= q[head']
  BY <1>2, <1>3
<1>8. ListOrder(q)'
  BY <1>5, <1>6, <1>7, Zenon DEF ListOrder
<1>. QED
  BY <1>3, <1>8, Zenon

LEMMA FreePreserves ==
    ASSUME IInv, NEW l \in live, Free(l)
    PROVE  IInv'
<1>. DEFINE h == from_data_ptr(l.ptr)
<1>1. /\ TypeOK /\ h \in Addrs /\ h \notin FreeHeaders /\ pc = "idle" /\ pc' = "idle"
      /\ headers' = [headers EXCEPT ![h].magic = "FREE", ![h].next = head]
      /\ head' = h /\ live' = live \ {l}
      /\ UNCHANGED <<chunks, req, grown, prev, next>>
  BY Zenon DEF Free, IInv, Owned, walkVars
<1>. HIDE DEF h
<1>2. /\ Addrs' = Addrs
      /\ \A a \in Addrs : headers'[a].capacity = headers[a].capacity
      /\ \A a \in Addrs \ {h} : headers'[a] = headers[a]
      /\ headers'[h].next = head /\ headers'[h].magic = "FREE"
  BY <1>1, HeaderType, Zenon DEF Addrs
<1>3. FreeHeaders' = FreeHeaders \cup {h}
  BY <1>1, <1>2, Zenon DEF FreeHeaders
<1>4. TypeOK'
  <2>1. head \in Addrs \cup {NULL} /\ h \in Addrs
    BY <1>1, Zenon DEF TypeOK
  <2>2. ASSUME NEW a \in Addrs
        PROVE  headers'[a] \in [next : Addrs \cup {NULL}, capacity : Nat,
                                magic : {"FREE", "ALLOCATED"}]
    <3>1. headers[a] \in [next : Addrs \cup {NULL}, capacity : Nat,
                          magic : {"FREE", "ALLOCATED"}]
      BY <1>1, HeaderType, Zenon
    <3>2. CASE a = h
      <4>1. headers'[a] = [headers[a] EXCEPT !.magic = "FREE", !.next = head]
        BY <1>1, <3>2, Zenon DEF Addrs
      <4>. QED
        BY <2>1, <3>1, <4>1, Zenon
    <3>3. CASE a # h
      BY <1>2, <3>1, <3>3, Zenon
    <3>. QED
      BY <3>2, <3>3, Zenon
  <2>3. live' \subseteq [ptr : Nat, size : Nat, align : Nat]
    BY <1>1, Zenon DEF TypeOK
  <2>. QED
    BY <1>1, <1>2, <2>1, <2>2, <2>3, ZenonT(60) DEF TypeOK
<1>5. \A a \in Addrs : End(a)' = End(a)
  BY <1>2, Zenon DEF End, data_ptr
<1>6. Apart' /\ Covered'
  BY <1>1, <1>2, <1>5, Zenon DEF IInv, Apart, Covered, InHeader, InChunk
<1>7. Owned'
  <2>1. ASSUME NEW m \in live'
        PROVE  /\ is_aligned(m.ptr, m.align)
               /\ from_data_ptr(m.ptr) \in (Addrs \ FreeHeaders) \ {h}
               /\ headers'[from_data_ptr(m.ptr)].capacity >= m.size
    <3>1. m \in live /\ m # l /\ m.ptr \in Nat /\ l.ptr \in Nat
      BY <1>1, Zenon DEF TypeOK
    <3>2. m.ptr # l.ptr
      BY <3>1, Zenon DEF IInv, Owned
    <3>3. from_data_ptr(m.ptr) # h
      BY <3>1, <3>2, HeapAssumption DEF h, from_data_ptr
    <3>. QED
      BY <1>2, <3>1, <3>3, Zenon DEF IInv, Owned
  <2>2. \A m, n \in live' : m.ptr = n.ptr => m = n
    BY <1>1, Zenon DEF IInv, Owned
  <2>. QED
    BY <1>2, <1>3, <2>1, <2>2, Zenon DEF Owned, from_data_ptr, is_aligned
<1>8. Listed'
  <2>1. h \in Nat \ {NULL} /\ \A a \in FreeHeaders : headers'[a].next = headers[a].next
    BY <1>1, <1>2, HeaderType, Zenon DEF FreeHeaders
  <2>2. PICK r \in [FreeHeaders' -> Nat] : ListOrder(r)'
    BY <1>1, <1>2, <1>3, <2>1, PushOrdered, Zenon DEF IInv
  <2>3. WalkOrder(r)'
    BY <1>1, Zenon DEF WalkOrder
  <2>. QED
    BY <2>2, <2>3, Zenon DEF Listed
<1>9. Served'
  BY <1>1, Zenon DEF Served
<1>. QED
  BY <1>4, <1>6, <1>7, <1>8, <1>9, Zenon DEF IInv

LEMMA GrowPreserves ==
    ASSUME IInv, Grow
    PROVE  IInv'
<1>1. PICK a \in ChunkAddrs \ chunks :
          /\ chunks' = chunks \cup {a}
          /\ IF ChunkOK(a)
             THEN /\ headers' = [x \in DOMAIN headers \cup {a} |->
                                    IF x = a THEN Header(head, ChunkSize - HeaderSize, "FREE")
                                    ELSE headers[x]]
                  /\ head' = a
             ELSE UNCHANGED <<head, headers>>
          /\ MallocEntry(req, head')
  BY Zenon DEF Grow
<1>2. /\ TypeOK /\ a \in Nat \ {NULL} /\ a % MinSize = 0 /\ ChunkOK(a)
      /\ HeaderSize \in Nat \ {0} /\ ChunkSize \in Nat /\ ChunkSize - HeaderSize \in Nat
      /\ UNCHANGED <<live, req>> /\ grown' = TRUE /\ pc = "none"
  <2>1. MaxU32 \div 2 <= MaxU32 /\ MaxU32 \in Nat /\ MaxU32 \div 2 \in Int
    BY HeapAssumption
  <2>2. /\ MinCapacity \in Nat \ {0} /\ HeaderSize \in Nat \ {0} /\ ChunkSize \in Nat
        /\ ChunkSize - HeaderSize >= MinCapacity
        /\ ChunkSize - HeaderSize <= MaxU32 \div 2
    BY HeapAssumption
  <2>3. a \in Nat \ {NULL} /\ a % MinSize = 0
    BY <1>1, HeapAssumption, Zenon
  <2>. QED
    BY <2>1, <2>2, <2>3 DEF ChunkOK, is_aligned, Grow, IInv
<1>3. \A c \in chunks : c \in Nat /\ (c + ChunkSize <= a \/ a + ChunkSize <= c)
  <2>1. \A c \in chunks : c \in ChunkAddrs /\ c # a /\ c \in Nat
    BY <1>1, HeapAssumption, Zenon DEF IInv, TypeOK
  <2>. QED
    BY <1>1, <1>2, <2>1, HeapAssumption
<1>4. \A x \in Nat : a <= x /\ x < a + ChunkSize => ~InHeader(x)
  BY <1>2, <1>3 DEF IInv, Covered, InChunk
<1>5. a \notin Addrs
  <2>1. a < End(a) \/ a \notin Addrs
    BY <1>2, HeaderType
  <2>. QED
    BY <1>2, <1>4, <2>1 DEF InHeader
<1>6. /\ Addrs' = Addrs \cup {a} /\ head' = a
      /\ headers'[a] = Header(head, ChunkSize - HeaderSize, "FREE")
      /\ \A b \in Addrs : headers'[b] = headers[b]
  BY <1>1, <1>2, <1>5, Zenon DEF Addrs
<1>7. FreeHeaders' = FreeHeaders \cup {a} /\ a \notin FreeHeaders
  BY <1>5, <1>6 DEF FreeHeaders, Header
<1>8. End(a)' = a + ChunkSize /\ \A b \in Addrs : End(b)' = End(b)
  BY <1>2, <1>6 DEF End, data_ptr, Header
<1>9. \/ req.size > MaxU32 \div 2 /\ pc' = "none" /\ prev' = prev /\ next' = next
      \/ ~(req.size > MaxU32 \div 2) /\ pc' = "walk" /\ prev' = NULL /\ next' = a
  BY <1>1, <1>6, Zenon DEF MallocEntry, walkVars
<1>10. TypeOK'
  <2>1. head \in Addrs \cup {NULL}
    BY <1>2, Zenon DEF TypeOK
  <2>2. ASSUME NEW b \in Addrs'
        PROVE  headers'[b] \in [next : Addrs' \cup {NULL}, capacity : Nat,
                                magic : {"FREE", "ALLOCATED"}]
    <3>1. CASE b = a
      BY <3>1, <1>2, <1>6, <2>1 DEF Header
    <3>2. CASE b \in Addrs
      BY <3>2, <1>2, <1>6, HeaderType, Zenon
    <3>. QED
      BY <3>1, <3>2, <1>6, Zenon
  <2>3. \A b \in Addrs' : b \in Nat /\ b # NULL /\ is_aligned(b, MinSize)
    BY <1>2, <1>6, HeaderType, Zenon DEF is_aligned
  <2>4. {head', prev', next'} \subseteq Addrs' \cup {NULL}
    BY <1>2, <1>6, <1>9 DEF TypeOK
  <2>5. chunks' \subseteq ChunkAddrs
    BY <1>1, <1>2, Zenon DEF TypeOK
  <2>6. /\ live' \subseteq [ptr : Nat, size : Nat, align : Nat] /\ req' \in Layouts
        /\ grown' \in BOOLEAN
        /\ pc' \in {"idle", "walk", "none", "out_of_memory", "new_chunk_failed"}
    BY <1>2, <1>9, Zenon DEF TypeOK
  <2>. QED
    BY <2>2, <2>3, <2>4, <2>5, <2>6, Zenon DEF TypeOK, is_aligned
<1>11. Apart'
  <2>1. ASSUME NEW b \in Addrs, b < a
        PROVE  End(b) <= a
    BY <1>2, <1>4, <2>1, HeaderType DEF InHeader
  <2>2. ASSUME NEW b \in Addrs, a < b
        PROVE  a + ChunkSize <= b
    <3>1. InHeader(b) /\ b \in Nat
      BY <1>2, HeaderType DEF InHeader
    <3>. QED
      BY <1>2, <1>4, <2>2, <3>1
  <2>3. \A b, c \in Addrs : b < c => End(b) <= c
    BY Zenon DEF IInv, Apart
  <2>4. ~ a < a
    BY <1>2
  <2>. QED
    BY <1>6, <1>8, <2>1, <2>2, <2>3, <2>4, Zenon DEF Apart
<1>12. Covered'
  <2>1. ASSUME NEW x \in Nat
        PROVE  InHeader(x)' <=> InHeader(x) \/ (a <= x /\ x < a + ChunkSize)
    BY <1>6, <1>8, Zenon DEF InHeader
  <2>2. ASSUME NEW x \in Nat
        PROVE  InChunk(x)' <=> InChunk(x) \/ (a <= x /\ x < a + ChunkSize)
    BY <1>1, Zenon DEF InChunk
  <2>. QED
    BY <2>1, <2>2, Zenon DEF IInv, Covered
<1>13. Owned'
  BY <1>2, <1>5, <1>6, <1>7, Zenon DEF IInv, Owned, from_data_ptr, is_aligned
<1>14. Listed'
  <2>1. /\ headers'[a].next = head
        /\ \A b \in FreeHeaders : headers'[b].next = headers[b].next
    BY <1>6 DEF Header, FreeHeaders
  <2>2. PICK r \in [FreeHeaders' -> Nat] : ListOrder(r)'
    BY <1>2, <1>6, <1>7, <2>1, PushOrdered, Zenon DEF IInv
  <2>3. \A b \in FreeHeaders' : r[b] \in Nat /\ r[b] <= r[a]
    BY <1>2, <1>6, <2>2, Zenon DEF ListOrder
  <2>4. ASSUME pc' = "walk", NEW b \in FreeHeaders', (next' = NULL \/ r[b] > r[next'])
        PROVE  FALSE
    BY <1>2, <1>7, <1>9, <2>3, <2>4
  <2>5. pc' = "walk" => prev' = NULL /\ next' = head'
    BY <1>6, <1>9, Zenon
  <2>6. WalkOrder(r)'
    BY <2>4, <2>5, Zenon DEF WalkOrder
  <2>. QED
    BY <2>2, <2>6, Zenon DEF Listed
<1>15. Served'
  <2>1. /\ Size' = Size /\ Size \in Nat /\ Size >= req.size /\ req.size \in Nat
        /\ req.align \in Nat \ {0}
    BY <1>2, SizeRounded, Zenon DEF Size, align_up
  <2>2. MaxU32 \div 2 \in Int /\ ChunkSize - HeaderSize <= MaxU32 \div 2
    BY HeapAssumption
  <2>3. TooMuch' <=> TooMuch
    BY <1>2, <2>1, Zenon DEF TooMuch, is_aligned
  <2>4. req.size > MaxU32 \div 2 => TooMuch
    BY <1>2, <2>1, <2>2 DEF TooMuch
  <2>5. ASSUME ~TooMuch
        PROVE  Fits(a)'
    <3>0. MinSize \in Nat \ {0} /\ HeaderSize \in Nat /\ HeaderSize % MinSize = 0 /\ a \in Nat
      BY <1>2, HeapAssumption, Zenon
    <3>1. (a + HeaderSize) % MinSize = 0 /\ a + HeaderSize \in Nat
      <4>1. (a + HeaderSize) % MinSize = 0
        BY <1>2, <3>0, AlignedSum, Zenon
      <4>. QED
        BY <3>0, <4>1
    <3>2. MinSize % req.align = 0
      BY <2>5, Zenon DEF TooMuch, is_aligned
    <3>3. (a + HeaderSize) % req.align = 0
      BY <2>1, <3>0, <3>1, <3>2, AlignedTransitive, Zenon
    <3>4. Size <= ChunkSize - HeaderSize
      BY <1>2, <2>1, <2>5 DEF TooMuch
    <3>. QED
      BY <1>2, <1>6, <2>1, <3>3, <3>4 DEF Fits, can_fit, Header, data_ptr, is_aligned
  <2>. QED
    BY <1>2, <1>9, <2>1, <2>2, <2>3, <2>4, <2>5 DEF Served
<1>. QED
  BY <1>10, <1>11, <1>12, <1>13, <1>14, <1>15, Zenon DEF IInv

-------------------------------------------------------------------------------
(* Taking a chunk                                                             *)

\* The link behind prev is the only one that leads to next.
LEMMA OnlyPrev ==
    ASSUME TypeOK, NEW r \in [FreeHeaders -> Nat], ListOrder(r), WalkOrder(r), pc = "walk",
           next # NULL
    PROVE  /\ next \in FreeHeaders /\ next \in Addrs /\ prev # next
           /\ IF prev = NULL THEN next = head
              ELSE prev \in FreeHeaders /\ r[prev] = r[next] + 1
           /\ \A a \in FreeHeaders : headers[a].next = next => a = prev
           /\ \A a \in FreeHeaders : a \in Addrs /\ a # NULL /\ r[a] \in Nat
<1>1. next \in FreeHeaders /\ next \in Addrs
  BY NextFree, Zenon DEF FreeHeaders
<1>2. \A a \in FreeHeaders : a \in Addrs /\ a # NULL /\ r[a] \in Nat
  BY HeaderType, Zenon DEF FreeHeaders
<1>3. ASSUME NEW a \in FreeHeaders, headers[a].next = next
      PROVE  r[a] = r[next] + 1
  BY <1>1, <1>2, <1>3 DEF ListOrder
<1>4. IF prev = NULL THEN next = head ELSE prev \in FreeHeaders /\ headers[prev].next = next
  BY Zenon DEF WalkOrder
<1>5. ASSUME NEW a \in FreeHeaders, headers[a].next = next
      PROVE  a = prev
  <2>1. CASE prev = NULL
    <3>1. r[a] <= r[next]
      BY <1>2, <1>4, <2>1, Zenon DEF ListOrder
    <3>. QED
      BY <1>1, <1>2, <1>3, <1>5, <3>1
  <2>2. CASE prev # NULL
    BY <1>3, <1>4, <1>5, <2>2 DEF ListOrder
  <2>. QED
    BY <2>1, <2>2, Zenon
<1>6. prev # NULL => r[prev] = r[next] + 1
  BY <1>3, <1>4, Zenon
<1>7. prev # next
  BY <1>1, <1>2, <1>6
<1>. QED
  BY <1>1, <1>2, <1>4, <1>5, <1>6, <1>7, Zenon

\* Unlinking next keeps the order.
LEMMA UnlinkOrdered ==
    ASSUME TypeOK, NEW r \in [FreeHeaders -> Nat], ListOrder(r), WalkOrder(r), pc = "walk",
           next # NULL,
           FreeHeaders' = FreeHeaders \ {next},
           head' = IF prev = NULL THEN headers[next].next ELSE head,
           \A a \in FreeHeaders \ {next} :
               headers'[a].next = IF a = prev THEN headers[next].next ELSE headers[a].next
    PROVE  \E q \in [FreeHeaders' -> Nat] : ListOrder(q)'
<1>1. /\ next \in FreeHeaders /\ prev # next
      /\ IF prev = NULL THEN next = head ELSE prev \in FreeHeaders /\ r[prev] = r[next] + 1
      /\ \A a \in FreeHeaders : headers[a].next = next => a = prev
      /\ \A a \in FreeHeaders : a # NULL /\ r[a] \in Nat
  BY OnlyPrev, Zenon
<1>2. \A a \in FreeHeaders' : a \in FreeHeaders /\ a # next /\ r[a] # r[next]
  BY <1>1, Zenon DEF ListOrder
<1>3. PICK q \in [FreeHeaders' -> Nat] :
          \A a \in FreeHeaders' : q[a] = IF r[a] > r[next] THEN r[a] - 1 ELSE r[a]
  <2>. DEFINE f == [a \in FreeHeaders' |-> IF r[a] > r[next] THEN r[a] - 1 ELSE r[a]]
  <2>1. f \in [FreeHeaders' -> Nat]
    BY <1>1, <1>2
  <2>. QED
    BY <2>1, Zenon
<1>4. \A a, b \in FreeHeaders' : q[a] = q[b] => a = b
  <2>1. ASSUME NEW a \in FreeHeaders', NEW b \in FreeHeaders', q[a] = q[b]
        PROVE  r[a] = r[b]
    BY <1>1, <1>2, <1>3, <2>1
  <2>. QED
    BY <1>2, <2>1 DEF ListOrder
<1>5. ASSUME NEW a \in FreeHeaders'
      PROVE  IF q[a] = 0 THEN headers'[a].next = NULL
             ELSE headers'[a].next \in FreeHeaders' /\ q[headers'[a].next] = q[a] - 1
  <2>1. /\ a \in FreeHeaders /\ a # next /\ r[a] \in Nat /\ r[next] \in Nat /\ r[a] # r[next]
        /\ q[a] = IF r[a] > r[next] THEN r[a] - 1 ELSE r[a]
    BY <1>1, <1>2, <1>3, Zenon
  <2>2. CASE a = prev
    <3>1. headers'[a].next = headers[next].next /\ r[a] = r[next] + 1 /\ q[a] = r[next]
      BY <1>1, <2>1, <2>2
    <3>2. CASE r[next] = 0
      BY <1>1, <3>1, <3>2, Zenon DEF ListOrder
    <3>3. CASE r[next] # 0
      <4>. DEFINE x == headers[next].next
      <4>1. x \in FreeHeaders /\ r[x] = r[next] - 1
        BY <1>1, <3>3, Zenon DEF ListOrder
      <4>2. x \in FreeHeaders' /\ q[x] = r[x]
        BY <1>1, <1>3, <4>1
      <4>. QED
        BY <3>1, <3>3, <4>1, <4>2, Zenon
    <3>. QED
      BY <3>2, <3>3, Zenon
  <2>3. CASE a # prev
    <3>1. headers'[a].next = headers[a].next /\ headers[a].next # next
      BY <1>1, <2>1, <2>3, Zenon
    <3>2. CASE r[a] = 0
      BY <2>1, <3>1, <3>2 DEF ListOrder
    <3>3. CASE r[a] # 0
      <4>. DEFINE x == headers[a].next
      <4>1. x \in FreeHeaders /\ r[x] = r[a] - 1 /\ x # next
        BY <2>1, <3>1, <3>3, Zenon DEF ListOrder
      <4>2. x \in FreeHeaders' /\ r[x] # r[next]
        BY <1>2, <4>1, Zenon
      <4>3. q[x] = IF r[x] > r[next] THEN r[x] - 1 ELSE r[x]
        BY <1>3, <4>2, Zenon
      <4>4. q[a] # 0 /\ q[x] = q[a] - 1
        BY <2>1, <3>3, <4>1, <4>2, <4>3
      <4>. QED
        BY <3>1, <4>2, <4>4, Zenon
    <3>. QED
      BY <3>2, <3>3, Zenon
  <2>. QED
    BY <2>2, <2>3, Zenon
<1>6. IF head' = NULL THEN FreeHeaders' = {}
      ELSE head' \in FreeHeaders' /\ \A a \in FreeHeaders' : q[a] <= q[head']
  <2>1. CASE prev = NULL
    <3>1. next = head /\ head' = headers[next].next /\ \A a \in FreeHeaders : r[a] <= r[next]
      BY <1>1, <2>1, Zenon DEF ListOrder
    <3>2. \A a \in FreeHeaders' : r[a] < r[next] /\ q[a] = r[a] /\ r[a] \in Nat
      BY <1>1, <1>2, <1>3, <3>1
    <3>3. CASE r[next] = 0
      BY <1>1, <3>1, <3>2, <3>3 DEF ListOrder
    <3>4. CASE r[next] # 0
      <4>1. head' \in FreeHeaders /\ r[head'] = r[next] - 1
        BY <1>1, <3>1, <3>4 DEF ListOrder
      <4>2. head' \in FreeHeaders' /\ head' # NULL
        BY <1>1, <4>1
      <4>. QED
        BY <1>1, <3>2, <4>1, <4>2
    <3>. QED
      BY <3>3, <3>4, Zenon
  <2>2. CASE prev # NULL
    <3>1. head' = head /\ prev \in FreeHeaders /\ r[prev] = r[next] + 1
      BY <1>1, <2>2, Zenon
    <3>2. head \in FreeHeaders /\ head # NULL /\ \A a \in FreeHeaders : r[a] <= r[head]
      BY <3>1, Zenon DEF ListOrder
    <3>3. head # next /\ r[head] > r[next]
      BY <1>1, <3>1, <3>2
    <3>4. head \in FreeHeaders' /\ q[head] = r[head] - 1
      BY <1>3, <3>2, <3>3, Zenon
    <3>5. ASSUME NEW a \in FreeHeaders'
          PROVE  q[a] <= q[head]
      BY <1>1, <1>2, <1>3, <3>2, <3>3, <3>4
    <3>. QED
      BY <3>1, <3>2, <3>4, <3>5, Zenon
  <2>. QED
    BY <2>1, <2>2, Zenon
<1>7. ListOrder(q)'
  BY <1>4, <1>5, <1>6, Zenon DEF ListOrder
<1>. QED
  BY <1>3, <1>7, Zenon

\* So does putting another header in its place.
LEMMA ReplaceOrdered ==
    ASSUME TypeOK, NEW r \in [FreeHeaders -> Nat], ListOrder(r), WalkOrder(r), pc = "walk",
           next # NULL, NEW n \in Nat \ {NULL}, n \notin Addrs,
           FreeHeaders' = (FreeHeaders \ {next}) \cup {n},
           head' = IF prev = NULL THEN n ELSE head,
           headers'[n].next = headers[next].next,
           \A a \in FreeHeaders \ {next} :
               headers'[a].next = IF a = prev THEN n ELSE headers[a].next
    PROVE  \E q \in [FreeHeaders' -> Nat] : ListOrder(q)'
<1>1. /\ next \in FreeHeaders /\ prev # next
      /\ IF prev = NULL THEN next = head ELSE prev \in FreeHeaders /\ r[prev] = r[next] + 1
      /\ \A a \in FreeHeaders : headers[a].next = next => a = prev
      /\ \A a \in FreeHeaders : a # NULL /\ a # n /\ r[a] \in Nat
  BY OnlyPrev, Zenon
<1>2. PICK q \in [FreeHeaders' -> Nat] :
          q[n] = r[next] /\ \A a \in FreeHeaders \ {next} : q[a] = r[a]
  <2>. DEFINE f == [a \in FreeHeaders' |-> IF a = n THEN r[next] ELSE r[a]]
  <2>1. /\ f \in [FreeHeaders' -> Nat] /\ f[n] = r[next]
        /\ \A a \in FreeHeaders \ {next} : f[a] = r[a]
    BY <1>1, Zenon
  <2>. QED
    BY <2>1, Zenon
<1>3. \A a, b \in FreeHeaders' : q[a] = q[b] => a = b
  BY <1>1, <1>2 DEF ListOrder
<1>4. ASSUME NEW a \in FreeHeaders'
      PROVE  IF q[a] = 0 THEN headers'[a].next = NULL
             ELSE headers'[a].next \in FreeHeaders' /\ q[headers'[a].next] = q[a] - 1
  <2>1. CASE a = n
    <3>1. CASE r[next] = 0
      BY <1>1, <1>2, <2>1, <3>1, Zenon DEF ListOrder
    <3>2. CASE r[next] # 0
      <4>. DEFINE x == headers[next].next
      <4>1. x \in FreeHeaders /\ r[x] = r[next] - 1 /\ r[next] \in Nat
        BY <1>1, <3>2, Zenon DEF ListOrder
      <4>2. x \in FreeHeaders \ {next}
        BY <4>1
      <4>3. x \in FreeHeaders' /\ q[x] = r[x] /\ headers'[a].next = x /\ q[a] = r[next]
        BY <1>2, <2>1, <4>2, Zenon
      <4>. QED
        BY <3>2, <4>1, <4>3, Zenon
    <3>. QED
      BY <3>1, <3>2, Zenon
  <2>2. CASE a # n /\ a = prev
    <3>1. a \in FreeHeaders \ {next} /\ r[a] = r[next] + 1 /\ r[next] \in Nat
      BY <1>1, <2>2, Zenon
    <3>. QED
      BY <1>2, <2>2, <3>1
  <2>3. CASE a # n /\ a # prev
    <3>1. a \in FreeHeaders \ {next} /\ headers[a].next # next /\ q[a] = r[a]
      BY <1>1, <1>2, <2>3, Zenon
    <3>2. headers'[a].next = headers[a].next
      BY <2>3, <3>1
    <3>3. r[a] # 0 => headers[a].next \in FreeHeaders \ {next}
      BY <3>1, Zenon DEF ListOrder
    <3>. QED
      BY <1>2, <3>1, <3>2, <3>3 DEF ListOrder
  <2>. QED
    BY <2>1, <2>2, <2>3, Zenon
<1>5. head' # NULL /\ head' \in FreeHeaders' /\ \A a \in FreeHeaders' : q[a] <= q[head']
  <2>1. CASE prev = NULL
    BY <1>1, <1>2, <2>1 DEF ListOrder
  <2>2. CASE prev # NULL
    <3>1. head' = head /\ prev \in FreeHeaders /\ r[prev] = r[next] + 1 /\ r[next] \in Nat
      BY <1>1, <2>2, Zenon
    <3>2. head \in FreeHeaders /\ head # NULL /\ \A a \in FreeHeaders : r[a] <= r[head]
      BY <3>1, Zenon DEF ListOrder
    <3>3. head \in FreeHeaders \ {next} /\ r[head] > r[next]
      BY <1>1, <3>1, <3>2
    <3>. QED
      BY <1>1, <1>2, <3>1, <3>2, <3>3, Zenon
  <2>. QED
    BY <2>1, <2>2, Zenon
<1>6. ListOrder(q)'
  BY <1>3, <1>4, <1>5, Zenon DEF ListOrder
<1>. QED
  BY <1>2, <1>6, Zenon

\* What both cases of Take have in common.
LEMMA TakeStart ==
    ASSUME IInv, Take
    PROVE  /\ TypeOK /\ pc = "walk" /\ next # NULL /\ Fits(next)
           /\ next \in FreeHeaders /\ next \in Addrs /\ prev # next
           /\ prev # NULL => prev \in FreeHeaders /\ prev \in Addrs
           /\ next \in Nat /\ headers[next].capacity \in Nat
           /\ Size \in Nat /\ Size >= req.size /\ headers[next].capacity >= Size
           /\ live' = live \cup {[ptr |-> data_ptr(next), size |-> req.size,
                                  align |-> req.align]}
           /\ pc' = "idle" /\ prev' = NULL /\ next' = NULL
           /\ UNCHANGED <<chunks, req, grown>>
<1>1. /\ TypeOK /\ pc = "walk" /\ next # NULL /\ Fits(next)
      /\ live' = live \cup {[ptr |-> data_ptr(next), size |-> req.size, align |-> req.align]}
      /\ pc' = "idle" /\ prev' = NULL /\ next' = NULL /\ UNCHANGED <<chunks, req, grown>>
  BY Zenon DEF Take, Fits, IInv
<1>2. PICK r \in [FreeHeaders -> Nat] : ListOrder(r) /\ WalkOrder(r)
  BY Zenon DEF IInv, Listed
<1>3. /\ next \in FreeHeaders /\ next \in Addrs /\ prev # next
      /\ prev # NULL => prev \in FreeHeaders /\ prev \in Addrs
  BY <1>1, <1>2, OnlyPrev, Zenon
<1>4. next \in Nat /\ headers[next].capacity \in Nat
  BY <1>1, <1>3, HeaderType, Zenon
<1>5. Size \in Nat /\ Size >= req.size
  BY <1>1, SizeRounded, Zenon
<1>6. headers[next].capacity >= Size
  BY <1>1, Zenon DEF Fits, can_fit
<1>. QED
  BY <1>1, <1>3, <1>4, <1>5, <1>6, Zenon

\* The new allocation owns the header that was taken.
LEMMA TakeOwned ==
    ASSUME IInv, Take, Addrs \subseteq Addrs', FreeHeaders' \cap Addrs = FreeHeaders \ {next},
           headers'[next].capacity >= Size, headers'[next].capacity \in Nat,
           \A a \in Addrs \ {next} : headers'[a].capacity = headers[a].capacity
    PROVE  Owned'
<1>. DEFINE new == [ptr |-> data_ptr(next), size |-> req.size, align |-> req.align]
<1>1. /\ TypeOK /\ next \in FreeHeaders /\ next \in Addrs /\ next \in Nat /\ Fits(next)
      /\ Size \in Nat /\ Size >= req.size /\ live' = live \cup {new}
  BY TakeStart, Zenon
<1>2. /\ new.ptr = next + HeaderSize /\ new.size = req.size /\ new.align = req.align
      /\ from_data_ptr(new.ptr) = next /\ is_aligned(new.ptr, new.align)
  <2>1. new.ptr = next + HeaderSize /\ new.size = req.size /\ new.align = req.align
    BY Zenon DEF data_ptr
  <2>2. HeaderSize \in Nat
    BY HeapAssumption, Zenon
  <2>3. from_data_ptr(new.ptr) = next
    BY <1>1, <2>1, <2>2 DEF from_data_ptr
  <2>4. is_aligned(new.ptr, new.align)
    BY <1>1, <2>1, Zenon DEF Fits, can_fit, is_aligned, data_ptr
  <2>. QED
    BY <2>1, <2>3, <2>4, Zenon
<1>. HIDE DEF new
<1>3. req.size \in Nat
  BY <1>1, SizeRounded, Zenon
<1>4. ASSUME NEW l \in live'
      PROVE  /\ is_aligned(l.ptr, l.align)
             /\ from_data_ptr(l.ptr) \in Addrs' \ FreeHeaders'
             /\ headers'[from_data_ptr(l.ptr)].capacity >= l.size
  <2>1. CASE l = new
    <3>1. next \in Addrs' \ FreeHeaders' /\ headers'[next].capacity >= req.size
      BY <1>1, <1>3
    <3>. QED
      BY <1>2, <2>1, <3>1, Zenon
  <2>2. CASE l \in live
    <3>1. /\ is_aligned(l.ptr, l.align) /\ from_data_ptr(l.ptr) \in Addrs \ FreeHeaders
          /\ headers[from_data_ptr(l.ptr)].capacity >= l.size
      BY <2>2, Zenon DEF IInv, Owned
    <3>. QED
      BY <1>1, <3>1, Zenon
  <2>. QED
    BY <1>1, <2>1, <2>2, Zenon
<1>5. \A l \in live : l.ptr # new.ptr
  BY <1>1, <1>2, Zenon DEF IInv, Owned
<1>6. \A l, m \in live' : l.ptr = m.ptr => l = m
  BY <1>1, <1>5, Zenon DEF IInv, Owned
<1>. QED
  BY <1>4, <1>6, Zenon DEF Owned, from_data_ptr, is_aligned

\* The chunk is too small to be split.
LEMMA TakeWholePreserves ==
    ASSUME IInv, Take, ~can_split(next, Size)
    PROVE  IInv'
<1>0. /\ TypeOK /\ pc = "walk" /\ next # NULL /\ next \in FreeHeaders /\ next \in Addrs
      /\ prev # next
      /\ prev # NULL => prev \in FreeHeaders /\ prev \in Addrs
      /\ headers[next].capacity \in Nat /\ headers[next].capacity >= Size
      /\ live' = live \cup {[ptr |-> data_ptr(next), size |-> req.size, align |-> req.align]}
      /\ pc' = "idle" /\ prev' = NULL /\ next' = NULL /\ UNCHANGED <<chunks, req, grown>>
  BY TakeStart, Zenon
<1>1. Unlink([headers EXCEPT ![next].next = NULL, ![next].magic = "ALLOCATED"],
             headers[next].next)
  BY Zenon DEF Take
<1>2. /\ Addrs' = Addrs
      /\ headers'[next] = [headers[next] EXCEPT !.next = NULL, !.magic = "ALLOCATED"]
      /\ \A a \in Addrs \ {next} :
             headers'[a] = IF a = prev THEN [headers[a] EXCEPT !.next = headers[next].next]
                           ELSE headers[a]
      /\ head' = IF prev = NULL THEN headers[next].next ELSE head
  <2>1. CASE prev = NULL
    <3>1. NULL \notin Addrs
      BY <1>0, HeaderType, Zenon
    <3>. QED
      BY <1>0, <1>1, <2>1, <3>1, Zenon DEF Unlink, Addrs
  <2>2. CASE prev # NULL
    BY <1>0, <1>1, <2>2 DEF Unlink, Addrs
  <2>. QED
    BY <2>1, <2>2, Zenon
<1>3. \A a \in Addrs : headers[a] \in [next : Addrs \cup {NULL}, capacity : Nat,
                                       magic : {"FREE", "ALLOCATED"}]
  BY <1>0, HeaderType, Zenon
<1>4. ASSUME NEW a \in Addrs
      PROVE  /\ headers'[a] \in [next : Addrs \cup {NULL}, capacity : Nat,
                                 magic : {"FREE", "ALLOCATED"}]
             /\ headers'[a].capacity = headers[a].capacity
             /\ headers'[a].magic = IF a = next THEN "ALLOCATED" ELSE headers[a].magic
             /\ a # next => headers'[a].next = IF a = prev THEN headers[next].next
                                               ELSE headers[a].next
  <2>1. headers[a] \in [next : Addrs \cup {NULL}, capacity : Nat, magic : {"FREE", "ALLOCATED"}]
    BY <1>3, Zenon
  <2>2. headers[next].next \in Addrs \cup {NULL}
    BY <1>0, <1>3, Zenon
  <2>3. CASE a = next
    BY <1>2, <2>1, <2>3, Zenon
  <2>4. CASE a # next /\ a = prev
    <3>1. headers'[a] = [headers[a] EXCEPT !.next = headers[next].next]
      BY <1>2, <2>4
    <3>. QED
      BY <2>1, <2>2, <2>4, <3>1, Zenon
  <2>5. CASE a # next /\ a # prev
    BY <1>2, <2>1, <2>5, Zenon
  <2>. QED
    BY <2>3, <2>4, <2>5, Zenon
<1>5. FreeHeaders' = FreeHeaders \ {next} /\ FreeHeaders \subseteq Addrs
  BY <1>0, <1>2, <1>4 DEF FreeHeaders
<1>6. TypeOK'
  <2>1. {head', prev', next'} \subseteq Addrs \cup {NULL}
    BY <1>0, <1>2, HeaderType DEF TypeOK
  <2>2. [ptr |-> data_ptr(next), size |-> req.size, align |-> req.align]
            \in [ptr : Nat, size : Nat, align : Nat]
    <3>1. next \in Nat /\ HeaderSize \in Nat /\ req.size \in Nat /\ req.align \in Nat
      BY <1>0, HeaderType, SizeRounded, HeapAssumption, Zenon
    <3>. QED
      BY <3>1 DEF data_ptr
  <2>3. live' \subseteq [ptr : Nat, size : Nat, align : Nat]
    BY <1>0, <2>2, Zenon DEF TypeOK
  <2>. QED
    BY <1>0, <1>2, <1>4, <2>1, <2>3, Zenon DEF TypeOK
<1>7. Apart' /\ Covered'
  <2>1. \A a \in Addrs : End(a)' = End(a)
    BY <1>4, Zenon DEF End, data_ptr
  <2>. QED
    BY <1>0, <1>2, <2>1 DEF IInv, Apart, Covered, InHeader, InChunk
<1>8. Owned'
  <2>1. FreeHeaders' \cap Addrs = FreeHeaders \ {next}
    BY <1>5, Zenon
  <2>2. headers'[next].capacity >= Size /\ headers'[next].capacity \in Nat
    BY <1>0, <1>4, Zenon
  <2>. QED
    BY <1>2, <1>4, <2>1, <2>2, TakeOwned, Zenon
<1>9. Listed'
  <2>1. PICK r \in [FreeHeaders -> Nat] : ListOrder(r) /\ WalkOrder(r)
    BY Zenon DEF IInv, Listed
  <2>2. \A a \in FreeHeaders \ {next} :
            headers'[a].next = IF a = prev THEN headers[next].next ELSE headers[a].next
    BY <1>4, <1>5
  <2>3. PICK q \in [FreeHeaders' -> Nat] : ListOrder(q)'
    BY <1>0, <1>2, <1>5, <2>1, <2>2, UnlinkOrdered, Zenon
  <2>4. WalkOrder(q)'
    BY <1>0, Zenon DEF WalkOrder
  <2>. QED
    BY <2>3, <2>4, Zenon DEF Listed
<1>10. Served'
  BY <1>0, Zenon DEF Served
<1>. QED
  BY <1>6, <1>7, <1>8, <1>9, <1>10, Zenon DEF IInv

\* The chunk is split.
LEMMA TakeSplitPreserves ==
    ASSUME IInv, Take, can_split(next, Size)
    PROVE  IInv'
<1>0. /\ TypeOK /\ pc = "walk" /\ next # NULL /\ next \in FreeHeaders /\ next \in Addrs
      /\ prev # next
      /\ prev # NULL => prev \in FreeHeaders /\ prev \in Addrs
      /\ next \in Nat /\ Size \in Nat
      /\ headers[next].capacity \in Nat /\ headers[next].capacity >= Size
      /\ live' = live \cup {[ptr |-> data_ptr(next), size |-> req.size, align |-> req.align]}
      /\ pc' = "idle" /\ prev' = NULL /\ next' = NULL /\ UNCHANGED <<chunks, req, grown>>
  BY TakeStart, Zenon
<1>rest. PICK rest : rest = data_ptr(next) + Size
  BY Zenon
<1>next. PICK n : n = next
  BY Zenon
<1>1. /\ HeaderSize \in Nat \ {0} /\ MinSize \in Nat \ {0} /\ rest = next + HeaderSize + Size
      /\ rest \in Nat \ {NULL} /\ next < rest
      /\ headers[next].capacity - Size - HeaderSize \in Nat
      /\ End(next) = rest + HeaderSize + (headers[next].capacity - Size - HeaderSize)
  <2>1. /\ HeaderSize \in Nat \ {0} /\ MinSize \in Nat \ {0} /\ MinCapacity \in Nat
        /\ headers[next].capacity - Size >= HeaderSize + MinCapacity
    BY HeapAssumption, Zenon DEF can_split
  <2>. QED
    BY <1>0, <1>rest, <2>1 DEF data_ptr, End, NULL
<1>2. rest % MinSize = 0
  <2>1. /\ next \in Nat /\ HeaderSize \in Nat /\ Size \in Nat /\ next + HeaderSize \in Nat
        /\ MinSize \in Nat \ {0}
    BY <1>0, <1>1
  <2>2. next % MinSize = 0 /\ HeaderSize % MinSize = 0 /\ Size % MinSize = 0
    BY <1>0, HeaderType, SizeRounded, HeapAssumption, Zenon
  <2>3. (next + HeaderSize) % MinSize = 0
    BY <2>1, <2>2, AlignedSum, Zenon
  <2>4. (next + HeaderSize + Size) % MinSize = 0
    BY <2>1, <2>2, <2>3, AlignedSum, Zenon
  <2>. QED
    BY <1>1, <2>4, Zenon
<1>3. rest \notin Addrs
  BY <1>0, <1>1 DEF IInv, Apart
<1>4. /\ Addrs' = Addrs \cup {rest}
      /\ headers'[rest] = Header(headers[next].next,
                                 headers[next].capacity - Size - HeaderSize, "FREE")
      /\ headers'[next] = Header(NULL, Size, "ALLOCATED")
      /\ \A a \in Addrs \ {next} :
             headers'[a] = IF a = prev THEN [headers[a] EXCEPT !.next = rest] ELSE headers[a]
      /\ head' = IF prev = NULL THEN rest ELSE head
  <2>. DEFINE hs == [a \in DOMAIN headers \cup {rest} |->
                        IF a = rest THEN Remainder(next)
                        ELSE [headers EXCEPT ![next] = Header(NULL, Size, "ALLOCATED")][a]]
  <2>1. Unlink(hs, rest)
    BY <1>rest, Zenon DEF Take
  <2>2. /\ DOMAIN hs = Addrs \cup {rest}
        /\ hs[rest] = Header(headers[next].next,
                             headers[next].capacity - Size - HeaderSize, "FREE")
        /\ hs[next] = Header(NULL, Size, "ALLOCATED")
        /\ \A a \in Addrs \ {next} : hs[a] = headers[a]
    BY <1>0, <1>3 DEF Addrs, Remainder
  <2>. HIDE DEF hs
  <2>3. CASE prev = NULL
    <3>1. NULL \notin Addrs
      BY <1>0, HeaderType, Zenon
    <3>. QED
      BY <2>1, <2>2, <2>3, <3>1, Zenon DEF Unlink, Addrs
  <2>4. CASE prev # NULL
    <3>1. headers' = [hs EXCEPT ![prev].next = rest] /\ head' = head
      BY <2>1, <2>4, Zenon DEF Unlink
    <3>2. prev \in Addrs /\ prev # rest /\ prev # next
      BY <1>0, <1>3, <2>4, Zenon
    <3>3. DOMAIN headers' = DOMAIN hs /\ \A a \in DOMAIN hs :
              headers'[a] = IF a = prev THEN [hs[a] EXCEPT !.next = rest] ELSE hs[a]
      BY <3>1, Zenon
    <3>4. headers'[rest] = hs[rest] /\ headers'[next] = hs[next]
      BY <1>0, <2>2, <3>2, <3>3, Zenon
    <3>5. \A a \in Addrs \ {next} :
              headers'[a] = IF a = prev THEN [headers[a] EXCEPT !.next = rest] ELSE headers[a]
      BY <2>2, <3>3, Zenon
    <3>. QED
      BY <2>2, <2>4, <3>1, <3>3, <3>4, <3>5, Zenon DEF Addrs
  <2>. QED
    BY <2>3, <2>4, Zenon
<1>5. ASSUME NEW a \in Addrs \ {next}
      PROVE  /\ headers'[a] \in [next : Addrs' \cup {NULL}, capacity : Nat,
                                 magic : {"FREE", "ALLOCATED"}]
             /\ headers'[a].capacity = headers[a].capacity
             /\ headers'[a].magic = headers[a].magic
             /\ headers'[a].next = IF a = prev THEN rest ELSE headers[a].next
  <2>1. headers[a] \in [next : Addrs' \cup {NULL}, capacity : Nat,
                        magic : {"FREE", "ALLOCATED"}]
    <3>1. headers[a] \in [next : Addrs \cup {NULL}, capacity : Nat,
                          magic : {"FREE", "ALLOCATED"}]
      BY <1>0, HeaderType, Zenon
    <3>. QED
      BY <1>4, <3>1, Zenon
  <2>2. CASE a = prev
    <3>1. headers'[a] = [headers[a] EXCEPT !.next = rest] /\ rest \in Addrs'
      BY <1>4, <2>2, Zenon
    <3>. QED
      BY <2>1, <2>2, <3>1, Zenon
  <2>3. CASE a # prev
    BY <1>4, <2>1, <2>3, Zenon
  <2>. QED
    BY <2>2, <2>3, Zenon
<1>6. FreeHeaders' = (FreeHeaders \ {next}) \cup {rest} /\ FreeHeaders \subseteq Addrs
  <2>1. headers'[rest].magic = "FREE" /\ headers'[next].magic = "ALLOCATED"
    BY <1>4 DEF Header
  <2>. QED
    BY <1>0, <1>3, <1>4, <1>5, <2>1 DEF FreeHeaders
<1>7. TypeOK'
  <2>1. {head', prev', next'} \subseteq Addrs' \cup {NULL}
    BY <1>0, <1>4, Zenon DEF TypeOK
  <2>2. [ptr |-> data_ptr(next), size |-> req.size, align |-> req.align]
            \in [ptr : Nat, size : Nat, align : Nat]
    <3>1. next \in Nat /\ HeaderSize \in Nat /\ req.size \in Nat /\ req.align \in Nat
      BY <1>0, <1>1, SizeRounded, Zenon
    <3>. QED
      BY <3>1 DEF data_ptr
  <2>3. live' \subseteq [ptr : Nat, size : Nat, align : Nat]
    BY <1>0, <2>2, Zenon DEF TypeOK
  <2>4. headers[next].next \in Addrs \cup {NULL}
    BY <1>0, HeaderType, Zenon
  <2>5. ASSUME NEW a \in Addrs'
        PROVE  headers'[a] \in [next : Addrs' \cup {NULL}, capacity : Nat,
                                magic : {"FREE", "ALLOCATED"}]
    <3>1. CASE a = rest
      BY <1>1, <1>4, <2>4, <3>1 DEF Header
    <3>2. CASE a = next
      BY <1>0, <1>4, <3>2 DEF Header
    <3>. QED
      BY <1>4, <1>5, <3>1, <3>2, Zenon
  <2>6. \A a \in Addrs' : a \in Nat /\ a # NULL /\ is_aligned(a, MinSize)
    BY <1>0, <1>1, <1>2, <1>4, HeaderType, Zenon DEF is_aligned
  <2>. QED
    BY <1>0, <2>1, <2>3, <2>5, <2>6, Zenon DEF TypeOK, is_aligned
<1>8. /\ End(n)' = rest /\ End(rest)' = End(next)
      /\ \A a \in Addrs \ {next} : End(a)' = End(a)
  <2>1. /\ headers'[n].capacity = Size
        /\ headers'[rest].capacity = headers[next].capacity - Size - HeaderSize
    BY <1>4, <1>next DEF Header
  <2>2. End(n)' = n + HeaderSize + Size /\ End(rest)' = rest + HeaderSize + headers'[rest].capacity
    BY <2>1, Zenon DEF End, data_ptr
  <2>3. \A a \in Addrs \ {next} : End(a)' = End(a)
    BY <1>5, Zenon DEF End, data_ptr
  <2>. QED
    BY <1>1, <1>next, <2>1, <2>2, <2>3, Zenon
<1>9. \A a \in Addrs : a \in Nat /\ End(a) \in Nat /\ a < End(a)
  <2>1. ASSUME NEW a \in Addrs
        PROVE  a \in Nat /\ End(a) \in Nat /\ a < End(a)
    <3>1. /\ a \in Nat /\ headers[a].capacity \in Nat /\ End(a) \in Nat
          /\ End(a) = a + HeaderSize + headers[a].capacity
      BY <1>0, HeaderType, Zenon
    <3>. QED
      BY <1>1, <3>1
  <2>. QED
    BY <2>1, Zenon
<1>10. rest < End(next)
  BY <1>0, <1>1
<1>11. Apart'
  <2>1. ASSUME NEW a \in Addrs', NEW b \in Addrs', a < b
        PROVE  End(a)' <= b
    <3>1. \A x, y \in Addrs : x < y => End(x) <= y
      BY Zenon DEF IInv, Apart
    <3>2. CASE a \in Addrs \ {next} /\ b \in Addrs
      BY <1>8, <2>1, <3>1, <3>2, Zenon
    <3>3. CASE a \in Addrs \ {next} /\ b = rest
      <4>1. /\ a \in Nat /\ next \in Nat /\ rest \in Nat /\ End(a) \in Nat /\ End(next) \in Nat
            /\ a # next /\ a \in Addrs /\ next \in Addrs
        BY <1>0, <1>1, <1>9, <3>3, Zenon
      <4>2. CASE a < next
        <5>1. End(a) <= next /\ next < rest
          BY <1>1, <3>1, <4>1, <4>2, Zenon
        <5>2. End(a) <= rest
          BY <4>1, <5>1, Ordering, Zenon
        <5>. QED
          BY <1>8, <3>3, <5>2, Zenon
      <4>3. CASE next < a
        <5>1. a < rest /\ rest < End(next) /\ End(next) <= a
          BY <1>10, <2>1, <3>1, <3>3, <4>1, <4>3, Zenon
        <5>. QED
          BY <4>1, <5>1, Ordering, Zenon
      <4>. QED
        BY <4>1, <4>2, <4>3, Ordering, Zenon
    <3>4. CASE a = next /\ b \in Addrs
      BY <1>0, <1>1, <1>next, <1>8, <1>9, <1>10, <2>1, <3>1, <3>4
    <3>5. CASE a = next /\ b = rest
      BY <1>1, <1>next, <1>8, <3>5
    <3>6. CASE a = rest /\ b \in Addrs
      <4>1. next < b
        BY <1>0, <1>1, <1>9, <2>1, <3>6
      <4>. QED
        BY <1>0, <1>8, <3>1, <3>6, <4>1, Zenon
    <3>7. CASE a = rest /\ b = rest
      BY <1>1, <2>1, <3>7
    <3>. QED
      BY <1>4, <3>2, <3>3, <3>4, <3>5, <3>6, <3>7, Zenon
  <2>. QED
    BY <2>1, Zenon DEF Apart
<1>12. Covered'
  <2>1. ASSUME NEW x \in Nat
        PROVE  InHeader(x)' <=> InHeader(x)
    <3>1. ASSUME NEW a \in Addrs', a <= x, x < End(a)'
          PROVE  \E b \in Addrs : b <= x /\ x < End(b)
      <4>1. CASE a \in {next, rest}
        BY <1>0, <1>1, <1>next, <1>8, <1>9, <1>10, <3>1, <4>1
      <4>2. CASE a \in Addrs \ {next}
        BY <1>8, <3>1, <4>2, Zenon
      <4>. QED
        BY <1>4, <4>1, <4>2, Zenon
    <3>2. ASSUME NEW a \in Addrs, a <= x, x < End(a)
          PROVE  \E b \in Addrs' : b <= x /\ x < End(b)'
      <4>1. CASE a = next
        BY <1>0, <1>1, <1>next, <1>4, <1>8, <1>9, <3>2, <4>1
      <4>2. CASE a # next
        BY <1>4, <1>8, <3>2, <4>2, Zenon
      <4>. QED
        BY <4>1, <4>2, Zenon
    <3>. QED
      BY <3>1, <3>2, Zenon DEF InHeader
  <2>2. \A x \in Nat : InChunk(x)' <=> InChunk(x)
    BY <1>0, Zenon DEF InChunk
  <2>. QED
    BY <2>1, <2>2, Zenon DEF IInv, Covered
<1>13. Owned'
  <2>1. FreeHeaders' \cap Addrs = FreeHeaders \ {next}
    BY <1>3, <1>6, Zenon
  <2>2. headers'[next].capacity >= Size /\ headers'[next].capacity \in Nat
    BY <1>0, <1>4 DEF Header
  <2>3. Addrs \subseteq Addrs'
    BY <1>4, Zenon
  <2>. QED
    BY <1>5, <2>1, <2>2, <2>3, TakeOwned, Zenon
<1>14. Listed'
  <2>1. PICK r \in [FreeHeaders -> Nat] : ListOrder(r) /\ WalkOrder(r)
    BY Zenon DEF IInv, Listed
  <2>2. \A a \in FreeHeaders \ {next} :
            headers'[a].next = IF a = prev THEN rest ELSE headers[a].next
    BY <1>5, <1>6, Zenon
  <2>3. headers'[rest].next = headers[next].next
    BY <1>4 DEF Header
  <2>4. PICK q \in [FreeHeaders' -> Nat] : ListOrder(q)'
    <3>1. rest \in Nat \ {NULL} /\ rest \notin Addrs
      BY <1>1, <1>3, Zenon
    <3>2. head' = IF prev = NULL THEN rest ELSE head
      BY <1>4, Zenon
    <3>. QED
      BY <1>0, <1>6, <2>1, <2>2, <2>3, <3>1, <3>2, ReplaceOrdered, Zenon
  <2>5. WalkOrder(q)'
    BY <1>0, Zenon DEF WalkOrder
  <2>. QED
    BY <2>4, <2>5, Zenon DEF Listed
<1>15. Served'
  BY <1>0, Zenon DEF Served
<1>. QED
  BY <1>7, <1>11, <1>12, <1>13, <1>14, <1>15, Zenon DEF IInv

-------------------------------------------------------------------------------
(* The theorems                                                               *)

LEMMA InitIInv ==
    ASSUME Init
    PROVE  IInv
<1>1. Addrs = {} /\ FreeHeaders = {} /\ chunks = {} /\ live = {} /\ head = NULL
  BY Zenon DEF Init, Addrs, FreeHeaders
<1>2. TypeOK
  BY <1>1, Zenon DEF Init, TypeOK
<1>3. Apart /\ Covered /\ Owned
  BY <1>1, Zenon DEF Apart, Covered, InHeader, InChunk, Owned
<1>4. Listed
  <2>. DEFINE r == [a \in {} |-> 0]
  <2>1. r \in [FreeHeaders -> Nat]
    BY <1>1, Zenon
  <2>2. ListOrder(r) /\ WalkOrder(r)
    BY <1>1, Zenon DEF Init, ListOrder, WalkOrder
  <2>. QED
    BY <2>1, <2>2, Zenon DEF Listed
<1>5. Served
  BY Zenon DEF Init, Served
<1>. QED
  BY <1>2, <1>3, <1>4, <1>5, Zenon DEF IInv

LEMMA NextIInv ==
    ASSUME IInv, [Next]_vars
    PROVE  IInv'
<1>1. ASSUME UNCHANGED vars
      PROVE  IInv'
  <2>1. UNCHANGED <<head, headers, chunks, live, pc, req, grown, prev, next>>
    BY <1>1, Zenon DEF vars, walkVars
  <2>2. Apart' /\ Covered' /\ Owned' /\ Addrs' = Addrs /\ FreeHeaders' = FreeHeaders
    BY <2>1, SameHeaders, Zenon
  <2>3. \A a : Fits(a)' <=> Fits(a)
    BY <2>1, Zenon DEF Fits, can_fit, data_ptr, is_aligned, Size, align_up
  <2>4. TooMuch' <=> TooMuch
    BY <2>1, Zenon DEF TooMuch, Size, align_up, is_aligned
  <2>5. TypeOK'
    BY <2>1, <2>2, Zenon DEF IInv, TypeOK
  <2>6. Listed'
    BY <2>1, <2>2, <2>3, Zenon DEF IInv, Listed, ListOrder, WalkOrder
  <2>7. Served'
    BY <2>1, <2>2, <2>3, <2>4, Zenon DEF IInv, Served
  <2>. QED
    BY <2>2, <2>5, <2>6, <2>7, Zenon DEF IInv
<1>2. ASSUME NEW layout \in Layouts, Alloc(layout)
      PROVE  IInv'
  BY <1>2, AllocPreserves, Zenon
<1>3. CASE Walk
  BY <1>3, WalkPreserves, Zenon
<1>4. CASE WalkEnd
  BY <1>4, WalkEndPreserves, Zenon
<1>5. CASE Take
  BY <1>5, TakeWholePreserves, TakeSplitPreserves, Zenon
<1>6. CASE Grow
  BY <1>6, GrowPreserves, Zenon
<1>7. CASE OutOfMemory \/ NewChunkFails
  BY <1>7, PanicPreserves, Zenon
<1>8. CASE Panicked
  BY <1>1, <1>8, Zenon DEF Panicked
<1>9. ASSUME NEW l \in live, Free(l)
      PROVE  IInv'
  BY <1>9, FreePreserves, Zenon
<1>. QED
  BY <1>1, <1>2, <1>3, <1>4, <1>5, <1>6, <1>7, <1>8, <1>9, Zenon DEF Next

LEMMA Inductive == Spec => []IInv
<1>1. Init => IInv
  BY InitIInv, Zenon
<1>2. IInv /\ [Next]_vars => IInv'
  BY NextIInv, Zenon
<1>. QED
  BY <1>1, <1>2, PTL DEF Spec

\* For every chunk and header size the headers and their data tile the chunks, after any
\* sequence of malloc (try_split included), free and add_chunk.
THEOREM HeapTiled == Spec => []Tiling
<1>1. IInv => Tiling
  <2>. SUFFICES ASSUME IInv PROVE Tiling
    BY Zenon
  <2>0. TypeOK
    BY Zenon DEF IInv
  <2>1. \A a \in Addrs : a \in Nat /\ End(a) \in Nat /\ Extent(a) = a..(End(a) - 1)
    <3>1. \A a \in Addrs : a \in Nat /\ End(a) \in Nat /\ headers[a].capacity \in Nat
      BY <2>0, HeaderType, Zenon
    <3>2. ASSUME NEW a \in Addrs
          PROVE  data_ptr(a) + headers[a].capacity - 1 = End(a) - 1
      <4>1. data_ptr(a) \in Nat /\ headers[a].capacity \in Nat
        BY <3>1, HeapAssumption DEF data_ptr
      <4>. QED
        BY <4>1 DEF End
    <3>. QED
      BY <3>1, <3>2, Zenon DEF Extent
  <2>2. ASSUME NEW a \in Addrs, NEW b \in Addrs, a # b
        PROVE  Extent(a) \cap Extent(b) = {}
    <3>1. End(a) <= b \/ End(b) <= a
      BY <2>1, <2>2 DEF IInv, Apart
    <3>. QED
      BY <2>1, <3>1
  <2>3. \A c \in chunks : c \in Nat /\ ChunkSize \in Nat
    BY HeapAssumption, Zenon DEF IInv, TypeOK
  <2>4. ASSUME NEW x \in UNION {Extent(a) : a \in Addrs}
        PROVE  x \in UNION {c..(c + ChunkSize - 1) : c \in chunks}
    <3>1. PICK a \in Addrs : x \in Extent(a)
      BY Zenon
    <3>2. x \in Nat /\ InHeader(x)
      BY <2>1, <3>1 DEF InHeader
    <3>3. PICK c \in chunks : c <= x /\ x < c + ChunkSize
      BY <3>2, Zenon DEF IInv, Covered, InChunk
    <3>4. x \in c..(c + ChunkSize - 1)
      BY <2>3, <3>2, <3>3
    <3>. QED
      BY <3>4, Zenon
  <2>5. ASSUME NEW x \in UNION {c..(c + ChunkSize - 1) : c \in chunks}
        PROVE  x \in UNION {Extent(a) : a \in Addrs}
    <3>1. PICK c \in chunks : x \in c..(c + ChunkSize - 1)
      BY Zenon
    <3>2. x \in Nat /\ InChunk(x)
      BY <2>3, <3>1 DEF InChunk
    <3>3. PICK a \in Addrs : a <= x /\ x < End(a)
      BY <3>2, Zenon DEF IInv, Covered, InHeader
    <3>4. x \in Extent(a)
      BY <2>1, <3>2, <3>3
    <3>. QED
      BY <3>4, Zenon
  <2>. QED
    BY <2>0, <2>2, <2>4, <2>5, Zenon DEF Tiling
<1>. QED
  BY <1>1, Inductive, PTL

\* Every allocation malloc returned and free did not take back is aligned, large enough
\* and disjoint from all others, whatever is allocated and freed in between.
THEOREM HeapLiveSound == Spec => []LiveSound
<1>1. IInv => LiveSound
  <2>. SUFFICES ASSUME IInv PROVE LiveSound
    BY Zenon
  <2>1. ASSUME NEW l \in live, NEW m \in live, l # m
        PROVE  l.ptr + l.size <= m.ptr \/ m.ptr + m.size <= l.ptr
    <3>. DEFINE a == from_data_ptr(l.ptr)
                b == from_data_ptr(m.ptr)
    <3>1. /\ l.ptr \in Nat /\ m.ptr \in Nat /\ l.size \in Nat /\ m.size \in Nat
          /\ HeaderSize \in Nat /\ l.ptr # m.ptr
      BY <2>1, HeapAssumption, Zenon DEF IInv, TypeOK, Owned
    <3>2. /\ a \in Addrs /\ b \in Addrs
          /\ headers[a].capacity >= l.size /\ headers[b].capacity >= m.size
      BY Zenon DEF IInv, Owned
    <3>3. a = l.ptr - HeaderSize /\ b = m.ptr - HeaderSize
      BY Zenon DEF from_data_ptr
    <3>. HIDE DEF a, b
    <3>4. /\ headers[a].capacity \in Nat /\ End(a) = a + HeaderSize + headers[a].capacity
          /\ headers[b].capacity \in Nat /\ End(b) = b + HeaderSize + headers[b].capacity
      BY <3>2, HeaderType, Zenon DEF IInv
    <3>5. End(a) <= b \/ End(b) <= a
      <4>1. a < b \/ b < a
        BY <3>1, <3>3
      <4>. QED
        BY <3>2, <4>1, Zenon DEF IInv, Apart
    <3>. QED
      BY <3>1, <3>2, <3>3, <3>4, <3>5
  <2>. QED
    BY <2>1, Zenon DEF IInv, Owned, LiveSound
<1>. QED
  BY <1>1, Inductive, PTL

\* malloc gives up only when no free chunk fits, and "failed to malloc from new chunk" is
\* reached only by a request no chunk could serve.
THEOREM HeapServes == Spec => []NewChunkServes
<1>1. IInv => NewChunkServes
  BY Zenon DEF IInv, Served, NewChunkServes, Fits, TooMuch
<1>. QED
  BY <1>1, Inductive, PTL

-------------------------------------------------------------------------------
(* VmArea                                                                     *)

\* Sequences.
LEMMA SeqEmpty ==
    ASSUME NEW S
    PROVE  <<>> \in Seq(S) /\ Len(<<>>) = 0 /\ \A q \in Seq(S) : q # <<>> => Len(q) \in Nat \ {0}
OBVIOUS

LEMMA SeqTyped ==
    ASSUME NEW S, NEW q \in Seq(S)
    PROVE  /\ Len(q) \in Nat /\ DOMAIN q = 1..Len(q) /\ q \in [1..Len(q) -> S]
           /\ \A k \in 1..Len(q) : q[k] \in S
OBVIOUS

LEMMA SeqConcat ==
    ASSUME NEW S, NEW q \in Seq(S), NEW r \in Seq(S)
    PROVE  /\ q \o r \in Seq(S) /\ Len(q \o r) = Len(q) + Len(r)
           /\ \A k \in 1..(Len(q) + Len(r)) :
                  (q \o r)[k] = IF k <= Len(q) THEN q[k] ELSE r[k - Len(q)]
OBVIOUS

LEMMA SeqPart ==
    ASSUME NEW S, NEW q, NEW m \in Int, NEW n \in Int, \A k \in m..n : q[k] \in S
    PROVE  /\ SubSeq(q, m, n) \in Seq(S)
           /\ Len(SubSeq(q, m, n)) = IF m <= n THEN n - m + 1 ELSE 0
           /\ \A k \in 1..(n - m + 1) : SubSeq(q, m, n)[k] = q[m + k - 1]
OBVIOUS

-------------------------------------------------------------------------------
(* Pages and offsets                                                          *)

\* An offset is a page and an offset in it.
LEMMA DivMod ==
    ASSUME NEW o \in Nat
    PROVE  /\ o \div PageSize \in Nat
           /\ o % PageSize \in 0..(PageSize - 1)
           /\ o = PageSize * (o \div PageSize) + (o % PageSize)
BY VmAreaAssumption, SMT

LEMMA Multiply ==
    ASSUME NEW a \in Nat, NEW b \in Nat, a < b
    PROVE  PageSize * a + PageSize <= PageSize * b
<1>1. PICK c \in Nat : b = a + 1 + c
  <2>1. b - a - 1 \in Nat /\ b = a + 1 + (b - a - 1)
    OBVIOUS
  <2>. QED
    BY <2>1, Zenon
<1>2. PageSize * b = PageSize * a + PageSize + PageSize * c
  BY <1>1, VmAreaAssumption, SMT
<1>3. PageSize * c \in Nat
  BY VmAreaAssumption, SMT
<1>4. PageSize * a \in Nat
  BY VmAreaAssumption, SMT
<1>. QED
  BY <1>2, <1>3, <1>4, VmAreaAssumption

\* There is one such page and one such offset.
LEMMA DivUnique ==
    ASSUME NEW q \in Nat, NEW r \in 0..(PageSize - 1), NEW o \in Nat,
           o = PageSize * q + r
    PROVE  o \div PageSize = q /\ o % PageSize = r
<1>. DEFINE d == o \div PageSize
            m == o % PageSize
<1>1. d \in Nat /\ m \in 0..(PageSize - 1) /\ o = PageSize * d + m
  BY DivMod, Zenon
<1>2. PageSize * q \in Nat /\ PageSize * d \in Nat
  BY <1>1, VmAreaAssumption, SMT
<1>. HIDE DEF d, m
<1>3. ~ d < q
  BY <1>1, <1>2, Multiply, VmAreaAssumption
<1>4. ~ q < d
  BY <1>1, <1>2, Multiply, VmAreaAssumption
<1>5. q = d
  BY <1>1, <1>3, <1>4
<1>6. r = m
  BY <1>1, <1>2, <1>5, VmAreaAssumption
<1>. QED
  BY <1>5, <1>6, Zenon DEF d, m

\* Every offset of the area lies in one of its pages.
LEMMA InPages ==
    ASSUME NEW o \in 0..(Length - 1)
    PROVE  o \div PageSize \in Indices
<1>1. NumPages \in Nat /\ Length = PageSize * NumPages
  <2>1. Length \in Nat /\ Length % PageSize = 0 /\ PageSize \in Nat
    BY VmAreaAssumption, Zenon
  <2>2. /\ Length \div PageSize \in Nat
        /\ Length = PageSize * (Length \div PageSize) + (Length % PageSize)
    BY <2>1, DivMod, Zenon
  <2>3. NumPages \in Nat /\ Length = PageSize * NumPages + 0
    BY <2>1, <2>2, Zenon DEF NumPages
  <2>4. PageSize * NumPages \in Nat
    BY <2>1, <2>3, SMT
  <2>. QED
    BY <2>3, <2>4
<1>2. /\ o \in Nat /\ o \div PageSize \in Nat /\ o % PageSize \in 0..(PageSize - 1)
      /\ o = PageSize * (o \div PageSize) + (o % PageSize)
  <2>1. o \in Nat
    BY VmAreaAssumption
  <2>. QED
    BY <2>1, DivMod, Zenon
<1>. DEFINE d == o \div PageSize
<1>3. PageSize * NumPages \in Nat /\ PageSize * d \in Nat
  BY <1>1, <1>2, VmAreaAssumption, SMT
<1>. HIDE DEF d
<1>4. d < NumPages
  <2>1. CASE d = NumPages
    BY <2>1, <1>1, <1>2, <1>3, VmAreaAssumption DEF d
  <2>2. CASE NumPages < d
    <3>1. PageSize * NumPages + PageSize <= PageSize * d
      BY <2>2, <1>1, <1>2, Multiply, Zenon DEF d
    <3>. QED
      BY <3>1, <1>1, <1>2, <1>3, VmAreaAssumption DEF d
  <2>. QED
    BY <2>1, <2>2, <1>1, <1>2 DEF d
<1>. QED
  BY <1>1, <1>2, <1>4 DEF Indices, d

\* The offsets behind o up to the end of its page lie in the same page.
LEMMA SamePage ==
    ASSUME NEW o \in Nat, NEW k \in Nat, k < PageSize - (o % PageSize)
    PROVE  (o + k) \div PageSize = o \div PageSize /\ (o + k) % PageSize = (o % PageSize) + k
<1>1. /\ o \div PageSize \in Nat /\ o % PageSize \in 0..(PageSize - 1)
      /\ o = PageSize * (o \div PageSize) + (o % PageSize)
  BY DivMod, Zenon
<1>. DEFINE d == o \div PageSize
            m == o % PageSize
<1>2. PageSize * d \in Nat
  BY <1>1, VmAreaAssumption, SMT
<1>. HIDE DEF d, m
<1>3. m + k \in 0..(PageSize - 1) /\ o + k = PageSize * d + (m + k)
  BY <1>1, <1>2, VmAreaAssumption DEF d, m
<1>. QED
  BY <1>1, <1>3, DivUnique DEF d, m

\* In one page, offsets differ as the offsets in the page do.
LEMMA PageDistance ==
    ASSUME NEW o \in Nat, NEW p \in Nat, o \div PageSize = p \div PageSize
    PROVE  o - p = (o % PageSize) - (p % PageSize)
<1>1. /\ o \div PageSize \in Nat /\ o % PageSize \in 0..(PageSize - 1)
      /\ o = PageSize * (o \div PageSize) + (o % PageSize)
  BY DivMod, Zenon
<1>2. /\ p % PageSize \in 0..(PageSize - 1)
      /\ p = PageSize * (o \div PageSize) + (p % PageSize)
  BY DivMod, Zenon
<1>3. PageSize * (o \div PageSize) \in Nat
  BY <1>1, VmAreaAssumption, SMT
<1>. QED
  BY <1>1, <1>2, <1>3, VmAreaAssumption
-------------------------------------------------------------------------------
(* Types                                                                      *)

Page == [0..(PageSize - 1) -> Bytes]

LEMMA ZeroPageType == ZeroPage \in Page /\ NewPage \in Page
BY VmAreaAssumption, Zenon DEF ZeroPage, NewPage, Page

LEMMA NoneIsNoPage == \A p \in Page : p # None
BY VmAreaAssumption, Zenon DEF Page

\* get_or_fill leaves a page.
LEMMA FilledType ==
    ASSUME AreaTypeOK, NEW i \in Indices, CanFill(i)
    PROVE  /\ Filled(i) \in [Indices -> {None} \cup Page]
           /\ Filled(i)[i] \in Page
           /\ LeftAfter(i) \in 0..MaxPages
           /\ \A j \in Indices : j # i => Filled(i)[j] = pages[j]
           /\ Filled(i)[i] = IF pages[i] = None THEN ZeroPage ELSE pages[i]
<1>1. pages \in [Indices -> {None} \cup Page] /\ left \in 0..MaxPages
  BY Zenon DEF AreaTypeOK, Page
<1>2. CASE pages[i] = None
  BY <1>1, <1>2, ZeroPageType, VmAreaAssumption DEF Filled, LeftAfter, CanFill, NewPage
<1>3. CASE pages[i] # None
  BY <1>1, <1>3, VmAreaAssumption, Zenon DEF Filled, LeftAfter
<1>. QED
  BY <1>2, <1>3, Zenon

\* An iteration stays in one page of the area and copies something.
LEMMA CopyLenType ==
    ASSUME AreaTypeOK, data # <<>>
    PROVE  /\ Len(data) \in Nat
           /\ CopyLen \in 1..Len(data)
           /\ CopyLen <= PageSize - (offset % PageSize)
           /\ offset % PageSize \in 0..(PageSize - 1)
           /\ Index \in Indices
<1>1. /\ offset \in Nat /\ data \in Seq(Bytes) /\ Len(data) \in Nat /\ Len(data) > 0
      /\ offset + Len(data) <= Length
  BY SeqEmpty, SeqTyped, VmAreaAssumption DEF AreaTypeOK
<1>2. offset % PageSize \in 0..(PageSize - 1)
  BY <1>1, DivMod, Zenon
<1>3. Index \in Indices
  <2>1. offset \in 0..(Length - 1)
    BY <1>1, VmAreaAssumption
  <2>. QED
    BY <2>1, InPages, Zenon DEF Index
<1>. QED
  BY <1>1, <1>2, <1>3, VmAreaAssumption DEF CopyLen

\* What both loops do at the end of an iteration
LEMMA AdvanceType ==
    ASSUME AreaTypeOK, data # <<>>, Advance
    PROVE  /\ data' \in Seq(Bytes) /\ Len(data') = Len(data) - CopyLen
           /\ offset' \in 0..Length /\ offset' + Len(data') <= Length
           /\ call' \in {"none", "write", "read"}
           /\ result' \in {"none", "Ok", "OUT_OF_BOUNDS", "OUT_OF_MEMORY"}
<1>1. /\ Len(data) \in Nat /\ CopyLen \in 1..Len(data)
  BY CopyLenType, Zenon
<1>. DEFINE n == CopyLen
<1>2. n \in Nat /\ n \in 1..Len(data)
  BY <1>1
<1>3. /\ data \in Seq(Bytes) /\ offset \in 0..Length /\ offset + Len(data) <= Length
      /\ data' = SubSeq(data, n + 1, Len(data)) /\ offset' = offset + n
      /\ call' = call /\ result' = result
  BY Zenon DEF AreaTypeOK, Advance
<1>. HIDE DEF n
<1>4. \A i \in (n + 1)..Len(data) : data[i] \in Bytes
  BY <1>1, <1>2, <1>3, SeqTyped
<1>5. /\ data' \in Seq(Bytes)
      /\ Len(data') = IF n + 1 <= Len(data) THEN Len(data) - (n + 1) + 1 ELSE 0
  BY <1>1, <1>2, <1>3, <1>4, SeqPart
<1>6. Len(data') = Len(data) - n
  BY <1>1, <1>2, <1>5
<1>7. /\ call' \in {"none", "write", "read"}
      /\ result' \in {"none", "Ok", "OUT_OF_BOUNDS", "OUT_OF_MEMORY"}
  BY <1>3, Zenon DEF AreaTypeOK
<1>8. offset' \in 0..Length /\ offset' + Len(data') <= Length
  <2>1. offset \in Nat /\ Length \in Nat
    BY <1>3, VmAreaAssumption
  <2>2. offset' = offset + n /\ offset + Len(data) <= Length
    BY <1>3, Zenon
  <2>3. Len(data) \in Nat /\ n \in 1..Len(data)
    BY <1>1, <1>2, Zenon
  <2>4. offset' \in 0..Length
    BY <2>1, <2>2, <2>3
  <2>. QED
    BY <2>1, <2>2, <2>3, <2>4, <1>6
<1>. QED
  BY <1>5, <1>6, <1>7, <1>8, Zenon DEF n

\* One iteration of write()'s loop: the page it leaves
LEMMA WritePageEffect ==
    ASSUME AreaTypeOK, WritePage
    PROVE  /\ pages' \in [Indices -> {None} \cup Page]
           /\ pages'[Index] \in Page
           /\ \A j \in Indices : j # Index => pages'[j] = pages[j]
           /\ \A o \in 0..(PageSize - 1) :
                  pages'[Index][o] =
                      IF o \in (offset % PageSize)..((offset % PageSize) + CopyLen - 1)
                      THEN data[o - (offset % PageSize) + 1] ELSE Filled(Index)[Index][o]
<1>. DEFINE po == offset % PageSize
            n == CopyLen
            new == [o \in 0..(PageSize - 1) |->
                       IF o \in po..(po + n - 1) THEN data[o - po + 1]
                       ELSE Filled(Index)[Index][o]]
<1>1. /\ data # <<>> /\ CanFill(Index)
      /\ pages' = [Filled(Index) EXCEPT ![Index] = new]
  BY Zenon DEF WritePage
<1>2. /\ Len(data) \in Nat /\ n \in 1..Len(data) /\ po \in 0..(PageSize - 1) /\ Index \in Indices
  BY <1>1, CopyLenType, Zenon
<1>3. data \in Seq(Bytes)
  BY Zenon DEF AreaTypeOK
<1>4. /\ Filled(Index) \in [Indices -> {None} \cup Page] /\ Filled(Index)[Index] \in Page
      /\ \A j \in Indices : j # Index => Filled(Index)[j] = pages[j]
  BY <1>1, <1>2, FilledType, Zenon
<1>5. new \in Page
  <2>1. ASSUME NEW o \in 0..(PageSize - 1)
        PROVE  (IF o \in po..(po + n - 1) THEN data[o - po + 1]
                ELSE Filled(Index)[Index][o]) \in Bytes
    <3>. HIDE DEF po, n
    <3>1. CASE o \in po..(po + n - 1)
      <4>1. o - po + 1 \in 1..Len(data)
        BY <1>2, <2>1, <3>1, VmAreaAssumption
      <4>. QED
        BY <3>1, <4>1, <1>3, SeqTyped, Zenon
    <3>2. CASE o \notin po..(po + n - 1)
      BY <3>2, <1>4, Zenon DEF Page
    <3>. QED
      BY <3>1, <3>2, Zenon
  <2>. HIDE DEF po, n
  <2>. QED
    BY <2>1, Zenon DEF Page
<1>. HIDE DEF new
<1>6. pages'[Index] = new
  BY <1>1, <1>2, <1>4, Zenon
<1>7. /\ pages' \in [Indices -> {None} \cup Page]
      /\ \A j \in Indices : j # Index => pages'[j] = pages[j]
  BY <1>1, <1>2, <1>4, <1>5, Zenon
<1>8. \A o \in 0..(PageSize - 1) :
          new[o] = IF o \in po..(po + n - 1) THEN data[o - po + 1] ELSE Filled(Index)[Index][o]
  BY Zenon DEF new
<1>. QED
  BY <1>5, <1>6, <1>7, <1>8, Zenon

\* The bytes that read() copies
LEMMA ReadPageType ==
    ASSUME AreaTypeOK, ReadPage
    PROVE  buf' \in Seq(Bytes)
<1>. DEFINE po == offset % PageSize
            n == CopyLen
            new == [k \in 1..n |-> pages'[Index][po + k - 1]]
<1>1. /\ data # <<>> /\ CanFill(Index) /\ pages' = Filled(Index) /\ buf' = buf \o new
  BY Zenon DEF ReadPage
<1>2. /\ Len(data) \in Nat /\ n \in 1..Len(data) /\ n <= PageSize - po
      /\ po \in 0..(PageSize - 1) /\ Index \in Indices
  BY <1>1, CopyLenType, Zenon
<1>3. pages'[Index] \in Page
  BY <1>1, <1>2, FilledType, Zenon
<1>. HIDE DEF po, n
<1>4. \A k \in 1..n : pages'[Index][po + k - 1] \in Bytes
  BY <1>2, <1>3, VmAreaAssumption DEF Page
<1>5. new \in Seq(Bytes)
  <2>1. n \in Nat
    BY <1>2
  <2>2. new \in [1..n -> Bytes]
    BY <1>4, Zenon
  <2>. QED
    BY <2>1, <2>2
<1>. QED
  BY <1>1, <1>5, SeqConcat, Zenon DEF AreaTypeOK

\* Every variable of the model keeps its type, and a call its range: offset + len, which
\* write() and read() check once, holds through their loops.
THEOREM AreaTypeCorrect == AreaSpec => []AreaTypeOK
<1>1. AreaInit => AreaTypeOK
  <2>1. <<>> \in Seq(Bytes) /\ Len(<<>>) = 0
    BY SeqEmpty, Zenon
  <2>. QED
    BY <2>1, VmAreaAssumption DEF AreaInit, AreaTypeOK
<1>2. AreaTypeOK /\ [AreaNext]_areaVars => AreaTypeOK'
  <2>. SUFFICES ASSUME AreaTypeOK, [AreaNext]_areaVars PROVE AreaTypeOK'
    BY Zenon
  <2>1. ASSUME NEW c \in {"write", "read"}, NEW o \in 0..MaxUsize, NEW d \in Buffers,
               Begin(c, o, d)
        PROVE  AreaTypeOK'
    <3>1. d \in Seq(Bytes) /\ Len(d) \in Nat /\ <<>> \in Seq(Bytes)
      BY SeqTyped, SeqEmpty, VmAreaAssumption, Zenon
    <3>2. pages' = pages /\ left' = left
      BY <2>1, Zenon DEF Begin
    <3>3. CASE InBounds(o, d)
      <4>1. /\ call' = c /\ offset' = o /\ data' = d /\ buf' = <<>> /\ result' = "none"
        BY <2>1, <3>3, Zenon DEF Begin
      <4>2. o \in 0..Length /\ o + Len(d) <= Length
        <5>1. o \in Nat /\ Length \in Nat /\ o + Len(d) <= Length
          BY <3>3, VmAreaAssumption DEF InBounds
        <5>. QED
          BY <5>1, <3>1
      <4>. QED
        BY <3>1, <3>2, <4>1, <4>2, Zenon DEF AreaTypeOK
    <3>4. CASE ~InBounds(o, d)
      BY <2>1, <3>2, <3>4, Zenon DEF Begin, AreaTypeOK
    <3>. QED
      BY <3>3, <3>4
  <2>2. CASE WritePage
    <3>1. data # <<>> /\ Advance /\ CanFill(Index) /\ buf' = buf /\ left' = LeftAfter(Index)
      BY <2>2, Zenon DEF WritePage
    <3>2. pages' \in [Indices -> {None} \cup Page]
      BY <2>2, WritePageEffect
    <3>3. left' \in 0..MaxPages
      BY <3>1, FilledType, CopyLenType, Zenon
    <3>. QED
      BY <3>1, <3>2, <3>3, AdvanceType, Zenon DEF AreaTypeOK, Page
  <2>3. CASE ReadPage
    <3>1. /\ data # <<>> /\ Advance /\ CanFill(Index)
          /\ pages' = Filled(Index) /\ left' = LeftAfter(Index)
      BY <2>3, Zenon DEF ReadPage
    <3>2. pages' \in [Indices -> {None} \cup Page] /\ left' \in 0..MaxPages
      BY <3>1, FilledType, CopyLenType, Zenon
    <3>3. buf' \in Seq(Bytes)
      BY <2>3, ReadPageType, Zenon
    <3>. QED
      BY <3>1, <3>2, <3>3, AdvanceType, Zenon DEF AreaTypeOK, Page
  <2>4. CASE Return
    BY <2>4, Zenon DEF Return, AreaTypeOK
  <2>5. ASSUME NEW i \in Indices, ensure_page(i) PROVE AreaTypeOK'
    <3>1. pages' \in [Indices -> {None} \cup Page] /\ left' \in 0..MaxPages
      BY <2>5, FilledType, Zenon DEF ensure_page
    <3>. QED
      BY <2>5, <3>1, Zenon DEF ensure_page, callVars, AreaTypeOK, Page
  <2>6. CASE UNCHANGED areaVars
    BY <2>6, Zenon DEF areaVars, callVars, AreaTypeOK
  <2>. QED
    BY <2>1, <2>2, <2>3, <2>4, <2>5, <2>6, Zenon DEF AreaNext
<1>. QED
  BY <1>1, <1>2, PTL DEF AreaSpec
-------------------------------------------------------------------------------
(* The refinement                                                             *)

\* The byte a user sees at an offset of a page
PageByte(p, m) == IF p = None THEN Zero ELSE p[m]

LEMMA ContentsByte ==
    Contents = [o \in 0..(Length - 1) |-> PageByte(pages[o \div PageSize], o % PageSize)]
BY Zenon DEF Contents, PageByte

\* Filling a page on demand is not seen.
LEMMA FillingUnseen ==
    ASSUME AreaTypeOK, NEW i \in Indices, CanFill(i)
    PROVE  \A j \in Indices, m \in 0..(PageSize - 1) :
               PageByte(Filled(i)[j], m) = PageByte(pages[j], m)
<1>. SUFFICES ASSUME NEW j \in Indices, NEW m \in 0..(PageSize - 1)
              PROVE  PageByte(Filled(i)[j], m) = PageByte(pages[j], m)
  BY Zenon
<1>1. /\ Filled(i)[i] \in Page
      /\ \A k \in Indices : k # i => Filled(i)[k] = pages[k]
      /\ Filled(i)[i] = IF pages[i] = None THEN ZeroPage ELSE pages[i]
  BY FilledType, Zenon
<1>2. CASE j # i
  BY <1>1, <1>2, Zenon
<1>3. CASE j = i /\ pages[i] # None
  BY <1>1, <1>3, Zenon
<1>4. CASE j = i /\ pages[i] = None
  <2>1. Filled(i)[i] = ZeroPage /\ ZeroPage # None
    BY <1>1, <1>4, ZeroPageType, NoneIsNoPage, Zenon
  <2>2. ZeroPage[m] = Zero
    BY Zenon DEF ZeroPage
  <2>. QED
    BY <1>4, <2>1, <2>2, Zenon DEF PageByte
<1>. QED
  BY <1>2, <1>3, <1>4, Zenon

\* An offset of the area, its page and its offset in the page
LEMMA Located ==
    ASSUME NEW o \in 0..(Length - 1)
    PROVE  o \in Nat /\ o \div PageSize \in Indices /\ o % PageSize \in 0..(PageSize - 1)
<1>1. o \in Nat
  OBVIOUS
<1>. QED
  BY <1>1, DivMod, InPages, Zenon

LEMMA FillKeepsContents ==
    ASSUME AreaTypeOK, NEW i \in Indices, CanFill(i), pages' = Filled(i)
    PROVE  Contents' = Contents
<1>1. \A o \in 0..(Length - 1) :
          PageByte(pages'[o \div PageSize], o % PageSize)
              = PageByte(pages[o \div PageSize], o % PageSize)
  BY FillingUnseen, Located, Zenon
<1>2. Contents' = [o \in 0..(Length - 1) |-> PageByte(pages'[o \div PageSize], o % PageSize)]
  BY Zenon DEF Contents, PageByte
<1>. QED
  BY <1>1, <1>2, ContentsByte, Zenon

\* An iteration of write() changes the bytes of its range and no other.
LEMMA WriteCopiesIn ==
    ASSUME AreaTypeOK, WritePage
    PROVE  Contents' =
               [o \in DOMAIN Contents |->
                   IF o \in offset..(offset + CopyLen - 1) THEN data[o - offset + 1]
                   ELSE Contents[o]]
<1>. DEFINE po == offset % PageSize
            n == CopyLen
            after(o) == IF o \in offset..(offset + n - 1) THEN data[o - offset + 1]
                        ELSE Contents[o]
<1>1. data # <<>> /\ CanFill(Index)
  BY Zenon DEF WritePage
<1>2. /\ Len(data) \in Nat /\ n \in 1..Len(data) /\ n <= PageSize - po
      /\ po \in 0..(PageSize - 1) /\ Index \in Indices
  BY <1>1, CopyLenType, Zenon
<1>3. offset \in Nat
  BY DEF AreaTypeOK
<1>4. DOMAIN Contents = 0..(Length - 1)
  BY Zenon DEF Contents
<1>5. Contents' = [o \in 0..(Length - 1) |-> PageByte(pages'[o \div PageSize], o % PageSize)]
  BY Zenon DEF Contents, PageByte
<1>6. ASSUME NEW o \in 0..(Length - 1)
      PROVE  PageByte(pages'[o \div PageSize], o % PageSize) = after(o)
  <2>1. o \in Nat /\ o \div PageSize \in Indices /\ o % PageSize \in 0..(PageSize - 1)
    BY Located, Zenon
  <2>2. Contents[o] = PageByte(pages[o \div PageSize], o % PageSize)
    BY ContentsByte, Zenon
  <2>3. /\ pages'[Index] \in Page
        /\ \A j \in Indices : j # Index => pages'[j] = pages[j]
        /\ \A m \in 0..(PageSize - 1) :
               pages'[Index][m] = IF m \in po..(po + n - 1) THEN data[m - po + 1]
                                  ELSE Filled(Index)[Index][m]
    BY WritePageEffect, Zenon
  <2>4. \A m \in 0..(PageSize - 1) : PageByte(pages'[Index], m) = pages'[Index][m]
    BY <2>3, NoneIsNoPage, Zenon DEF PageByte
  <2>5. CASE o \in offset..(offset + n - 1)
    <3>. HIDE DEF po, n
    <3>1. PICK k \in Nat : o = offset + k /\ k < n
      <4>1. o - offset \in Nat /\ o = offset + (o - offset) /\ o - offset < n
        BY <1>2, <1>3, <2>1, <2>5
      <4>. QED
        BY <4>1, Zenon
    <3>2. k < PageSize - po
      BY <1>2, <3>1, VmAreaAssumption
    <3>3. o \div PageSize = Index /\ o % PageSize = po + k
      BY <3>1, <3>2, <1>3, SamePage, Zenon DEF Index, po
    <3>4. po + k \in po..(po + n - 1) /\ (po + k) - po + 1 = o - offset + 1
      BY <1>2, <1>3, <3>1
    <3>5. PageByte(pages'[Index], po + k) = data[o - offset + 1]
      BY <2>1, <2>3, <2>4, <3>3, <3>4
    <3>. QED
      BY <2>5, <3>3, <3>5, Zenon
  <2>6. CASE o \notin offset..(offset + n - 1)
    <3>1. CASE o \div PageSize # Index
      BY <2>1, <2>2, <2>3, <2>6, <3>1, Zenon
    <3>2. CASE o \div PageSize = Index
      <4>1. o - offset = (o % PageSize) - po
        BY <3>2, <2>1, <1>3, PageDistance, Zenon DEF Index
      <4>. HIDE DEF po, n
      <4>2. o % PageSize \notin po..(po + n - 1)
        <5>. DEFINE m == o % PageSize
        <5>1. m \in Nat /\ po \in Nat /\ n \in Nat /\ o - offset = m - po
          BY <2>1, <1>2, <4>1, VmAreaAssumption
        <5>. HIDE DEF m
        <5>2. m \notin po..(po + n - 1)
          BY <5>1, <2>1, <1>3, <2>6
        <5>. QED
          BY <5>2, Zenon DEF m
      <4>3. PageByte(pages'[Index], o % PageSize) = Filled(Index)[Index][o % PageSize]
        BY <2>1, <2>3, <2>4, <4>2, Zenon
      <4>4. /\ PageByte(Filled(Index)[Index], o % PageSize) = PageByte(pages[Index], o % PageSize)
            /\ Filled(Index)[Index] # None
        BY <1>1, <1>2, <2>1, FillingUnseen, FilledType, NoneIsNoPage, Zenon
      <4>. QED
        BY <2>2, <2>6, <3>2, <4>3, <4>4, Zenon DEF PageByte
    <3>. QED
      BY <3>1, <3>2, Zenon
  <2>. QED
    BY <2>5, <2>6, Zenon
<1>. HIDE DEF n
<1>7. Contents' = [o \in 0..(Length - 1) |-> after(o)]
  BY <1>5, <1>6, Zenon
<1>. QED
  BY <1>4, <1>7, Zenon DEF n
\* An iteration of read() copies the bytes of its range and changes none.
LEMMA ReadCopiesOut ==
    ASSUME AreaTypeOK, ReadPage
    PROVE  /\ Contents' = Contents
           /\ buf' = buf \o [k \in 1..CopyLen |-> Contents[offset + k - 1]]
<1>. DEFINE po == offset % PageSize
            n == CopyLen
<1>1. /\ data # <<>> /\ CanFill(Index) /\ pages' = Filled(Index)
      /\ buf' = buf \o [k \in 1..n |-> pages'[Index][po + k - 1]]
  BY Zenon DEF ReadPage
<1>2. /\ Len(data) \in Nat /\ n \in 1..Len(data) /\ n <= PageSize - po
      /\ po \in 0..(PageSize - 1) /\ Index \in Indices
  BY <1>1, CopyLenType, Zenon
<1>3. offset \in Nat /\ Length \in Nat /\ offset + Len(data) <= Length
  BY VmAreaAssumption DEF AreaTypeOK
<1>4. Contents' = Contents
  BY <1>1, <1>2, FillKeepsContents, Zenon
<1>5. ASSUME NEW k \in 1..n
      PROVE  pages'[Index][po + k - 1] = Contents[offset + k - 1]
  <2>. HIDE DEF po, n
  <2>1. /\ k - 1 \in Nat /\ k - 1 < PageSize - po
        /\ offset + (k - 1) = offset + k - 1 /\ po + (k - 1) = po + k - 1
        /\ offset + k - 1 \in 0..(Length - 1)
    BY <1>2, <1>3, VmAreaAssumption
  <2>2. (offset + k - 1) \div PageSize = Index /\ (offset + k - 1) % PageSize = po + k - 1
    <3>1. /\ (offset + (k - 1)) \div PageSize = offset \div PageSize
          /\ (offset + (k - 1)) % PageSize = (offset % PageSize) + (k - 1)
      BY <2>1, <1>3, SamePage, Zenon DEF po
    <3>. QED
      BY <3>1, <2>1, Zenon DEF Index, po
  <2>3. po + k - 1 \in 0..(PageSize - 1)
    BY <1>2, <2>1, VmAreaAssumption
  <2>4. Contents[offset + k - 1] = PageByte(pages[Index], po + k - 1)
    BY <2>1, <2>2, ContentsByte, Zenon
  <2>5. /\ PageByte(Filled(Index)[Index], po + k - 1) = PageByte(pages[Index], po + k - 1)
        /\ Filled(Index)[Index] # None
    BY <1>1, <1>2, <2>3, FillingUnseen, FilledType, NoneIsNoPage, Zenon
  <2>. QED
    BY <1>1, <2>4, <2>5, Zenon DEF PageByte
<1>6. [k \in 1..n |-> pages'[Index][po + k - 1]] = [k \in 1..n |-> Contents[offset + k - 1]]
  BY <1>5, Zenon
<1>. QED
  BY <1>1, <1>4, <1>6, Zenon

\* A VmArea implements a flat zeroed array, for every page size and length, however its
\* pages are filled and whenever the page allocator runs out.
THEOREM AreaRefinement == AreaSpec => ImplementsFlatMemory
<1>1. AreaInit => Flat!Init
  <2>. SUFFICES ASSUME AreaInit PROVE Flat!Init
    BY Zenon
  <2>1. pages = [k \in Indices |-> None]
    BY Zenon DEF AreaInit
  <2>2. \A o \in 0..(Length - 1) : PageByte(pages[o \div PageSize], o % PageSize) = Zero
    BY <2>1, Located, Zenon DEF PageByte
  <2>3. Contents = [o \in 0..(Length - 1) |-> Zero]
    BY <2>2, ContentsByte, Zenon
  <2>. QED
    BY <2>3, Zenon DEF AreaInit, Flat!Init
<1>2. AreaTypeOK /\ [AreaNext]_areaVars => [Flat!Next]_(Flat!vars)
  <2>. SUFFICES ASSUME AreaTypeOK, [AreaNext]_areaVars PROVE Flat!Next \/ UNCHANGED Flat!vars
    BY Zenon
  <2>1. ASSUME NEW c \in {"write", "read"}, NEW o \in 0..MaxUsize, NEW d \in Buffers,
               Begin(c, o, d)
        PROVE  Flat!Next
    <3>1. Len(d) \in Nat /\ o \in Nat /\ Length \in Nat /\ MaxUsize \in Nat
      BY SeqTyped, VmAreaAssumption
    <3>2. InBounds(o, d) <=> o + Len(d) <= Length
      BY <3>1, VmAreaAssumption DEF InBounds
    <3>3. o + Len(d) <= Length \/ o + Len(d) > Length
      BY <3>1
    <3>4. Contents' = Contents
      BY <2>1, Zenon DEF Begin, Contents
    <3>5. Flat!Begin(o, d)
      BY <2>1, <3>1, <3>2, <3>3, <3>4, Zenon DEF Begin, Flat!Begin
    <3>. QED
      BY <3>5, Zenon DEF Flat!Next
  <2>2. CASE WritePage
    <3>1. data # <<>> /\ Advance /\ call = "write" /\ buf' = buf
      BY <2>2, Zenon DEF WritePage
    <3>2. CopyLen \in 1..Len(data)
      BY <3>1, CopyLenType, Zenon
    <3>3. Flat!CopyIn(CopyLen)
      BY <2>2, <3>1, WriteCopiesIn, Zenon DEF Flat!CopyIn
    <3>4. Flat!Copy
      BY <3>1, <3>2, <3>3, Zenon DEF Flat!Copy, Advance
    <3>. QED
      BY <3>4, Zenon DEF Flat!Next
  <2>3. CASE ReadPage
    <3>1. data # <<>> /\ Advance /\ call = "read"
      BY <2>3, Zenon DEF ReadPage
    <3>2. CopyLen \in 1..Len(data)
      BY <3>1, CopyLenType, Zenon
    <3>3. Flat!CopyOut(CopyLen)
      BY <2>3, <3>1, ReadCopiesOut, Zenon DEF Flat!CopyOut
    <3>4. Flat!Copy
      BY <3>1, <3>2, <3>3, Zenon DEF Flat!Copy, Advance
    <3>. QED
      BY <3>4, Zenon DEF Flat!Next
  <2>4. CASE Return
    <3>1. Contents' = Contents
      BY <2>4, Zenon DEF Return, Contents
    <3>2. Flat!End
      BY <2>4, <3>1, Zenon DEF Return, Flat!End
    <3>. QED
      BY <3>2, Zenon DEF Flat!Next
  <2>5. ASSUME NEW i \in Indices, ensure_page(i) PROVE UNCHANGED Flat!vars
    <3>1. Contents' = Contents
      BY <2>5, FillKeepsContents, Zenon DEF ensure_page
    <3>. QED
      BY <2>5, <3>1, Zenon DEF ensure_page, callVars, Flat!vars
  <2>6. CASE UNCHANGED areaVars
    BY <2>6, Zenon DEF areaVars, callVars, Contents, Flat!vars
  <2>. QED
    BY <2>1, <2>2, <2>3, <2>4, <2>5, <2>6, Zenon DEF AreaNext
<1>. QED
  BY <1>1, <1>2, AreaTypeCorrect, PTL DEF AreaSpec, ImplementsFlatMemory, Flat!Spec

-------------------------------------------------------------------------------
(* The nodes of the free list of Heap                                         *)

INSTANCE FiniteSetTheorems
INSTANCE WellFoundedInduction

\* A set of naturals that is not empty has a least element: what an induction needs.
LEMMA Least ==
    ASSUME NEW T \in SUBSET Nat, T # {}
    PROVE  \E n \in T : \A m \in T : n <= m
<1>. DEFINE UpTo(n) == 0..n
            Intervals == {UpTo(n) : n \in T}
<1>1. Intervals \subseteq FiniteSubsetsOf(Nat)
  <2>. SUFFICES ASSUME NEW n \in T PROVE UpTo(n) \in SUBSET Nat /\ IsFiniteSet(UpTo(n))
    BY DEF FiniteSubsetsOf
  <2>. QED
    BY FS_Interval
<1>2. Intervals # {}
  BY Zenon
<1>3. PICK J \in Intervals :
        \A K \in Intervals : ~(<<K, J>> \in StrictSubsetOrdering(Nat))
  BY <1>1, <1>2, WFMin, FS_StrictSubsetOrderingWellFounded, Zenon
<1>4. PICK n \in T : J = UpTo(n)
  OBVIOUS
<1>5. ASSUME NEW m \in T, m < n PROVE FALSE
  <2>1. /\ UpTo(m) \in SUBSET Nat /\ UpTo(n) \in SUBSET Nat
        /\ UpTo(m) \subseteq UpTo(n) /\ UpTo(m) # UpTo(n)
    BY <1>5
  <2>. HIDE DEF UpTo
  <2>2. <<UpTo(m), UpTo(n)>> \in StrictSubsetOrdering(Nat)
    BY <2>1, Zenon DEF StrictSubsetOrdering
  <2>. QED
    BY <1>3, <1>4, <2>2
<1>. QED
  BY <1>5

FiniteHeaders == IsFiniteSet(Addrs)

\* No step writes more than one new header.
LEMMA HeadersFinite == Spec => []FiniteHeaders
<1>1. Init => FiniteHeaders
  <2>1. Init => Addrs = {}
    BY DEF Init, Addrs
  <2>. QED
    BY <2>1, FS_EmptySet, Zenon DEF FiniteHeaders
<1>2. FiniteHeaders /\ [Next]_vars => FiniteHeaders'
  <2>. SUFFICES ASSUME FiniteHeaders, [Next]_vars PROVE FiniteHeaders'
    BY Zenon
  <2>1. \E x : Addrs' = Addrs \/ Addrs' = Addrs \cup {x}
    <3>1. CASE UNCHANGED headers
      BY <3>1 DEF Addrs
    <3>2. CASE Take
      BY <3>2, Zenon DEF Take, Unlink, Addrs
    <3>3. CASE Grow
      BY <3>3, Zenon DEF Grow, Addrs
    <3>4. ASSUME NEW l \in live, Free(l) PROVE Addrs' = Addrs
      BY <3>4 DEF Free, Addrs
    <3>5. UNCHANGED headers \/ Take \/ Grow \/ \E l \in live : Free(l)
      BY DEF Next, Alloc, Walk, WalkEnd, OutOfMemory, NewChunkFails, Panicked, vars
    <3>. QED
      BY <3>1, <3>2, <3>3, <3>4, <3>5
  <2>. QED
    BY <2>1, FS_AddElement DEF FiniteHeaders
<1>. QED
  BY <1>1, <1>2, PTL DEF Spec

\* The link behind node a, NULL behind the end.
Behind(a) == IF a = NULL THEN NULL ELSE headers[a].next

\* Every place of an order below the head's is taken by a header.
LEMMA PlacesTaken ==
    ASSUME TypeOK, NEW r \in [FreeHeaders -> Nat], ListOrder(r), head # NULL,
           NEW k \in 0..r[head]
    PROVE  \E a \in FreeHeaders : r[a] = r[head] - k
<1>. DEFINE n == r[head]
            Bad == {i \in 0..n : ~\E a \in FreeHeaders : r[a] = n - i}
<1>0. head \in FreeHeaders /\ n \in Nat
  BY DEF ListOrder
<1>1. SUFFICES ASSUME Bad # {} PROVE FALSE
  OBVIOUS
<1>2. PICK i \in Bad : \A j \in Bad : i <= j
  <2>1. Bad \in SUBSET Nat
    BY <1>0
  <2>. HIDE DEF Bad
  <2>. QED
    BY <1>1, <2>1, Least, Zenon
<1>3. i # 0
  BY <1>0
<1>4. i - 1 \in 0..n /\ i - 1 \notin Bad
  BY <1>0, <1>2, <1>3
<1>5. PICK a \in FreeHeaders : r[a] = n - (i - 1)
  BY <1>4
<1>6. headers[a].next \in FreeHeaders /\ r[headers[a].next] = r[a] - 1
  <2>1. r[a] # 0
    BY <1>0, <1>3, <1>5
  <2>. QED
    BY <2>1 DEF ListOrder
<1>. QED
  BY <1>0, <1>5, <1>6

\* The free headers are found at the first places of the list, NULL behind them.
LEMMA ListPlaces ==
    ASSUME TypeOK, FiniteHeaders, Listed
    PROVE  \E w \in [0..Cardinality(Addrs) -> FreeHeaders \cup {NULL}] :
               /\ w[0] = head
               /\ \A k \in 1..Cardinality(Addrs) : w[k] = Behind(w[k - 1])
               /\ w[Cardinality(Addrs)] = NULL
               /\ \A a \in FreeHeaders : \E k \in 0..Cardinality(Addrs) : w[k] = a
<1>. DEFINE N == Cardinality(Addrs)
<1>0. N \in Nat /\ FreeHeaders \subseteq Addrs /\ NULL \notin FreeHeaders
  BY FS_CardinalityType DEF FiniteHeaders, FreeHeaders, TypeOK
<1>1. CASE head = NULL
  <2>1. FreeHeaders = {}
    BY <1>1 DEF Listed, ListOrder
  <2>. DEFINE w == [k \in 0..N |-> NULL]
  <2>2. w \in [0..N -> FreeHeaders \cup {NULL}] /\ w[0] = head /\ w[N] = NULL
    BY <1>0, <1>1
  <2>3. \A k \in 1..N : w[k] = Behind(w[k - 1])
    BY <1>0 DEF Behind
  <2>. HIDE DEF w
  <2>. QED
    BY <2>1, <2>2, <2>3, Zenon
<1>2. CASE head # NULL
  <2>1. PICK r \in [FreeHeaders -> Nat] : ListOrder(r)
    BY DEF Listed
  <2>. DEFINE n == r[head]
  <2>2. head \in FreeHeaders /\ n \in Nat /\ \A a \in FreeHeaders : r[a] \in 0..n
    BY <1>2, <2>1 DEF ListOrder
  <2>. DEFINE At(k) == CHOOSE a \in FreeHeaders : r[a] = n - k
  <2>3. \A k \in 0..n : At(k) \in FreeHeaders /\ r[At(k)] = n - k
    BY <1>2, <2>1, PlacesTaken
  <2>. HIDE DEF At
  <2>4. n < N
    <3>. DEFINE f == [k \in 0..n |-> At(k)]
    <3>1. f \in Injection(0..n, Addrs)
      <4>1. f \in [0..n -> Addrs]
        BY <1>0, <2>3
      <4>2. ASSUME NEW i \in 0..n, NEW j \in 0..n, f[i] = f[j] PROVE i = j
        BY <2>2, <2>3, <4>2
      <4>. HIDE DEF f
      <4>. QED
        BY <4>1, <4>2 DEF Injection, IsInjective
    <3>. HIDE DEF f
    <3>2. Cardinality(0..n) <= N
      BY <3>1, FS_Injection DEF FiniteHeaders
    <3>. QED
      BY <1>0, <2>2, <3>2, FS_Interval
  <2>. DEFINE w == [k \in 0..N |-> IF k <= n THEN At(k) ELSE NULL]
  <2>5. w \in [0..N -> FreeHeaders \cup {NULL}]
    BY <1>0, <2>2, <2>3
  <2>6. w[0] = head
    BY <1>0, <2>1, <2>2, <2>3 DEF ListOrder
  <2>7. w[N] = NULL
    BY <1>0, <2>2, <2>4
  <2>8. ASSUME NEW k \in 1..N PROVE w[k] = Behind(w[k - 1])
    <3>1. CASE k <= n
      <4>1. r[At(k - 1)] = n - (k - 1) /\ At(k - 1) \in FreeHeaders
        BY <2>2, <2>3, <3>1
      <4>2. headers[At(k - 1)].next \in FreeHeaders /\ r[headers[At(k - 1)].next] = n - k
        <5>1. r[At(k - 1)] # 0 /\ r[At(k - 1)] - 1 = n - k
          BY <2>2, <3>1, <4>1
        <5>. QED
          BY <2>1, <4>1, <5>1 DEF ListOrder
      <4>3. At(k) = headers[At(k - 1)].next
        <5>1. At(k) \in FreeHeaders /\ r[At(k)] = n - k
          BY <2>2, <2>3, <3>1
        <5>. QED
          BY <2>1, <4>2, <5>1 DEF ListOrder
      <4>. QED
        BY <1>0, <2>2, <3>1, <4>1, <4>3 DEF Behind
    <3>2. CASE k = n + 1
      <4>1. r[At(n)] = 0 /\ At(n) \in FreeHeaders
        BY <2>2, <2>3
      <4>2. headers[At(n)].next = NULL
        BY <2>1, <4>1 DEF ListOrder
      <4>. QED
        BY <1>0, <2>2, <3>2, <4>1, <4>2 DEF Behind
    <3>3. CASE k > n + 1
      BY <1>0, <2>2, <3>3 DEF Behind
    <3>. QED
      BY <1>0, <2>2, <3>1, <3>2, <3>3
  <2>9. ASSUME NEW a \in FreeHeaders PROVE \E k \in 0..N : w[k] = a
    <3>1. n - r[a] \in 0..n /\ n - r[a] \in 0..N /\ n - (n - r[a]) = r[a]
      BY <1>0, <2>2, <2>4
    <3>2. At(n - r[a]) = a
      BY <2>1, <2>3, <3>1 DEF ListOrder
    <3>. QED
      BY <2>2, <3>1, <3>2
  <2>. HIDE DEF w
  <2>. QED
    BY <2>5, <2>6, <2>7, <2>8, <2>9, Zenon
<1>. QED
  BY <1>1, <1>2

\* Two functions that follow the links from head are equal.
LEMMA WalksEqual ==
    ASSUME NEW N \in Nat, NEW f, NEW g,
           f = [k \in 0..N |-> IF k = 0 THEN head ELSE Behind(f[k - 1])],
           g = [k \in 0..N |-> IF k = 0 THEN head ELSE Behind(g[k - 1])]
    PROVE  f = g
<1>. DEFINE Bad == {k \in 0..N : f[k] # g[k]}
<1>1. SUFFICES ASSUME Bad # {} PROVE FALSE
  <2>1. \A k \in 0..N : f[k] = g[k]
    BY <1>1, Zenon
  <2>. QED
    BY <2>1
<1>2. PICK k \in Bad : \A j \in Bad : k <= j
  <2>1. Bad \in SUBSET Nat
    OBVIOUS
  <2>. HIDE DEF Bad
  <2>. QED
    BY <1>1, <2>1, Least, Zenon
<1>3. ASSUME NEW h, h = [i \in 0..N |-> IF i = 0 THEN head ELSE Behind(h[i - 1])]
      PROVE  h[0] = head /\ \A i \in 1..N : h[i] = Behind(h[i - 1])
  <2>1. \A i \in 0..N : h[i] = IF i = 0 THEN head ELSE Behind(h[i - 1])
    BY <1>3, Zenon
  <2>. QED
    BY <2>1
<1>4. f[0] = g[0] /\ \A i \in 1..N : f[i - 1] = g[i - 1] => f[i] = g[i]
  BY <1>3, ZenonT(60)
<1>5. k \in 0..N /\ f[k] # g[k]
  BY Zenon
<1>6. k \in 1..N /\ k - 1 \in 0..N
  <2>1. k # 0
    BY <1>4, <1>5, Zenon
  <2>2. N \in Nat
    OBVIOUS
  <2>. QED
    BY ONLY <1>5, <2>1, <2>2
<1>7. k - 1 \notin Bad
  <2>. HIDE DEF Bad
  <2>. QED
    BY ONLY <1>2, <1>6
<1>. QED
  BY <1>4, <1>5, <1>6, <1>7, Zenon

\* For every chunk and header size the free list, followed from head, ends, visits every
\* header marked free and no other: malloc and free lose and repeat none.
THEOREM HeapListExact == Spec => []FreeListExact
<1>1. IInv /\ FiniteHeaders => FreeListExact
  <2>. SUFFICES ASSUME IInv, FiniteHeaders PROVE FreeListExact
    OBVIOUS
  <2>. DEFINE N == Cardinality(Addrs)
  <2>0. N \in Nat
    BY FS_CardinalityType DEF FiniteHeaders
  <2>1. PICK w \in [0..N -> FreeHeaders \cup {NULL}] :
          /\ w[0] = head
          /\ \A k \in 1..N : w[k] = Behind(w[k - 1])
          /\ w[N] = NULL
          /\ \A a \in FreeHeaders : \E k \in 0..N : w[k] = a
    BY ListPlaces DEF IInv
  <2>2. w = [k \in 0..N |-> IF k = 0 THEN head ELSE Behind(w[k - 1])]
    BY <2>0, <2>1
  <2>3. FreeList = CHOOSE f : f = [k \in 0..N |-> IF k = 0 THEN head ELSE Behind(f[k - 1])]
    BY DEF FreeList, Behind
  <2>4. FreeList = [k \in 0..N |-> IF k = 0 THEN head ELSE Behind(FreeList[k - 1])]
    BY <2>2, <2>3, Zenon
  <2>5. FreeList = w
    BY ONLY <2>0, <2>2, <2>4, WalksEqual, SMTT(60)
  <2>6. NULL \notin FreeHeaders
    BY Zenon DEF IInv, TypeOK, FreeHeaders
  <2>. QED
    BY <2>0, <2>1, <2>5, <2>6 DEF FreeListExact
<1>. QED
  BY <1>1, Inductive, HeadersFinite, PTL

-------------------------------------------------------------------------------
(* SharedRef                                                                  *)

Places == {Nowhere, Leaked} \cup [kind : {"ref", "handle"}, at : CPUs \cup {Queue}]

RefTypeOK ==
    /\ place \in [Refs -> Places]
    /\ counter \in Nat /\ freed \in BOOLEAN
    /\ drop_pc \in [CPUs -> {"idle", "fence", "free"}]
    /\ owner \in CPUs \cup {Nobody}
    /\ seen \in [CPUs -> SUBSET All]
    /\ counterView \in SUBSET All /\ lockView \in SUBSET All

\* What the next CPU to have the container knows
Held == IF owner = Nobody THEN lockView ELSE seen[owner]

\* What is known where a reference is; a leaked one keeps the object alive for ever.
Known(p, s, h) == IF p.at \in CPUs THEN s[p.at] ELSE IF p.at = Queue THEN h ELSE All

Carried ==
    \A d \in CPUs :
        \/ <<d, "object">> \in counterView
        \/ \E r \in Refs : place[r] # Nowhere /\ <<d, "object">> \in Known(place[r], seen, Held)

QueueKnown == \A d \in CPUs : <<d, "queue">> \in Held

RefInv == RefTypeOK /\ CounterExact /\ Carried /\ QueueKnown /\ FreeOrdered

-------------------------------------------------------------------------------
(* The counter                                                                *)

LEMMA LiveFinite == IsFiniteSet(Live) /\ Cardinality(Live) \in Nat
<1>1. Live \subseteq Refs
  BY DEF Live
<1>. QED
  BY <1>1, RefsAssumption, FS_Subset, FS_CardinalityType

LEMMA LiveEmpty == Cardinality(Live) = 0 <=> Live = {}
BY LiveFinite, FS_EmptySet

\* A step that changes neither what is live nor drop's state keeps the count exact.
LEMMA CounterKept ==
    ASSUME CounterExact, Live' = Live, UNCHANGED <<counter, freed, drop_pc>>
    PROVE  CounterExact'
BY DEF CounterExact

LEMMA HolderLive ==
    ASSUME RefTypeOK, NEW c \in CPUs, NEW r \in Refs, place[r].at = c
    PROVE  /\ r \in Live /\ place[r] # Leaked
           /\ place[r] \in [kind : {"ref", "handle"}, at : CPUs \cup {Queue}]
BY PlacesAssumption DEF RefTypeOK, Live, Places, Nowhere, Leaked

\* As long as a reference is there, nobody is dropping the last one.
LEMMA AliveWhileHeld ==
    ASSUME RefInv, NEW r \in Live
    PROVE  ~freed /\ \A c \in CPUs : drop_pc[c] = "idle"
BY DEF RefInv, CounterExact

LEMMA CloneCounter ==
    ASSUME RefInv, NEW c \in CPUs, NEW r \in Refs, NEW q \in Live, Clone(c, r)
    PROVE  CounterExact'
<1>1. Live' = Live \cup {r} /\ r \notin Live
  <2>1. [kind |-> "ref", at |-> c] # Nowhere
    BY DEF Nowhere
  <2>2. \A x \in Refs : place'[x] = IF x = r THEN [kind |-> "ref", at |-> c] ELSE place[x]
    BY DEF Clone, RefInv, RefTypeOK
  <2>. QED
    BY <2>1, <2>2 DEF Live, Clone
<1>2. Cardinality(Live') = Cardinality(Live) + 1
  BY <1>1, LiveFinite, FS_AddElement
<1>. QED
  BY <1>1, <1>2, AliveWhileHeld DEF RefInv, CounterExact, Clone

LEMMA DropCounter ==
    ASSUME RefInv, NEW c \in CPUs, NEW r \in Refs, Drop(c, r)
    PROVE  CounterExact'
<1>0. r \in Live
  BY HolderLive DEF Drop, Holds, RefInv
<1>1. Live' = Live \ {r}
  <2>2. \A x \in Refs : place'[x] = IF x = r THEN Nowhere ELSE place[x]
    BY DEF Drop, RefInv, RefTypeOK
  <2>. QED
    BY <2>2 DEF Live
<1>2. Cardinality(Live') = Cardinality(Live) - 1 /\ IsFiniteSet(Live')
  BY <1>0, <1>1, LiveFinite, FS_RemoveElement
<1>3. Cardinality(Live') = 0 <=> Live' = {}
  BY <1>2, FS_EmptySet, Zenon
<1>4. counter = Cardinality(Live) /\ counter \in Nat
  BY DEF RefInv, CounterExact, RefTypeOK
<1>5. counter' = Cardinality(Live') /\ (counter = 1 <=> Live' = {})
  BY <1>2, <1>3, <1>4 DEF Drop
<1>6. ~freed /\ \A d \in CPUs : drop_pc[d] = "idle"
  BY <1>0, AliveWhileHeld
<1>7. /\ ~freed'
      /\ \A d \in CPUs : drop_pc'[d] = IF d = c /\ counter = 1 THEN "fence" ELSE "idle"
  BY <1>6 DEF Drop, RefInv, RefTypeOK
<1>. QED
  BY <1>5, <1>7 DEF CounterExact

-------------------------------------------------------------------------------
(* What is known                                                              *)

\* After c has accessed loc, all that was known before still is, but about c and loc.
LEMMA AccessKeeps ==
    ASSUME RefTypeOK, NEW c \in CPUs, NEW loc \in {"object", "queue"},
           seen' = SeenAfter(c, loc), lockView' = Forget(lockView, c, loc), owner' = owner,
           NEW d \in CPUs, NEW o \in {"object", "queue"}, <<d, o>> # <<c, loc>>
    PROVE  /\ \A x \in CPUs : <<d, o>> \in seen[x] => <<d, o>> \in seen'[x]
           /\ <<d, o>> \in Held => <<d, o>> \in Held'
<1>1. \A x \in CPUs : <<d, o>> \in seen[x] => <<d, o>> \in seen'[x]
  BY DEF RefTypeOK, SeenAfter, Forget
<1>2. <<d, o>> \in lockView => <<d, o>> \in lockView'
  BY DEF Forget
<1>. QED
  BY <1>1, <1>2 DEF Held, RefTypeOK

\* Who accesses the container has the lock, and so knows of its own access.
LEMMA QueueAccess ==
    ASSUME RefInv, NEW c \in CPUs, Access(c)
    PROVE  QueueKnown'
<1>. SUFFICES ASSUME NEW d \in CPUs PROVE <<d, "queue">> \in Held'
  BY ZenonT(60) DEF QueueKnown
<1>1. CASE d = c
  <2>1. seen'[c] = seen[c] \cup {<<c, "queue">>} /\ owner' = c
    BY DEF Access, SeenAfter
  <2>. QED
    BY <1>1, <2>1, PlacesAssumption DEF Held
<1>2. CASE d # c
  <2>1. <<d, "queue">> # <<c, "queue">>
    BY <1>2
  <2>. QED
    BY <2>1, AccessKeeps, Zenon DEF Access, RefInv, QueueKnown
<1>. QED
  BY <1>1, <1>2

LEMMA ObjectAccess ==
    ASSUME RefInv, NEW c \in CPUs, seen' = SeenAfter(c, "object"),
           lockView' = Forget(lockView, c, "object"), owner' = owner
    PROVE  /\ QueueKnown'
           /\ \A d \in CPUs \ {c} :
                  /\ \A x \in CPUs : <<d, "object">> \in seen[x] => <<d, "object">> \in seen'[x]
                  /\ <<d, "object">> \in Held => <<d, "object">> \in Held'
           /\ <<c, "object">> \in seen'[c]
<1>1. QueueKnown'
  <2>. SUFFICES ASSUME NEW d \in CPUs PROVE <<d, "queue">> \in Held'
    BY Zenon DEF QueueKnown
  <2>1. <<d, "queue">> # <<c, "object">>
    OBVIOUS
  <2>. QED
    BY <2>1, AccessKeeps, Zenon DEF RefInv, QueueKnown
<1>2. ASSUME NEW d \in CPUs \ {c}
      PROVE  /\ \A x \in CPUs : <<d, "object">> \in seen[x] => <<d, "object">> \in seen'[x]
             /\ <<d, "object">> \in Held => <<d, "object">> \in Held'
  <2>1. <<d, "object">> # <<c, "object">>
    OBVIOUS
  <2>. QED
    BY <2>1, AccessKeeps, Zenon DEF RefInv
<1>3. <<c, "object">> \in seen'[c]
  BY DEF SeenAfter
<1>. QED
  BY <1>1, <1>2, <1>3

\* What is known of d stays known where a reference stays.
LEMMA KnownKept ==
    ASSUME NEW d, NEW p \in Places, NEW s, NEW h, NEW s1, NEW h1,
           \A x \in CPUs : d \in s[x] => d \in s1[x],
           d \in h => d \in h1, d \in Known(p, s, h)
    PROVE  d \in Known(p, s1, h1)
BY DEF Known

-------------------------------------------------------------------------------
(* The actions                                                                *)

LEMMA DerefPreserves ==
    ASSUME RefInv, NEW c \in CPUs, Deref(c)
    PROVE  RefInv'
<1>. PICK q \in Refs : place[q] = [kind |-> "ref", at |-> c]
  BY DEF Deref, Holds
<1>1. q \in Live
  BY HolderLive DEF RefInv
<1>2. RefTypeOK'
  BY DEF RefInv, RefTypeOK, Deref, SeenAfter, Forget, All
<1>3. CounterExact'
  BY CounterKept, ZenonT(60) DEF RefInv, Deref, Live
<1>4. /\ QueueKnown'
      /\ \A d \in CPUs \ {c} :
             /\ \A x \in CPUs : <<d, "object">> \in seen[x] => <<d, "object">> \in seen'[x]
             /\ <<d, "object">> \in Held => <<d, "object">> \in Held'
      /\ <<c, "object">> \in seen'[c]
  BY ObjectAccess, ZenonT(60) DEF Deref
<1>5. FreeOrdered'
  BY <1>1, AliveWhileHeld, ZenonT(60) DEF FreeOrdered, Deref
<1>6. ASSUME NEW d \in CPUs
      PROVE  \/ <<d, "object">> \in counterView'
             \/ \E r \in Refs : place'[r] # Nowhere /\ <<d, "object">> \in Known(place'[r], seen', Held')
  <2>1. CASE d = c
    <3>1. place[q].at = c
      BY ONLY place[q] = [kind |-> "ref", at |-> c]
    <3>2. place'[q].at = c /\ place'[q] # Nowhere
      BY <1>1, <3>1, Zenon DEF Deref, Live
    <3>. QED
      BY <2>1, <3>2, <1>4, ZenonT(60) DEF Known
  <2>2. CASE d # c /\ <<d, "object">> \in counterView
    BY <2>2, ZenonT(60) DEF Deref, Forget
  <2>3. CASE d # c /\ <<d, "object">> \notin counterView
    <3>1. PICK r \in Refs : place[r] # Nowhere /\ <<d, "object">> \in Known(place[r], seen, Held)
      BY <2>3 DEF RefInv, Carried
    <3>2. place'[r] = place[r] /\ place[r] \in Places
      BY DEF Deref, RefInv, RefTypeOK
    <3>3. <<d, "object">> \in Known(place[r], seen', Held')
      BY <2>3, <1>4, <3>1, <3>2, KnownKept, ZenonT(60)
    <3>. QED
      BY <3>1, <3>2, <3>3, Zenon
  <2>. QED
    BY <2>1, <2>2, <2>3, ZenonT(60)
<1>7. Carried'
  BY <1>6, ZenonT(60) DEF Carried
<1>. QED
  BY <1>2, <1>3, <1>4, <1>5, <1>7, ZenonT(60) DEF RefInv

LEMMA ClonePreserves ==
    ASSUME RefInv, NEW c \in CPUs, NEW n \in Refs, NEW q \in Live, Clone(c, n)
    PROVE  RefInv'
<1>1. \A x \in Refs : place'[x] = IF x = n THEN [kind |-> "ref", at |-> c] ELSE place[x]
  BY DEF Clone, RefInv, RefTypeOK
<1>2. RefTypeOK'
  BY DEF RefInv, RefTypeOK, Clone, SeenAfter, Forget, All, Places
<1>3. CounterExact'
  BY CloneCounter
<1>4. /\ QueueKnown'
      /\ \A d \in CPUs \ {c} :
             /\ \A x \in CPUs : <<d, "object">> \in seen[x] => <<d, "object">> \in seen'[x]
             /\ <<d, "object">> \in Held => <<d, "object">> \in Held'
      /\ <<c, "object">> \in seen'[c]
  BY ObjectAccess, ZenonT(60) DEF Clone
<1>5. FreeOrdered'
  BY AliveWhileHeld, ZenonT(60) DEF FreeOrdered, Clone
<1>6. ASSUME NEW d \in CPUs
      PROVE  \/ <<d, "object">> \in counterView'
             \/ \E r \in Refs : place'[r] # Nowhere /\ <<d, "object">> \in Known(place'[r], seen', Held')
  <2>1. CASE d = c
    <3>1. place'[n].at = c /\ place'[n] # Nowhere
      BY <1>1 DEF Nowhere
    <3>. QED
      BY <2>1, <3>1, <1>4, ZenonT(60) DEF Known
  <2>2. CASE d # c /\ <<d, "object">> \in counterView
    BY <2>2 DEF Clone, Forget
  <2>3. CASE d # c /\ <<d, "object">> \notin counterView
    <3>1. PICK r \in Refs : place[r] # Nowhere /\ <<d, "object">> \in Known(place[r], seen, Held)
      BY <2>3 DEF RefInv, Carried
    <3>2. place'[r] = place[r] /\ place[r] \in Places
      BY <1>1, <3>1 DEF Clone, RefInv, RefTypeOK
    <3>3. <<d, "object">> \in Known(place[r], seen', Held')
      BY <2>3, <1>4, <3>1, <3>2, KnownKept
    <3>. QED
      BY <3>1, <3>2, <3>3, ZenonT(60)
  <2>. QED
    BY <2>1, <2>2, <2>3
<1>7. Carried'
  BY <1>6, ZenonT(60) DEF Carried
<1>. QED
  BY <1>2, <1>3, <1>4, <1>5, <1>7, ZenonT(60) DEF RefInv

\* The dropped reference leaves what its holder knows with the counter.
LEMMA DropPreserves ==
    ASSUME RefInv, NEW c \in CPUs, NEW n \in Refs, Drop(c, n)
    PROVE  RefInv'
<1>0. place[n] = [kind |-> "ref", at |-> c] /\ n \in Live
  BY HolderLive DEF Drop, Holds, RefInv
<1>1. \A x \in Refs : place'[x] = IF x = n THEN Nowhere ELSE place[x]
  BY DEF Drop, RefInv, RefTypeOK
<1>2. RefTypeOK'
  <2>1. counter' \in Nat
    <3>1. counter # 0
      BY <1>0, LiveEmpty, ZenonT(60) DEF RefInv, CounterExact
    <3>. QED
      BY <3>1 DEF Drop, RefInv, RefTypeOK
  <2>2. place' \in [Refs -> Places]
    BY DEF Drop, RefInv, RefTypeOK, Places
  <2>3. seen' \in [CPUs -> SUBSET All] /\ counterView' \in SUBSET All /\ lockView' \in SUBSET All
    BY DEF Drop, RefInv, RefTypeOK, SeenAfter, Forget, ReleaseCounter, All
  <2>. QED
    BY <2>1, <2>2, <2>3 DEF Drop, RefInv, RefTypeOK
<1>3. CounterExact'
  BY DropCounter
<1>4. /\ QueueKnown'
      /\ \A d \in CPUs \ {c} :
             /\ \A x \in CPUs : <<d, "object">> \in seen[x] => <<d, "object">> \in seen'[x]
             /\ <<d, "object">> \in Held => <<d, "object">> \in Held'
      /\ <<c, "object">> \in seen'[c]
  BY ObjectAccess, ZenonT(60) DEF Drop
<1>5. FreeOrdered'
  BY <1>0, AliveWhileHeld, ZenonT(60) DEF FreeOrdered, Drop, RefInv, RefTypeOK
<1>6. ASSUME NEW d \in CPUs
      PROVE  \/ <<d, "object">> \in counterView'
             \/ \E r \in Refs : place'[r] # Nowhere /\ <<d, "object">> \in Known(place'[r], seen', Held')
  <2>1. CASE d = c \/ <<d, "object">> \in counterView
    BY <2>1 DEF Drop, ReleaseCounter
  <2>2. CASE d # c /\ <<d, "object">> \notin counterView
    <3>1. PICK r \in Refs : place[r] # Nowhere /\ <<d, "object">> \in Known(place[r], seen, Held)
      BY <2>2 DEF RefInv, Carried
    <3>2. CASE r = n
      <4>1. <<d, "object">> \in seen[c]
        BY <1>0, <3>1, <3>2 DEF Known
      <4>. QED
        BY <4>1, ZenonT(60) DEF Drop, ReleaseCounter
    <3>3. CASE r # n
      <4>1. place'[r] = place[r] /\ place[r] \in Places
        BY <1>1, <3>3 DEF RefInv, RefTypeOK
      <4>2. <<d, "object">> \in Known(place[r], seen', Held')
        BY <2>2, <1>4, <3>1, <4>1, KnownKept
      <4>. QED
        BY <3>1, <4>1, <4>2
    <3>. QED
      BY <3>2, <3>3
  <2>. QED
    BY <2>1, <2>2
<1>7. Carried'
  BY <1>6, ZenonT(60) DEF Carried
<1>. QED
  BY <1>2, <1>3, <1>4, <1>5, <1>7, ZenonT(60) DEF RefInv

\* A SharedRef becomes a Handle or the other way round, or a Handle is leaked.
LEMMA MovePreserves ==
    ASSUME RefInv, NEW c \in CPUs, NEW n \in Refs, place[n].at = c,
           NEW p \in {Leaked} \cup [kind : {"ref", "handle"}, at : {c}],
           place' = [place EXCEPT ![n] = p],
           UNCHANGED <<counter, freed, drop_pc, owner, seen, counterView, lockView>>
    PROVE  RefInv'
<1>1. \A x \in Refs : place'[x] = IF x = n THEN p ELSE place[x]
  BY DEF RefInv, RefTypeOK
<1>2. p # Nowhere /\ p \in Places
  BY DEF Nowhere, Leaked, Places
<1>3. RefTypeOK'
  BY <1>2 DEF RefInv, RefTypeOK, All
<1>4. Live' = Live
  BY <1>1, <1>2, HolderLive DEF Live, RefInv
<1>5. CounterExact'
  BY <1>4, CounterKept DEF RefInv
<1>6. Held' = Held
  BY DEF Held
<1>7. QueueKnown' /\ FreeOrdered'
  BY <1>6 DEF QueueKnown, FreeOrdered, RefInv
<1>8. Carried'
  <2>. SUFFICES ASSUME NEW d \in CPUs, <<d, "object">> \notin counterView
                PROVE  \E r \in Refs : place'[r] # Nowhere /\ <<d, "object">> \in Known(place'[r], seen, Held)
    BY <1>6, ZenonT(60) DEF Carried
  <2>1. PICK r \in Refs : place[r] # Nowhere /\ <<d, "object">> \in Known(place[r], seen, Held)
    BY DEF RefInv, Carried
  <2>2. CASE r = n
    <3>1. <<d, "object">> \in seen[c] /\ <<d, "object">> \in All
      BY <2>1, <2>2 DEF Known, All
    <3>2. <<d, "object">> \in Known(p, seen, Held)
      BY <3>1, PlacesAssumption DEF Known, Leaked, Nobody, Queue
    <3>. QED
      BY <1>1, <1>2, <3>2
  <2>3. CASE r # n
    BY <1>1, <2>1, <2>3
  <2>. QED
    BY <2>2, <2>3
<1>. QED
  BY <1>3, <1>5, <1>7, <1>8 DEF RefInv

\* A reference put into the container, or taken out of it by who has the lock
LEMMA QueuePreserves ==
    ASSUME RefInv, NEW c \in CPUs, NEW n \in Refs, Access(c),
           \/ place[n].at = c /\ place' = [place EXCEPT ![n].at = Queue]
           \/ place[n].at = Queue /\ place' = [place EXCEPT ![n].at = c]
    PROVE  RefInv'
<1>1. place[n] \in [kind : {"ref", "handle"}, at : CPUs \cup {Queue}]
  BY PlacesAssumption DEF RefInv, RefTypeOK, Places, Nowhere, Leaked, Queue, Nobody
<1>2. PICK p \in [kind : {"ref", "handle"}, at : {c, Queue}] : place' = [place EXCEPT ![n] = p]
  <2>1. CASE place[n].at = c /\ place' = [place EXCEPT ![n].at = Queue]
    <3>1. place' = [place EXCEPT ![n] = [kind |-> place[n].kind, at |-> Queue]]
      BY <1>1, <2>1, Zenon DEF RefInv, RefTypeOK
    <3>. QED
      BY <1>1, <3>1, Zenon
  <2>2. CASE place[n].at = Queue /\ place' = [place EXCEPT ![n].at = c]
    <3>1. place' = [place EXCEPT ![n] = [kind |-> place[n].kind, at |-> c]]
      BY <1>1, <2>2, Zenon DEF RefInv, RefTypeOK
    <3>. QED
      BY <1>1, <3>1, Zenon
  <2>. QED
    BY <2>1, <2>2
<1>3. \A x \in Refs : place'[x] = IF x = n THEN p ELSE place[x]
  BY <1>2 DEF RefInv, RefTypeOK
<1>4. p \in Places /\ p # Nowhere /\ place[n] # Nowhere
  BY <1>1, PlacesAssumption DEF Places, Nowhere, Queue, Nobody
<1>5. RefTypeOK'
  <2>1. seen' \in [CPUs -> SUBSET All] /\ counterView' \in SUBSET All /\ lockView' \in SUBSET All
    BY DEF Access, RefInv, RefTypeOK, SeenAfter, Forget, All
  <2>2. place' \in [Refs -> Places]
    BY <1>2, <1>4 DEF RefInv, RefTypeOK
  <2>. QED
    BY <2>1, <2>2 DEF Access, RefInv, RefTypeOK
<1>6. Live' = Live
  BY <1>3, <1>4 DEF Live
<1>7. CounterExact'
  BY <1>6, CounterKept DEF RefInv, Access
<1>8. QueueKnown'
  BY QueueAccess
<1>9. ASSUME NEW d \in CPUs
      PROVE  /\ \A x \in CPUs : <<d, "object">> \in seen[x] => <<d, "object">> \in seen'[x]
             /\ <<d, "object">> \in Held => <<d, "object">> \in Held'
             /\ <<d, "object">> \in counterView => <<d, "object">> \in counterView'
  <2>1. <<d, "object">> # <<c, "queue">>
    OBVIOUS
  <2>. QED
    BY <2>1, AccessKeeps, Zenon DEF Access, RefInv, Forget
<1>10. FreeOrdered'
  BY <1>9, Zenon DEF FreeOrdered, RefInv, Access
<1>11. Held = seen[c]
  BY PlacesAssumption DEF Access, Held
<1>12. Carried'
  <2>. SUFFICES ASSUME NEW d \in CPUs, <<d, "object">> \notin counterView
                PROVE  \E r \in Refs : place'[r] # Nowhere /\ <<d, "object">> \in Known(place'[r], seen', Held')
    BY <1>9, Zenon DEF Carried
  <2>1. PICK r \in Refs : place[r] # Nowhere /\ <<d, "object">> \in Known(place[r], seen, Held)
    BY DEF RefInv, Carried
  <2>2. \E q \in Places : place'[r] = q /\ q # Nowhere /\ <<d, "object">> \in Known(q, seen, Held)
    <3>1. CASE r = n
      <4>1. <<d, "object">> \in seen[c]
        BY <1>11, <2>1, <3>1, PlacesAssumption DEF Known
      <4>2. <<d, "object">> \in Known(p, seen, Held)
        BY <4>1, <1>11, PlacesAssumption DEF Known
      <4>. QED
        BY <1>3, <1>4, <3>1, <4>2
    <3>2. CASE r # n
      BY <1>3, <2>1, <3>2 DEF RefInv, RefTypeOK
    <3>. QED
      BY <3>1, <3>2
  <2>3. PICK q \in Places : place'[r] = q /\ q # Nowhere /\ <<d, "object">> \in Known(q, seen, Held)
    BY <2>2
  <2>4. <<d, "object">> \in Known(q, seen', Held')
    BY <1>9, <2>3, KnownKept
  <2>. QED
    BY <2>3, <2>4
<1>. QED
  BY <1>5, <1>7, <1>8, <1>10, <1>12 DEF RefInv

\* A step that moves no reference and takes no knowledge away
LEMMA GainPreserves ==
    ASSUME RefInv, UNCHANGED <<place, counterView>>,
           \A d \in CPUs, x \in CPUs : <<d, "object">> \in seen[x] => <<d, "object">> \in seen'[x],
           \A d \in CPUs : <<d, "object">> \in Held => <<d, "object">> \in Held'
    PROVE  Carried'
<1>. SUFFICES ASSUME NEW d \in CPUs, <<d, "object">> \notin counterView
              PROVE  \E r \in Refs : place[r] # Nowhere /\ <<d, "object">> \in Known(place[r], seen', Held')
  BY ZenonT(60) DEF Carried
<1>1. PICK r \in Refs : place[r] # Nowhere /\ <<d, "object">> \in Known(place[r], seen, Held)
  BY DEF RefInv, Carried
<1>2. place[r] \in Places
  BY DEF RefInv, RefTypeOK
<1>3. <<d, "object">> \in Known(place[r], seen', Held')
  BY <1>1, <1>2, KnownKept
<1>. QED
  BY <1>1, <1>3

\* After the last drop nothing is left but what the counter carries: the fence gets it all.
LEMMA FencePreserves ==
    ASSUME RefInv, NEW c \in CPUs, Fence(c)
    PROVE  RefInv'
<1>1. \A x \in CPUs : seen'[x] = IF x = c THEN seen[c] \cup counterView ELSE seen[x]
  BY DEF Fence, RefInv, RefTypeOK
<1>2. \A x \in CPUs : drop_pc'[x] = IF x = c THEN "free" ELSE drop_pc[x]
  BY DEF Fence, RefInv, RefTypeOK
<1>3. RefTypeOK'
  BY DEF Fence, RefInv, RefTypeOK
<1>4. CounterExact'
  <2>1. Live' = Live /\ counter' = counter /\ freed' = freed
    BY DEF Fence, Live
  <2>. QED
    BY <1>2, <2>1 DEF RefInv, CounterExact, Fence
<1>5. \A e : e \in Held => e \in Held'
  BY <1>1 DEF Fence, Held, RefInv, RefTypeOK
<1>6. QueueKnown'
  BY <1>5, ZenonT(60) DEF QueueKnown, RefInv
<1>7. Carried'
  BY <1>1, <1>5, GainPreserves DEF Fence
<1>8. \A d \in CPUs : <<d, "object">> \in counterView
  <2>1. Live = {}
    BY DEF RefInv, CounterExact, Fence
  <2>. QED
    BY <2>1, ZenonT(60) DEF RefInv, Carried, Live
<1>9. FreeOrdered'
  <2>. SUFFICES ASSUME NEW x \in CPUs, drop_pc'[x] = "free", NEW d \in CPUs
                PROVE  <<d, "object">> \in seen'[x]
    BY Zenon DEF FreeOrdered
  <2>. QED
    BY <1>1, <1>2, <1>8 DEF RefInv, FreeOrdered
<1>. QED
  BY <1>3, <1>4, <1>6, <1>7, <1>9 DEF RefInv

LEMMA FreeObjectPreserves ==
    ASSUME RefInv, NEW c \in CPUs, FreeObject(c)
    PROVE  RefInv'
<1>1. \A x \in CPUs : drop_pc'[x] = IF x = c THEN "idle" ELSE drop_pc[x]
  BY DEF FreeObject, RefInv, RefTypeOK
<1>2. RefTypeOK'
  BY DEF FreeObject, RefInv, RefTypeOK
<1>3. Live = {} /\ ~freed /\ \A x \in CPUs \ {c} : drop_pc[x] = "idle"
  BY DEF RefInv, CounterExact, FreeObject
<1>4. Live' = {} /\ freed' /\ (\A x \in CPUs : drop_pc'[x] = "idle") /\ counter' = Cardinality(Live')
  <2>1. Live' = Live /\ counter' = counter
    BY DEF FreeObject, Live
  <2>. QED
    BY <1>1, <1>3, <2>1 DEF FreeObject, RefInv, CounterExact
<1>5. CounterExact'
  BY <1>4 DEF CounterExact
<1>6. Held' = Held
  BY DEF FreeObject, Held
<1>7. QueueKnown' /\ Carried'
  BY <1>6 DEF QueueKnown, Carried, RefInv, FreeObject
<1>8. FreeOrdered'
  BY <1>4 DEF FreeOrdered
<1>. QED
  BY <1>2, <1>5, <1>7, <1>8 DEF RefInv

\* compare_exchange with Acquire takes over what the last owner has released.
LEMMA LockPreserves ==
    ASSUME RefInv, NEW c \in CPUs, Lock(c)
    PROVE  RefInv'
<1>1. \A x \in CPUs : seen'[x] = IF x = c THEN seen[c] \cup lockView ELSE seen[x]
  BY DEF Lock, RefInv, RefTypeOK
<1>2. RefTypeOK'
  BY DEF Lock, RefInv, RefTypeOK
<1>3. CounterExact'
  BY CounterKept DEF RefInv, Lock, Live
<1>4. \A e : e \in Held => e \in Held'
  BY <1>1, PlacesAssumption DEF Lock, Held
<1>5. QueueKnown'
  BY <1>4, ZenonT(60) DEF QueueKnown, RefInv
<1>6. Carried'
  BY <1>1, <1>4, GainPreserves DEF Lock
<1>7. FreeOrdered'
  BY <1>1, Zenon DEF FreeOrdered, RefInv, Lock
<1>. QED
  BY <1>2, <1>3, <1>5, <1>6, <1>7 DEF RefInv

LEMMA UnlockPreserves ==
    ASSUME RefInv, NEW c \in CPUs, Unlock(c)
    PROVE  RefInv'
<1>1. RefTypeOK'
  BY DEF Unlock, ReleaseLock, RefInv, RefTypeOK
<1>2. CounterExact'
  BY CounterKept DEF RefInv, Unlock, Live
<1>3. Held' = Held
  BY PlacesAssumption DEF Unlock, ReleaseLock, Held
<1>4. QueueKnown' /\ Carried' /\ FreeOrdered'
  BY <1>3 DEF QueueKnown, Carried, FreeOrdered, RefInv, Unlock
<1>. QED
  BY <1>1, <1>2, <1>4 DEF RefInv

-------------------------------------------------------------------------------
(* Theorems                                                                   *)

LEMMA InitOK == RefInit => RefInv
<1>. SUFFICES ASSUME RefInit PROVE RefInv
  OBVIOUS
<1>. PICK c \in CPUs, r \in Refs :
        /\ place = [x \in Refs |-> IF x = r THEN [kind |-> "ref", at |-> c] ELSE Nowhere]
        /\ counter = 1 /\ freed = FALSE
        /\ drop_pc = [d \in CPUs |-> "idle"] /\ owner = Nobody
        /\ seen = [d \in CPUs |-> IF d = c THEN All ELSE All \ {<<c, "object">>}]
        /\ counterView = All \ {<<c, "object">>} /\ lockView = All \ {<<c, "object">>}
  BY Zenon DEF RefInit
<1>1. RefTypeOK
  BY Zenon DEF RefTypeOK, Places
<1>2. Live = {r}
  BY DEF Live, Nowhere
<1>3. CounterExact
  <2>1. Cardinality(Live) = 1
    BY <1>2, FS_Singleton, Zenon
  <2>. QED
    BY <1>2, <2>1 DEF CounterExact
<1>4. QueueKnown
  BY DEF QueueKnown, Held, All
<1>5. ASSUME NEW d \in CPUs
      PROVE  \/ <<d, "object">> \in counterView
             \/ place[r] # Nowhere /\ <<d, "object">> \in Known(place[r], seen, Held)
  <2>1. CASE d = c
    <3>1. place[r].at = c /\ place[r] # Nowhere /\ <<d, "object">> \in seen[c]
      BY <2>1 DEF Nowhere, All
    <3>. QED
      BY <3>1 DEF Known
  <2>2. CASE d # c
    BY <2>2 DEF All
  <2>. QED
    BY <2>1, <2>2
<1>6. Carried
  BY <1>5, ZenonT(60) DEF Carried
<1>7. FreeOrdered
  BY DEF FreeOrdered
<1>. QED
  BY <1>1, <1>3, <1>4, <1>6, <1>7 DEF RefInv

LEMMA NextOK == RefInv /\ [RefNext]_refVars => RefInv'
<1>. SUFFICES ASSUME RefInv, [RefNext]_refVars PROVE RefInv'
  OBVIOUS
<1>1. CASE UNCHANGED refVars
  BY <1>1 DEF refVars, RefInv, RefTypeOK, CounterExact, Live, Carried, Held, QueueKnown, FreeOrdered
<1>2. ASSUME NEW c \in CPUs, Deref(c) \/ Fence(c) \/ FreeObject(c) \/ Lock(c) \/ Unlock(c)
      PROVE  RefInv'
  BY <1>2, DerefPreserves, FencePreserves, FreeObjectPreserves, LockPreserves, UnlockPreserves
<1>3. ASSUME NEW c \in CPUs, NEW r \in Refs, CloneRef(c, r)
      PROVE  RefInv'
  <2>1. PICK q \in Refs : place[q].at = c
    BY <1>3 DEF CloneRef, Holds
  <2>2. q \in Live
    BY <2>1, HolderLive DEF RefInv
  <2>. QED
    BY <1>3, <2>2, ClonePreserves DEF CloneRef
<1>4. ASSUME NEW c \in CPUs, NEW r \in Refs, NEW T \in Types, NEW action \in SUBSET Rights,
             from_borrowed_handle(c, r, T, action)
      PROVE  RefInv'
  <2>1. PICK q \in Refs : place[q].at = c
    BY <1>4 DEF from_borrowed_handle, Holds
  <2>2. q \in Live
    BY <2>1, HolderLive DEF RefInv
  <2>3. Clone(c, r) \/ UNCHANGED refVars
    BY <1>4 DEF from_borrowed_handle, CloneFromRaw
  <2>. QED
    BY <1>1, <2>2, <2>3, ClonePreserves
<1>5. ASSUME NEW c \in CPUs, NEW r \in Refs, into_handle(c, r)
      PROVE  RefInv'
  <2>1. PICK p \in {Leaked} \cup [kind : {"ref", "handle"}, at : {c}] :
            place' = [place EXCEPT ![r] = p]
    BY <1>5, Zenon DEF into_handle
  <2>2. place[r].at = c
    BY <1>5 DEF into_handle, Holds
  <2>3. UNCHANGED <<counter, freed, drop_pc, owner, seen, counterView, lockView>>
    BY <1>5, Zenon DEF into_handle
  <2>. QED
    BY <2>1, <2>2, <2>3, MovePreserves, Zenon
<1>6. ASSUME NEW c \in CPUs, NEW r \in Refs, NEW T \in Types, from_moved_handle(c, r, T)
      PROVE  RefInv'
  <2>1. PICK p \in {Leaked} \cup [kind : {"ref", "handle"}, at : {c}] :
            place' = [place EXCEPT ![r] = p]
    BY <1>6, Zenon DEF from_moved_handle
  <2>2. place[r].at = c
    BY <1>6 DEF from_moved_handle, Holds
  <2>3. UNCHANGED <<counter, freed, drop_pc, owner, seen, counterView, lockView>>
    BY <1>6, Zenon DEF from_moved_handle
  <2>. QED
    BY <2>1, <2>2, <2>3, MovePreserves, Zenon
<1>7. ASSUME NEW c \in CPUs, NEW r \in Refs, Drop(c, r)
      PROVE  RefInv'
  BY <1>7, DropPreserves
<1>8. ASSUME NEW c \in CPUs, NEW r \in Refs, PushRef(c, r) \/ PopRef(c, r)
      PROVE  RefInv'
  BY <1>8, QueuePreserves, ZenonT(60) DEF PushRef, PopRef
<1>. QED
  BY <1>1, <1>2, <1>3, <1>4, <1>5, <1>6, <1>7, <1>8, ZenonT(60) DEF RefNext

\* The inductive invariant holds.
THEOREM RefInvariance == RefSpec => []RefInv
BY InitOK, NextOK, PTL DEF RefSpec

\* For every number of CPUs and references: the counter is exact, the object is freed once,
\* when there is no reference left, and not before.
THEOREM CountedExactly == RefSpec => []CounterExact
<1>1. RefInv => CounterExact
  BY DEF RefInv
<1>. QED
  BY <1>1, RefInvariance, PTL

\* For every number of CPUs and references: every access happens before the free.
THEOREM FreedInOrder == RefSpec => []FreeOrdered
<1>1. RefInv => FreeOrdered
  BY DEF RefInv
<1>. QED
  BY <1>1, RefInvariance, PTL

\* For every number of CPUs: who has the spinlock sees all that happened under it before.
THEOREM LockedInOrder == RefSpec => []LockOrdered
<1>1. RefInv => LockOrdered
  BY PlacesAssumption, Zenon DEF RefInv, QueueKnown, Held, LockOrdered
<1>. QED
  BY <1>1, RefInvariance, PTL
===============================================================================
