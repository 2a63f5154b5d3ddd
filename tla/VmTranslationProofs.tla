-------------------------- MODULE VmTranslationProofs --------------------------
(***************************************************************************)
(* Proofs about VmSpace, on top of VmSpaceProofs: TranslationExact and     *)
(* ReadAgrees.                                                             *)
(*                                                                         *)
(* TrInv relates mappings and translations, ReadInv the bytes copied and   *)
(* translations.  Both need CanonicalAddrs: the addresses passed to map()  *)
(* and the areas mapped there stay within the user half, or map nothing.   *)
(* For others arch::VmSpace::map takes the index of the top level modulo   *)
(* its size, and fills tables that belong to the kernel or to another      *)
(* address; KernelTableFixed is about that.                                *)
(***************************************************************************)
EXTENDS VmSpaceProofs

-------------------------------------------------------------------------------
(* What the mappings promise                                                  *)

\* Every area is mapped below the end of the user half or where map() refuses it.  Between
\* the two, pml4_index leads into the tables of the kernel: see KernelTableFixed.
CanonicalAddrs ==
    \A u \in MapAddrs, a \in Areas : u + AreaLen(a) <= UserEnd \/ u >= KernelBase

\* The mappings and the call in progress are for whole pages of the user half.
Lists(q) ==
    \A k \in 1..Len(q) :
        /\ q[k].start % PageSize = 0 /\ q[k].end = q[k].start + AreaLen(q[k].area)
        /\ q[k].end <= UserEnd

OpAt(o) ==
    o.call = "map" =>
        /\ o.start % PageSize = 0
        /\ o.start + o.len <= UserEnd \/ (o.start >= KernelBase /\ o.index = 0)

CoveredBy(m, u) == m.start <= u /\ u < m.end

InProgress(o, u) == o.call = "map" /\ u \in o.start..(o.start + o.index * PageSize - 1)

\* The user page u of an area at start is translated to x, which is the area's page.
Holds(ps, a, start, u, x) == x # None /\ ps[a][(u - start) \div PageSize] = x

\* What x, the translation of the user page u, has to be.
UserTr(o, q, st, x, ps, u) ==
    /\ \A k \in 1..Len(q) : CoveredBy(q[k], u) =>
        Holds(ps, q[k].area, q[k].start, u, x) /\ u \notin st
    /\ InProgress(o, u) => Holds(ps, o.area, o.start, u, x) /\ u \notin st
    /\ x # None => u \in st \/ InProgress(o, u) \/ \E k \in 1..Len(q) : CoveredBy(q[k], u)
    /\ u \in st => x # None

SpaceTr(ts, rt, ps, o, q, st) ==
    /\ Lists(q) /\ OpAt(o)
    /\ \A u \in UserPages : UserTr(o, q, st, TranslateIn(ts, rt, u), ps, u)

TrInv == \A s \in Spaces : SpaceTr(tables, pml4[s], pages, op[s], mappings[s], stray[s])

\* No page of an area is replaced.
Kept(ps, pc) ==
    \A b \in Areas : \A j \in Indices(b) : ps[b][j] # None => pc[b][j] = ps[b][j]

\* What is known of the mapping k of space s.
LEMMA MappingAt ==
    ASSUME IInv, TrInv, NEW s \in Spaces, NEW k \in 1..Len(mappings[s])
    PROVE  /\ mappings[s][k].start \in Nat /\ mappings[s][k].end \in Nat
           /\ mappings[s][k].area \in Areas /\ mappings[s][k].start % PageSize = 0
           /\ NumPages[mappings[s][k].area] \in Nat
           /\ mappings[s][k].end = mappings[s][k].start + NumPages[mappings[s][k].area] * PageSize
           /\ mappings[s][k].end <= UserEnd
<1>1. mappings[s] \in Seq(Mapping)
  BY Zenon DEF IInv, SpaceInv
<1>2. mappings[s][k] \in Mapping
  BY <1>1, MappingFields, Zenon
<1>3. Lists(mappings[s])
  BY Zenon DEF TrInv, SpaceTr
<1>4. mappings[s][k].area \in Areas
  BY <1>2, Zenon DEF Mapping
<1>5. NumPages[mappings[s][k].area] \in Nat
  BY <1>4, VmSpaceAssumption, Zenon
<1>. QED
  BY <1>2, <1>3, <1>4, <1>5, Zenon DEF Mapping, Lists, AreaLen

LEMMA CoveredIndex ==
    ASSUME IInv, TrInv, NEW s \in Spaces, NEW k \in 1..Len(mappings[s]), NEW u \in UserPages,
           CoveredBy(mappings[s][k], u)
    PROVE  (u - mappings[s][k].start) \div PageSize \in Indices(mappings[s][k].area)
<1>1. PICK a, b, n : a = mappings[s][k].area /\ b = mappings[s][k].start /\ n = NumPages[a]
  BY Zenon
<1>2. /\ b \in Nat /\ b % PageSize = 0 /\ n \in Nat /\ mappings[s][k].end = b + n * PageSize
  BY <1>1, MappingAt
<1>3. u \in Nat /\ u % PageSize = 0
  BY UserPageFields
<1>4. b <= u /\ u < b + n * PageSize
  BY <1>1, <1>2, Zenon DEF CoveredBy
<1>5. (u - b) \div PageSize \in 0..(n - 1)
  BY <1>2, <1>3, <1>4, PageAt
<1>. QED
  BY <1>1, <1>5, Zenon DEF Indices

LEMMA ProgressIndex ==
    ASSUME IInv, PhysInv, TrInv, NEW s \in Spaces, NEW u \in UserPages, InProgress(op[s], u)
    PROVE  /\ (u - op[s].start) \div PageSize \in 0..(op[s].index - 1)
           /\ (u - op[s].start) \div PageSize \in Indices(op[s].area)
           /\ op[s].area \in Areas
           /\ op[s].start <= u /\ u < op[s].start + op[s].len
<1>1. PICK o : o = op[s]
  OBVIOUS
<1>2. o.call = "map" /\ u \in o.start..(o.start + o.index * PageSize - 1)
  BY <1>1 DEF InProgress
<1>3. PICK n : n = NumPages[o.area]
  OBVIOUS
<1>4. /\ o.start \in Nat /\ o.index \in Nat /\ o.area \in Areas /\ o.index <= n /\ n \in Nat
      /\ PageSize \in Nat \ {0} /\ o.len = PageSize * n
  BY <1>1, <1>2, <1>3, MapInProgress
<1>5. o.start % PageSize = 0
  BY <1>1, <1>2 DEF TrInv, SpaceTr, OpAt
<1>6. u \in Nat /\ u % PageSize = 0
  BY UserPageFields
<1>7. /\ o.index * PageSize = PageSize * o.index /\ PageSize * o.index \in Nat
      /\ PageSize * n \in Nat /\ PageSize * o.index <= PageSize * n
  BY <1>4, Product, Multiples
<1>8. o.start <= u /\ u < o.start + o.index * PageSize /\ u < o.start + o.len
  BY <1>2, <1>4, <1>7
<1>9. (u - o.start) \div PageSize \in 0..(o.index - 1)
  <2>1. PICK b, i : b = o.start /\ i = o.index
    OBVIOUS
  <2>2. /\ b \in Nat /\ b % PageSize = 0 /\ i \in Nat /\ b <= u /\ u < b + i * PageSize
    BY <1>4, <1>5, <1>8, <2>1, Zenon
  <2>3. (u - b) \div PageSize \in 0..(i - 1)
    BY ONLY <1>6, <2>2, PageAt
  <2>. QED
    BY <2>1, <2>3, Zenon
<1>10. 0..(o.index - 1) \subseteq 0..(n - 1)
  BY <1>4
<1>. QED
  BY <1>1, <1>3, <1>4, <1>8, <1>9, <1>10 DEF Indices

\* A page of a map() in progress is in no mapping.
LEMMA NotBoth ==
    ASSUME IInv, PhysInv, TrInv, NEW s \in Spaces, NEW u \in Nat, NEW k \in 1..Len(mappings[s]),
           op[s].call = "map", op[s].start <= u, u < op[s].start + op[s].len
    PROVE  ~CoveredBy(mappings[s][k], u)
<1>1. ~overlaps_with(mappings[s][k], op[s].start, op[s].start + op[s].len)
  BY DEF IInv, SpaceInv, MapFree
<1>2. mappings[s][k].start \in Nat /\ mappings[s][k].end \in Nat
  BY MappingAt
<1>3. op[s].start \in Nat /\ op[s].len \in Nat
  BY MapInProgress
<1>. QED
  BY <1>1, <1>2, <1>3 DEF CoveredBy, overlaps_with

\* More pages of the areas change nothing.
LEMMA UserTrKept ==
    ASSUME IInv, PhysInv, TrInv, NEW s \in Spaces, NEW u \in UserPages, NEW pc, Kept(pages, pc)
    PROVE  UserTr(op[s], mappings[s], stray[s], TranslateIn(tables, pml4[s], u), pc, u)
<1>1. PICK x : x = TranslateIn(tables, pml4[s], u)
  OBVIOUS
<1>2. UserTr(op[s], mappings[s], stray[s], x, pages, u)
  BY <1>1 DEF TrInv, SpaceTr
<1>3. ASSUME NEW k \in 1..Len(mappings[s]), CoveredBy(mappings[s][k], u)
      PROVE  Holds(pc, mappings[s][k].area, mappings[s][k].start, u, x)
  <2>1. Holds(pages, mappings[s][k].area, mappings[s][k].start, u, x)
    BY <1>2, <1>3 DEF UserTr
  <2>2. (u - mappings[s][k].start) \div PageSize \in Indices(mappings[s][k].area)
    BY <1>3, CoveredIndex
  <2>3. mappings[s][k].area \in Areas
    BY MappingAt
  <2>. QED
    BY <2>1, <2>2, <2>3, Zenon DEF Holds, Kept
<1>4. ASSUME InProgress(op[s], u)
      PROVE  Holds(pc, op[s].area, op[s].start, u, x)
  <2>1. Holds(pages, op[s].area, op[s].start, u, x)
    BY <1>2, <1>4 DEF UserTr
  <2>2. (u - op[s].start) \div PageSize \in Indices(op[s].area) /\ op[s].area \in Areas
    BY <1>4, ProgressIndex
  <2>. QED
    BY <2>1, <2>2, Zenon DEF Holds, Kept
<1>. QED
  BY <1>1, <1>2, <1>3, <1>4, Zenon DEF UserTr

\* A step of one space.
LEMMA TrStep ==
    ASSUME IInv, PhysInv, TrInv, NEW s \in Spaces, Kept(pages, pages'),
           \A t \in Spaces \ {s} :
               /\ op'[t] = op[t] /\ mappings'[t] = mappings[t] /\ stray'[t] = stray[t]
               /\ \A u \in UserPages :
                      TranslateIn(tables', pml4'[t], u) = TranslateIn(tables, pml4[t], u),
           SpaceTr(tables', pml4'[s], pages', op'[s], mappings'[s], stray'[s])
    PROVE  TrInv'
<1>1. ASSUME NEW t \in Spaces
      PROVE  SpaceTr(tables', pml4'[t], pages', op'[t], mappings'[t], stray'[t])
  <2>1. CASE t = s
    BY <2>1, Zenon
  <2>2. CASE t # s
    <3>1. ASSUME NEW u \in UserPages
          PROVE  UserTr(op'[t], mappings'[t], stray'[t],
                        TranslateIn(tables', pml4'[t], u), pages', u)
      <4>1. UserTr(op[t], mappings[t], stray[t], TranslateIn(tables, pml4[t], u), pages', u)
        BY UserTrKept
      <4>. QED
        BY <2>2, <4>1, Zenon
    <3>2. Lists(mappings[t]) /\ OpAt(op[t])
      BY DEF TrInv, SpaceTr
    <3>3. Lists(mappings'[t]) /\ OpAt(op'[t])
      BY <2>2, <3>2, Zenon
    <3>. QED
      BY <3>1, <3>3, Zenon DEF SpaceTr
  <2>. QED
    BY <2>1, <2>2
<1>. QED
  BY <1>1 DEF TrInv

LEMMA TrQuiet ==
    ASSUME IInv, PhysInv, TrInv, NEW s \in Spaces, Quiet(s)
    PROVE  TrInv'
<1>1. /\ tables' = tables /\ pml4' = pml4 /\ pages' = pages /\ mappings' = mappings
      /\ stray' = stray /\ op[s].call # "map" /\ op'[s].call # "map"
      /\ \A t \in Spaces \ {s} : op'[t] = op[t]
  BY DEF Quiet
<1>2. SpaceTr(tables, pml4[s], pages, op[s], mappings[s], stray[s])
  BY DEF TrInv
<1>3. SpaceTr(tables, pml4[s], pages, op'[s], mappings[s], stray[s])
  <2>1. \A u : ~InProgress(op[s], u) /\ ~InProgress(op'[s], u)
    BY <1>1, Zenon DEF InProgress
  <2>2. OpAt(op'[s])
    BY <1>1, Zenon DEF OpAt
  <2>. QED
    BY <1>2, <2>1, <2>2, Zenon DEF SpaceTr, UserTr
<1>4. Kept(pages, pages')
  BY <1>1, Zenon DEF Kept
<1>. QED
  BY <1>1, <1>3, <1>4, TrStep, Zenon

LEMMA TrNew ==
    ASSUME IInv, PhysInv, TrInv, NEW s \in Spaces, New(s)
    PROVE  TrInv'
<1>1. SameTranslation(tables, pml4, tables', pml4')
  BY NewTables DEF PhysInv
<1>2. pages' = pages /\ mappings' = mappings /\ stray' = stray /\ op' = op
  BY Zenon DEF New
<1>3. SpaceTr(tables, pml4[s], pages, op[s], mappings[s], stray[s])
  BY Zenon DEF TrInv
<1>4. SpaceTr(tables', pml4'[s], pages, op[s], mappings[s], stray[s])
  <2>1. ASSUME NEW u \in UserPages
        PROVE  UserTr(op[s], mappings[s], stray[s], TranslateIn(tables', pml4'[s], u), pages, u)
    <3>1. TranslateIn(tables', pml4'[s], u) = TranslateIn(tables, pml4[s], u)
      BY <1>1 DEF SameTranslation
    <3>2. UserTr(op[s], mappings[s], stray[s], TranslateIn(tables, pml4[s], u), pages, u)
      BY <1>3 DEF SpaceTr
    <3>. QED
      BY <3>1, <3>2, Zenon
  <2>2. Lists(mappings[s]) /\ OpAt(op[s])
    BY <1>3 DEF SpaceTr
  <2>. QED
    BY <2>1, <2>2, Zenon DEF SpaceTr
<1>5. Kept(pages, pages')
  BY <1>2, Zenon DEF Kept
<1>6. \A t \in Spaces \ {s} :
          /\ op'[t] = op[t] /\ mappings'[t] = mappings[t] /\ stray'[t] = stray[t]
          /\ \A u \in UserPages :
                 TranslateIn(tables', pml4'[t], u) = TranslateIn(tables, pml4[t], u)
  BY <1>1, <1>2, Zenon DEF SameTranslation
<1>7. SpaceTr(tables', pml4'[s], pages', op'[s], mappings'[s], stray'[s])
  BY <1>2, <1>4, Zenon
<1>. QED
  BY <1>5, <1>6, <1>7, TrStep

LEMMA TrMap ==
    ASSUME CanonicalAddrs, IInv, PhysInv, TrInv, NEW s \in Spaces, NEW a \in Areas,
           NEW u \in MapAddrs, Map(s, a, u)
    PROVE  TrInv'
<1>1. CASE Quiet(s)
  BY <1>1, TrQuiet
<1>2. ASSUME NEW o, Begins(s, a, u, o)
      PROVE  TrInv'
  <2>1. /\ tables' = tables /\ pml4' = pml4 /\ pages' = pages /\ mappings' = mappings
        /\ stray' = stray /\ op[s].call # "map" /\ op'[s] = o
        /\ \A t \in Spaces \ {s} : op'[t] = op[t]
        /\ o.start = u /\ o.len = AreaLen(a) /\ o.index = 0 /\ u % PageSize = 0
    BY <1>2 DEF Begins
  <2>2. SpaceTr(tables, pml4[s], pages, op[s], mappings[s], stray[s])
    BY DEF TrInv
  <2>3. OpAt(o)
    BY <2>1 DEF OpAt, CanonicalAddrs
  <2>4. ASSUME NEW v
        PROVE  ~InProgress(op[s], v) /\ ~InProgress(o, v)
    <3>1. u \in Nat /\ PageSize \in Nat
      BY VmSpaceAssumption
    <3>2. o.start + o.index * PageSize - 1 = u - 1
      BY <2>1, <3>1
    <3>3. v \notin u..(u - 1)
      BY <3>1
    <3>4. ~InProgress(o, v)
      BY <2>1, <3>2, <3>3, Zenon DEF InProgress
    <3>. QED
      BY <2>1, <3>4, Zenon DEF InProgress
  <2>5. SpaceTr(tables, pml4[s], pages, o, mappings[s], stray[s])
    BY <2>2, <2>3, <2>4, Zenon DEF SpaceTr, UserTr
  <2>6. Kept(pages, pages')
    BY <2>1, Zenon DEF Kept
  <2>. QED
    BY <2>1, <2>5, <2>6, TrStep, Zenon
<1>. QED
  BY <1>1, <1>2, MapBegins, Zenon

\* `?` in the loop.
LEMMA TrAbandon ==
    ASSUME IInv, PhysInv, TrInv, NEW s \in Spaces, op[s].call = "map", NEW x, Abandon(s, x),
           SameTranslation(tables, pml4, tables', pml4), pml4' = pml4, mappings' = mappings,
           Kept(pages, pages')
    PROVE  TrInv'
<1>1. PICK o : o = op[s]
  OBVIOUS
<1>2. /\ op'[s] = Done(x)
      /\ stray'[s] = stray[s] \cup {o.start + k * PageSize : k \in 0..(o.index - 1)}
      /\ \A t \in Spaces \ {s} : op'[t] = op[t] /\ stray'[t] = stray[t]
  BY <1>1, AbandonSpaces DEF PhysInv
<1>3. o.start \in Nat /\ o.index \in Nat /\ o.start % PageSize = 0 /\ o.call = "map"
  BY <1>1, MapInProgress DEF TrInv, SpaceTr, OpAt
<1>4. ASSUME NEW u \in UserPages
      PROVE  u \in stray'[s] <=> u \in stray[s] \/ InProgress(o, u)
  <2>1. u \in Nat /\ u % PageSize = 0
    BY UserPageFields
  <2>2. PICK b, n : b = o.start /\ n = o.index
    OBVIOUS
  <2>3. u \in b..(b + n * PageSize - 1) <=> \E j \in 0..(n - 1) : u = b + j * PageSize
    <3>1. b \in Nat /\ b % PageSize = 0 /\ n \in Nat
      BY <1>3, <2>2
    <3>. QED
      BY ONLY <2>1, <3>1, PagesUpTo
  <2>4. InProgress(o, u) <=> \E j \in 0..(n - 1) : u = b + j * PageSize
    BY <1>3, <2>2, <2>3, Zenon DEF InProgress
  <2>. QED
    BY <1>2, <2>2, <2>4, Zenon
<1>5. \A u : ~InProgress(Done(x), u)
  <2>1. Done(x).call # "map"
    BY DEF Done
  <2>. QED
    BY <2>1, Zenon DEF InProgress
<1>6. ASSUME NEW u \in UserPages
      PROVE  UserTr(Done(x), mappings[s], stray'[s], TranslateIn(tables', pml4'[s], u), pages', u)
  <2>1. PICK y : y = TranslateIn(tables, pml4[s], u)
    OBVIOUS
  <2>2. TranslateIn(tables', pml4'[s], u) = y
    BY <2>1 DEF SameTranslation
  <2>3. UserTr(o, mappings[s], stray[s], y, pages', u)
    BY <1>1, <2>1, UserTrKept
  <2>4. ASSUME NEW k \in 1..Len(mappings[s]), CoveredBy(mappings[s][k], u)
        PROVE  ~InProgress(o, u)
    <3>1. u \in Nat
      BY UserPageFields
    <3>. QED
      BY <1>1, <2>4, <3>1, NotBoth, ProgressIndex
  <2>5. UserTr(Done(x), mappings[s], stray'[s], y, pages', u)
    <3>1. InProgress(o, u) => y # None
      BY <2>3, Zenon DEF UserTr, Holds
    <3>. QED
      BY <1>4, <1>5, <2>3, <2>4, <3>1, Zenon DEF UserTr
  <2>. QED
    BY <2>2, <2>5, Zenon
<1>7. Lists(mappings[s]) /\ OpAt(Done(x))
  <2>1. Done(x).call # "map"
    BY Zenon DEF Done
  <2>. QED
    BY <2>1, Zenon DEF TrInv, SpaceTr, OpAt
<1>8. SpaceTr(tables', pml4'[s], pages', op'[s], mappings'[s], stray'[s])
  BY <1>2, <1>6, <1>7, Zenon DEF SpaceTr
<1>9. \A t \in Spaces \ {s} :
          /\ op'[t] = op[t] /\ mappings'[t] = mappings[t] /\ stray'[t] = stray[t]
          /\ \A u \in UserPages :
                 TranslateIn(tables', pml4'[t], u) = TranslateIn(tables, pml4[t], u)
  BY <1>2, Zenon DEF SameTranslation
<1>. QED
  BY <1>8, <1>9, TrStep

\* What is mapped is a page of the user half.
LEMMA MappedUserPage ==
    ASSUME IInv, PhysInv, TrInv, NEW s \in Spaces, MapPage(s),
           NEW a, a = op[s].area, NEW k, k = op[s].index,
           NEW u, u = op[s].start + k * PageSize, PageMapped(s, a, k, u)
    PROVE  u \in UserPages /\ op[s].start + op[s].len <= UserEnd
<1>1. PICK o, b, n : o = op[s] /\ b = op[s].start /\ n = NumPages[a]
  OBVIOUS
<1>2. o.call = "map" /\ k < n
  BY <1>1, Zenon DEF MapPage
<1>3. /\ b \in Nat /\ k \in Nat /\ a \in Areas /\ n \in Nat \ {0}
      /\ PageSize \in Nat \ {0} /\ o.len = PageSize * n /\ o.len \in Nat
  BY <1>1, <1>2, MapInProgress, Zenon
<1>4. b % PageSize = 0 /\ (b + o.len <= UserEnd \/ (b >= KernelBase /\ k = 0))
  BY <1>1, <1>2 DEF TrInv, SpaceTr, OpAt
<1>5. u < KernelBase
  BY Zenon DEF PageMapped
<1>8. /\ u \in Nat /\ u % PageSize = 0 /\ (u - b) \div PageSize = k
      /\ b <= u /\ u + PageSize <= b + n * PageSize
  <2>1. k < n /\ u = b + k * PageSize
    BY <1>1, <1>2, Zenon
  <2>. QED
    BY ONLY <1>3, <1>4, <2>1, PageFrom, ZenonT(60)
<1>9. b + o.len <= UserEnd /\ u < b + o.len
  <2>1. n * PageSize = o.len
    BY <1>3, Product, Zenon
  <2>2. ~(b >= KernelBase /\ k = 0)
    <3>1. KernelBase \in Nat
      BY VmSpaceAssumption
    <3>. QED
      BY <1>3, <1>5, <1>8, <3>1
  <2>. QED
    BY <1>3, <1>4, <1>8, <2>1, <2>2
<1>10. u \in UserPages
  <2>1. UserEnd \in Nat
    BY UserHalf, Zenon
  <2>2. u < UserEnd
    BY <1>3, <1>8, <1>9, <2>1
  <2>. QED
    BY <1>8, <2>2, UserPage
<1>. QED
  BY <1>1, <1>9, <1>10

\* One more page.
LEMMA TrMapped ==
    ASSUME IInv, PhysInv, TrInv, NEW s \in Spaces, MapPage(s),
           NEW a, a = op[s].area, NEW k, k = op[s].index,
           NEW u, u = op[s].start + k * PageSize, PageMapped(s, a, k, u),
           pml4' = pml4, mappings' = mappings, Kept(pages, pages')
    PROVE  TrInv'
<1>1. PICK o, b, n, page : o = op[s] /\ b = op[s].start /\ n = NumPages[a] /\ page = pages'[a][k]
  OBVIOUS
<1>2. o.call = "map" /\ k < n
  BY <1>1 DEF MapPage
<1>3. /\ b \in Nat /\ k \in Nat /\ a \in Areas /\ n \in Nat \ {0}
      /\ PageSize \in Nat \ {0} /\ o.len = PageSize * n /\ o.len \in Nat
  BY <1>1, <1>2, MapInProgress
<1>4. b % PageSize = 0 /\ (b + o.len <= UserEnd \/ (b >= KernelBase /\ k = 0))
  BY <1>1, <1>2 DEF TrInv, SpaceTr, OpAt
<1>5. op' = [op EXCEPT ![s].index = k + 1] /\ stray' = stray /\ u < KernelBase /\ page # None
  BY <1>1 DEF PageMapped
<1>6. PICK p : p = op'[s]
  OBVIOUS
<1>7. /\ p.index = k + 1 /\ p.area = a /\ p.start = b /\ p.len = o.len /\ p.call = "map"
      /\ \A t \in Spaces \ {s} : op'[t] = op[t]
  <2>1. /\ op'[s].index = k + 1 /\ op'[s].call = op[s].call
        /\ op'[s].start = op[s].start /\ op'[s].len = op[s].len /\ op'[s].area = op[s].area
        /\ \A t \in Spaces \ {s} : op'[t] = op[t]
    <3>1. IInv /\ k \in Nat
      BY <1>3
    <3>2. op' = [op EXCEPT ![s].index = k + 1]
      BY <1>5
    <3>. QED
      BY ONLY <3>1, <3>2, IndexSpaces, Zenon
  <2>. QED
    BY <1>1, <1>2, <1>6, <2>1, Zenon
<1>8. /\ u \in Nat /\ u % PageSize = 0 /\ (u - b) \div PageSize = k
      /\ b <= u /\ u + PageSize <= b + n * PageSize
  <2>1. u = b + k * PageSize
    BY <1>1, Zenon
  <2>. QED
    BY ONLY <1>2, <1>3, <1>4, <2>1, PageFrom, Zenon
<1>9. u \in UserPages /\ b + o.len <= UserEnd
  BY <1>1, MappedUserPage, Zenon
<1>11. /\ TranslateIn(tables, pml4[s], u) = None
       /\ \A z \in Spaces, v \in UserPages :
              TranslateIn(tables', pml4[z], v) =
                  IF z = s /\ v = u THEN page ELSE TranslateIn(tables, pml4[z], v)
  BY <1>1, <1>9, Zenon DEF PageMapped
<1>12. ASSUME NEW v \in UserPages
       PROVE  InProgress(p, v) <=> InProgress(o, v) \/ v = u
  <2>1. v \in Nat /\ v % PageSize = 0
    BY UserPageFields
  <2>2. v \in b..(b + (k + 1) * PageSize - 1) <=>
            v \in b..(b + k * PageSize - 1) \/ v = b + k * PageSize
    BY ONLY <1>3, <1>4, <2>1, PagesUpTo, Zenon
  <2>. QED
    BY <1>1, <1>2, <1>7, <2>2, Zenon DEF InProgress
<1>13. ASSUME NEW v \in UserPages
       PROVE  UserTr(p, mappings[s], stray[s], TranslateIn(tables', pml4'[s], v), pages', v)
  <2>1. PICK y : y = TranslateIn(tables, pml4[s], v)
    OBVIOUS
  <2>2. UserTr(o, mappings[s], stray[s], y, pages', v)
    BY <1>1, <2>1, UserTrKept
  <2>3. CASE v = u
    <3>1. y = None /\ TranslateIn(tables', pml4'[s], v) = page
      BY <1>11, <2>1, <2>3, Zenon
    <3>2. v \notin stray[s] /\ \A j \in 1..Len(mappings[s]) : ~CoveredBy(mappings[s][j], v)
      BY <2>2, <3>1, Zenon DEF UserTr, Holds
    <3>3. Holds(pages', p.area, p.start, v, page)
      BY <1>1, <1>5, <1>7, <1>8, <2>3, Zenon DEF Holds
    <3>4. InProgress(p, v)
      BY <1>12, <2>3
    <3>5. UserTr(p, mappings[s], stray[s], page, pages', v)
      BY <1>5, <3>2, <3>3, <3>4, Zenon DEF UserTr
    <3>. QED
      BY <3>1, <3>5, Zenon
  <2>4. CASE v # u
    <3>1. TranslateIn(tables', pml4'[s], v) = y
      BY <1>11, <2>1, <2>4, Zenon
    <3>2. InProgress(p, v) <=> InProgress(o, v)
      BY <1>12, <2>4
    <3>3. p.area = o.area /\ p.start = o.start
      BY <1>1, <1>7, Zenon
    <3>4. UserTr(p, mappings[s], stray[s], y, pages', v)
      BY <2>2, <3>2, <3>3, Zenon DEF UserTr
    <3>. QED
      BY <3>1, <3>4, Zenon
  <2>. QED
    BY <2>3, <2>4
<1>14. Lists(mappings[s]) /\ OpAt(p)
  <2>1. Lists(mappings[s])
    BY DEF TrInv, SpaceTr
  <2>. QED
    BY <1>4, <1>7, <1>9, <2>1, Zenon DEF OpAt
<1>15. SpaceTr(tables', pml4'[s], pages', op'[s], mappings'[s], stray'[s])
  BY <1>5, <1>6, <1>13, <1>14, Zenon DEF SpaceTr
<1>16. \A t \in Spaces \ {s} :
          /\ op'[t] = op[t] /\ mappings'[t] = mappings[t] /\ stray'[t] = stray[t]
          /\ \A v \in UserPages :
                 TranslateIn(tables', pml4'[t], v) = TranslateIn(tables, pml4[t], v)
  BY <1>5, <1>7, <1>11, Zenon
<1>. QED
  BY <1>15, <1>16, TrStep

LEMMA TrMapPage ==
    ASSUME IInv, PhysInv, TrInv, NEW s \in Spaces, MapPage(s)
    PROVE  TrInv'
<1>1. PICK a, k, u : a = op[s].area /\ k = op[s].index /\ u = op[s].start + k * PageSize
  OBVIOUS
<1>2. /\ pml4' = pml4 /\ mappings' = mappings
      /\ \A b \in Areas : \A j \in Indices(b) :
             pages[b][j] # None => pages'[b][j] = pages[b][j]
      /\ \/ (\E x : Abandon(s, x)) /\ SameTranslation(tables, pml4, tables', pml4)
         \/ PageMapped(s, a, k, u)
  BY <1>1, MapPageTables
<1>3. Kept(pages, pages') /\ op[s].call = "map"
  BY <1>2, Zenon DEF Kept, MapPage
<1>4. CASE (\E x : Abandon(s, x)) /\ SameTranslation(tables, pml4, tables', pml4)
  BY <1>2, <1>3, <1>4, TrAbandon
<1>5. CASE PageMapped(s, a, k, u)
  BY <1>1, <1>2, <1>3, <1>5, TrMapped
<1>. QED
  BY <1>2, <1>4, <1>5

\* The new mapping and the old ones are all there.
LEMMA InsertedAll ==
    ASSUME NEW q \in Seq(Mapping), NEW m, NEW n \in 0..Len(q), NEW r, Inserted(r, q, m, n)
    PROVE  /\ \E i \in 1..Len(r) : r[i] = m
           /\ \A k \in 1..Len(q) : \E i \in 1..Len(r) : r[i] = q[k]
<1>1. Len(q) \in Nat /\ Len(r) = Len(q) + 1
  BY MappingFields DEF Inserted
<1>2. \A i \in 1..(Len(q) + 1) :
          r[i] = IF i <= n THEN q[i] ELSE IF i = n + 1 THEN m ELSE q[i - 1]
  BY DEF Inserted
<1>3. n + 1 \in 1..Len(r) /\ r[n + 1] = m
  BY <1>1, <1>2
<1>4. ASSUME NEW k \in 1..Len(q)
      PROVE  \E i \in 1..Len(r) : r[i] = q[k]
  <2>1. CASE k <= n
    <3>1. k \in 1..Len(r) /\ r[k] = q[k]
      BY <1>1, <1>2, <2>1
    <3>. QED
      BY <3>1
  <2>2. CASE k > n
    <3>1. k + 1 \in 1..(Len(q) + 1) /\ ~(k + 1 <= n) /\ k + 1 # n + 1 /\ (k + 1) - 1 = k
      BY <1>1, <2>2
    <3>2. k + 1 \in 1..Len(r) /\ r[k + 1] = q[k]
      BY <1>1, <1>2, <3>1
    <3>. QED
      BY <3>2
  <2>. QED
    BY <1>1, <2>1, <2>2
<1>. QED
  BY <1>3, <1>4

LEMMA InitTrInv ==
    ASSUME Init
    PROVE  TrInv
<1>1. ASSUME NEW s \in Spaces
      PROVE  SpaceTr(tables, pml4[s], pages, op[s], mappings[s], stray[s])
  <2>1. /\ pml4[s] = None /\ op[s] = Done("none") /\ mappings[s] = <<>> /\ stray[s] = {}
    BY DEF Init
  <2>2. PICK q : q = <<>>
    OBVIOUS
  <2>3. 1..Len(q) = {}
    BY <2>2, SeqEmpty
  <2>4. Done("none").call # "map"
    BY DEF Done
  <2>5. Lists(q) /\ OpAt(Done("none"))
    BY <2>3, <2>4, Zenon DEF Lists, OpAt
  <2>6. ASSUME NEW u \in UserPages
        PROVE  UserTr(Done("none"), q, {}, TranslateIn(tables, pml4[s], u), pages, u)
    <3>1. TranslateIn(tables, pml4[s], u) = None
      BY <2>1, Zenon DEF TranslateIn
    <3>2. ~InProgress(Done("none"), u)
      BY <2>4, Zenon DEF InProgress
    <3>. QED
      BY <2>3, <3>1, <3>2, Zenon DEF UserTr
  <2>. QED
    BY <2>1, <2>2, <2>5, <2>6, Zenon DEF SpaceTr
<1>. QED
  BY <1>1 DEF TrInv

LEMMA TranslateIs ==
    ASSUME NEW s, NEW u
    PROVE  Translate(s, u) = TranslateIn(tables, pml4[s], u)
BY Zenon DEF Translate, TranslateIn, Entry

LEMMA TrMapDone ==
    ASSUME IInv, PhysInv, TrInv, NEW s \in Spaces, MapDone(s)
    PROVE  TrInv'
<1>1. PICK m, o, q : m = NewMapping(s) /\ o = op[s] /\ q = mappings[s]
  BY Zenon
<1>2. PICK r, n : MapInserts(s, m, r, n)
  BY <1>1, MapDoneInserts, Zenon
<1>3. /\ tables' = tables /\ pml4' = pml4 /\ pages' = pages /\ stray' = stray
      /\ o.call = "map" /\ o.index = NumPages[o.area]
  BY <1>1 DEF MapDone, memory, AllMapped
<1>4. /\ o.start \in Nat /\ o.index \in Nat \ {0} /\ o.area \in Areas
      /\ o.len = AreaLen(o.area)
  BY <1>1, <1>3, MapInProgress, SMTT(60) DEF IInv, SpaceInv, MapFree
<1>5. o.start % PageSize = 0 /\ o.start + o.len <= UserEnd
  <2>1. OpAt(o) /\ o.index # 0
    BY <1>1, <1>4 DEF TrInv, SpaceTr
  <2>. QED
    BY <1>3, <2>1, Zenon DEF OpAt
<1>6. /\ m.start = o.start /\ m.end = o.start + o.len /\ m.area = o.area
  BY <1>1 DEF NewMapping
<1>7. /\ q \in Seq(Mapping) /\ n \in 0..Len(q) /\ Inserted(r, q, m, n)
      /\ op'[s] = Done("Ok") /\ mappings'[s] = r
      /\ \A t \in Spaces \ {s} : op'[t] = op[t] /\ mappings'[t] = mappings[t]
  BY <1>1, <1>2 DEF MapInserts, IInv, SpaceInv
<1>8. ASSUME NEW i \in 1..Len(r)
      PROVE  r[i] = m \/ \E k \in 1..Len(q) : r[i] = q[k]
  BY <1>7, InsertedFrom
<1>9. /\ \E i \in 1..Len(r) : r[i] = m
      /\ \A k \in 1..Len(q) : \E i \in 1..Len(r) : r[i] = q[k]
  BY ONLY <1>7, InsertedAll
<1>10. Lists(r)
  <2>1. Lists(q)
    BY <1>1 DEF TrInv, SpaceTr
  <2>2. /\ m.start % PageSize = 0 /\ m.end = m.start + AreaLen(m.area) /\ m.end <= UserEnd
    BY <1>4, <1>5, <1>6, Zenon
  <2>3. ASSUME NEW i \in 1..Len(r)
        PROVE  /\ r[i].start % PageSize = 0 /\ r[i].end = r[i].start + AreaLen(r[i].area)
               /\ r[i].end <= UserEnd
    <3>1. CASE r[i] = m
      BY <2>2, <3>1, Zenon
    <3>2. ASSUME NEW k \in 1..Len(q), r[i] = q[k]
          PROVE  /\ r[i].start % PageSize = 0 /\ r[i].end = r[i].start + AreaLen(r[i].area)
                 /\ r[i].end <= UserEnd
      BY <2>1, <3>2, Zenon DEF Lists
    <3>. QED
      BY <1>8, <3>1, <3>2
  <2>. QED
    BY <2>3 DEF Lists
<1>11. \A u : ~InProgress(Done("Ok"), u)
  <2>1. Done("Ok").call # "map"
    BY DEF Done
  <2>. QED
    BY <2>1, Zenon DEF InProgress
<1>12. OpAt(Done("Ok"))
  <2>1. Done("Ok").call # "map"
    BY Zenon DEF Done
  <2>. QED
    BY <2>1, Zenon DEF OpAt
<1>13. ASSUME NEW u \in UserPages
       PROVE  InProgress(o, u) <=> CoveredBy(m, u)
  <2>1. u \in Nat
    BY UserPageFields
  <2>2. o.index * PageSize = o.len /\ o.len \in Nat
    BY <1>3, <1>4, AreaLenPositive DEF AreaLen
  <2>3. u \in o.start..(o.start + o.len - 1) <=> o.start <= u /\ u < o.start + o.len
    BY <1>4, <2>1, <2>2
  <2>. QED
    BY <1>3, <1>6, <2>2, <2>3, Zenon DEF InProgress, CoveredBy
<1>14. ASSUME NEW u \in UserPages
       PROVE  UserTr(Done("Ok"), r, stray[s], TranslateIn(tables, pml4[s], u), pages, u)
  <2>1. PICK y : y = TranslateIn(tables, pml4[s], u)
    OBVIOUS
  <2>2. UserTr(o, q, stray[s], y, pages, u)
    BY <1>1, <2>1, Zenon DEF TrInv, SpaceTr
  <2>3. InProgress(o, u) => Holds(pages, m.area, m.start, u, y) /\ u \notin stray[s]
    BY <1>6, <2>2, Zenon DEF UserTr
  <2>4. ASSUME NEW i \in 1..Len(r), CoveredBy(r[i], u)
        PROVE  Holds(pages, r[i].area, r[i].start, u, y) /\ u \notin stray[s]
    BY <1>8, <1>13, <2>2, <2>3, <2>4, Zenon DEF UserTr
  <2>5. y # None => u \in stray[s] \/ \E i \in 1..Len(r) : CoveredBy(r[i], u)
    BY <1>9, <1>13, <2>2, Zenon DEF UserTr
  <2>6. u \in stray[s] => y # None
    BY <2>2, Zenon DEF UserTr
  <2>. QED
    BY <1>11, <2>1, <2>4, <2>5, <2>6, Zenon DEF UserTr
<1>15. SpaceTr(tables', pml4'[s], pages', op'[s], mappings'[s], stray'[s])
  BY <1>3, <1>7, <1>10, <1>12, <1>14, Zenon DEF SpaceTr
<1>16. Kept(pages, pages')
  BY <1>3, Zenon DEF Kept
<1>17. \A t \in Spaces \ {s} :
          /\ op'[t] = op[t] /\ mappings'[t] = mappings[t] /\ stray'[t] = stray[t]
          /\ \A v \in UserPages :
                 TranslateIn(tables', pml4'[t], v) = TranslateIn(tables, pml4[t], v)
  BY <1>3, <1>7, Zenon
<1>. QED
  BY <1>15, <1>16, <1>17, TrStep, SMTT(60)

-------------------------------------------------------------------------------
(* What read_bytes copies                                                     *)

\* Byte k of the buffer.
Agrees(o, ts, rt, k, u) ==
    /\ u \in Nat /\ u < UserEnd
    /\ o.got[k].page = TranslateIn(ts, rt, u - (u % PageSize))
    /\ o.got[k].offset = u % PageSize

ReadTr(ts, rt, o, q) ==
    /\ o.call = "map" => o.got = <<>> /\ o.result = "none"
    /\ o.result \in {"none", "Ok"} =>
        /\ \A k \in 1..Len(o.got) : Agrees(o, ts, rt, k, o.start + k - 1)
        /\ o.result = "Ok" /\ Len(o.got) < o.len => q[Len(q)].end = o.start + Len(o.got)

ReadInv == \A s \in Spaces : ReadTr(tables, pml4[s], op[s], mappings[s])

\* A byte of a mapping.
LEMMA ByteAgrees ==
    ASSUME IInv, TrInv, NEW s \in Spaces, NEW k \in 1..Len(mappings[s]), NEW v \in Nat,
           CoveredBy(mappings[s][k], v)
    PROVE  /\ v < UserEnd
           /\ Byte(mappings[s][k].area, v - mappings[s][k].start).page
                  = TranslateIn(tables, pml4[s], v - (v % PageSize))
           /\ Byte(mappings[s][k].area, v - mappings[s][k].start).offset = v % PageSize
<1>1. PICK a, b, m, w : /\ m = mappings[s][k] /\ a = m.area /\ b = m.start
                        /\ w = v - (v % PageSize)
  OBVIOUS
<1>2. /\ b \in Nat /\ m.end \in Nat /\ b % PageSize = 0 /\ m.end <= UserEnd /\ UserEnd \in Nat
  BY <1>1, MappingAt, UserHalf, Zenon
<1>3. b <= v /\ v < m.end
  BY <1>1, Zenon DEF CoveredBy
<1>4. /\ w \in Nat /\ w % PageSize = 0 /\ b <= w /\ w <= v
      /\ (w - b) \div PageSize = (v - b) \div PageSize /\ (v - b) % PageSize = v % PageSize
  BY ONLY <1>1, <1>2, <1>3, v \in Nat, WithinPage, ZenonT(60)
<1>5. w < UserEnd /\ v < UserEnd /\ w < m.end
  BY <1>2, <1>3, <1>4
<1>6. w \in UserPages /\ CoveredBy(m, w)
  BY <1>1, <1>4, <1>5, UserPage, Zenon DEF CoveredBy
<1>7. UserTr(op[s], mappings[s], stray[s], TranslateIn(tables, pml4[s], w), pages, w)
  BY <1>6, Zenon DEF TrInv, SpaceTr
<1>8. Holds(pages, a, b, w, TranslateIn(tables, pml4[s], w))
  BY <1>1, <1>6, <1>7, Zenon DEF UserTr
<1>9. pages[a][(v - b) \div PageSize] = TranslateIn(tables, pml4[s], w)
  BY <1>4, <1>8, Zenon DEF Holds
<1>10. /\ Byte(a, v - b).page = pages[a][(v - b) \div PageSize]
       /\ Byte(a, v - b).offset = (v - b) % PageSize
  BY DEF Byte
<1>. QED
  BY <1>1, <1>4, <1>5, <1>9, <1>10, Zenon

\* Nothing copied yet, or nothing asked for.
LEMMA NothingRead ==
    ASSUME NEW ts, NEW rt, NEW o, NEW q, o.got = <<>>,
           o.call = "map" => o.result = "none", o.result = "Ok" => o.len = 0
    PROVE  ReadTr(ts, rt, o, q)
<1>1. PICK g : g = o.got
  BY Zenon
<1>2. Len(g) = 0 /\ 1..Len(g) = {} /\ (o.result = "Ok" => ~(Len(g) < o.len))
  BY <1>1, SeqEmpty
<1>. QED
  BY <1>1, <1>2, Zenon DEF ReadTr

LEMMA DoneRead ==
    ASSUME NEW ts, NEW rt, NEW q, NEW x
    PROVE  ReadTr(ts, rt, Done(x), q)
<1>1. Done(x).got = <<>> /\ Done(x).call = "none" /\ Done(x).len = 0
  BY DEF Done
<1>. QED
  BY <1>1, NothingRead

\* The translation of what has been copied has not changed.
LEMMA ReadKept ==
    ASSUME NEW ts, NEW rt, NEW tb, NEW rb, NEW o, NEW q, ReadTr(ts, rt, o, q),
           \A u \in UserPages : TranslateIn(tb, rb, u) = TranslateIn(ts, rt, u)
    PROVE  ReadTr(tb, rb, o, q)
<1>1. ASSUME NEW k, NEW u, Agrees(o, ts, rt, k, u)
      PROVE  Agrees(o, tb, rb, k, u)
  <2>1. u \in Nat /\ u < UserEnd /\ UserEnd \in Nat
    BY <1>1, UserHalf DEF Agrees
  <2>2. PICK w : w = u - (u % PageSize)
    OBVIOUS
  <2>3. w \in Nat /\ w % PageSize = 0 /\ w <= u
    <3>1. 0 \in Nat /\ 0 <= u /\ 0 % PageSize = 0
      <4>1. PageSize \in Nat \ {0}
        BY VmSpaceAssumption
      <4>2. 0 % PageSize = 0
        BY <4>1
      <4>. QED
        BY <2>1, <4>2
    <3>. QED
      BY <2>1, <2>2, <3>1, WithinPage
  <2>4. w \in UserPages
    BY <2>1, <2>3, UserPage
  <2>. QED
    BY <1>1, <2>2, <2>4, Zenon DEF Agrees
<1>. QED
  BY <1>1, Zenon DEF ReadTr

LEMMA ReadStep ==
    ASSUME ReadInv, NEW s \in Spaces,
           \A t \in Spaces \ {s} :
               /\ op'[t] = op[t] /\ mappings'[t] = mappings[t]
               /\ \A u \in UserPages :
                      TranslateIn(tables', pml4'[t], u) = TranslateIn(tables, pml4[t], u),
           ReadTr(tables', pml4'[s], op'[s], mappings'[s])
    PROVE  ReadInv'
<1>1. ASSUME NEW t \in Spaces
      PROVE  ReadTr(tables', pml4'[t], op'[t], mappings'[t])
  <2>1. CASE t = s
    BY <2>1, Zenon
  <2>2. CASE t # s
    <3>1. ReadTr(tables, pml4[t], op[t], mappings[t])
      BY DEF ReadInv
    <3>2. \A u \in UserPages : TranslateIn(tables', pml4'[t], u) = TranslateIn(tables, pml4[t], u)
      BY <2>2
    <3>3. ReadTr(tables', pml4'[t], op[t], mappings[t])
      BY ONLY <3>1, <3>2, ReadKept
    <3>. QED
      BY <2>2, <3>3, Zenon
  <2>. QED
    BY <2>1, <2>2
<1>. QED
  BY <1>1 DEF ReadInv

LEMMA ReadInvMapPage ==
    ASSUME IInv, PhysInv, TrInv, ReadInv, NEW s \in Spaces, MapPage(s)
    PROVE  ReadInv'
<1>1. PICK a, k, u : a = op[s].area /\ k = op[s].index /\ u = op[s].start + k * PageSize
  BY SMTT(60)
<1>2. /\ pml4' = pml4 /\ mappings' = mappings
      /\ \/ (\E x : Abandon(s, x)) /\ SameTranslation(tables, pml4, tables', pml4)
         \/ PageMapped(s, a, k, u)
  BY <1>1, MapPageTables
<1>3. op[s].call = "map"
  BY DEF MapPage
<1>4. ASSUME NEW x, Abandon(s, x), SameTranslation(tables, pml4, tables', pml4)
      PROVE  ReadInv'
  <2>1. op'[s] = Done(x) /\ \A t \in Spaces \ {s} : op'[t] = op[t]
    BY <1>4, AbandonSpaces DEF PhysInv
  <2>2. ReadTr(tables', pml4'[s], op'[s], mappings'[s])
    BY <2>1, DoneRead, Zenon
  <2>3. \A t \in Spaces \ {s} :
               /\ op'[t] = op[t] /\ mappings'[t] = mappings[t]
               /\ \A v \in UserPages :
                      TranslateIn(tables', pml4'[t], v) = TranslateIn(tables, pml4[t], v)
    BY <1>2, <1>4, <2>1, Zenon DEF SameTranslation
  <2>. QED
    BY <2>2, <2>3, ReadStep
<1>5. CASE PageMapped(s, a, k, u)
  <2>1. u \in UserPages
    BY <1>1, <1>5, MappedUserPage, Zenon
  <2>2. /\ op' = [op EXCEPT ![s].index = k + 1]
        /\ \A z \in Spaces, o \in UserPages :
               TranslateIn(tables', pml4[z], o) =
                   IF z = s /\ o = u THEN pages'[a][k] ELSE TranslateIn(tables, pml4[z], o)
    BY <1>5, <2>1, Zenon DEF PageMapped
  <2>3. /\ op'[s].call = op[s].call /\ op'[s].got = op[s].got /\ op'[s].result = op[s].result
        /\ \A t \in Spaces \ {s} : op'[t] = op[t]
    <3>1. k \in Nat /\ IInv
      BY <1>1, <1>3, MapInProgress
    <3>2. op' = [op EXCEPT ![s].index = k + 1]
      BY <2>2
    <3>. QED
      BY ONLY <3>1, <3>2, IndexSpaces, Zenon
  <2>4. op[s].got = <<>> /\ op[s].result = "none"
    BY <1>3, Zenon DEF ReadInv, ReadTr
  <2>5. ReadTr(tables', pml4'[s], op'[s], mappings'[s])
    <3>1. op'[s].got = <<>> /\ op'[s].result = "none" /\ "none" # "Ok"
      BY <2>3, <2>4, Zenon
    <3>. QED
      BY <3>1, NothingRead, Zenon
  <2>6. \A t \in Spaces \ {s} :
               /\ op'[t] = op[t] /\ mappings'[t] = mappings[t]
               /\ \A v \in UserPages :
                      TranslateIn(tables', pml4'[t], v) = TranslateIn(tables, pml4[t], v)
    BY <1>2, <2>2, <2>3, Zenon
  <2>. QED
    BY <2>5, <2>6, ReadStep, Zenon
<1>. QED
  BY <1>2, <1>4, <1>5

\* A step that only changes the call of space s.
LEMMA ReadInvQuiet ==
    ASSUME ReadInv, NEW s \in Spaces, tables' = tables, pml4' = pml4, mappings' = mappings,
           \A t \in Spaces \ {s} : op'[t] = op[t],
           ReadTr(tables, pml4[s], op'[s], mappings[s])
    PROVE  ReadInv'
<1>1. ReadTr(tables', pml4'[s], op'[s], mappings'[s])
  BY Zenon
<1>2. \A t \in Spaces \ {s} :
           /\ op'[t] = op[t] /\ mappings'[t] = mappings[t]
           /\ \A v \in UserPages :
                  TranslateIn(tables', pml4'[t], v) = TranslateIn(tables, pml4[t], v)
  BY Zenon
<1>. QED
  BY <1>1, <1>2, ReadStep, Zenon

LEMMA ReadInvFinish ==
    ASSUME IInv, ReadInv, NEW s \in Spaces, tables' = tables, pml4' = pml4, mappings' = mappings,
           NEW x, Finish(s, x)
    PROVE  ReadInv'
<1>1. op'[s] = Done(x) /\ \A t \in Spaces \ {s} : op'[t] = op[t]
  BY Zenon DEF IInv, Finish
<1>2. ReadTr(tables, pml4[s], op'[s], mappings[s])
  BY <1>1, DoneRead, Zenon
<1>. QED
  BY <1>1, <1>2, ReadInvQuiet, Zenon

LEMMA ReadInvMap ==
    ASSUME IInv, ReadInv, NEW s \in Spaces, NEW a \in Areas, NEW u \in MapAddrs, Map(s, a, u)
    PROVE  ReadInv'
<1>1. tables' = tables /\ pml4' = pml4 /\ mappings' = mappings
  BY Zenon DEF Map, memory
<1>2. CASE \E x : Finish(s, x)
  BY <1>1, <1>2, ReadInvFinish, Zenon
<1>3. CASE ~\E x : Finish(s, x)
  <2>1. PICK o : o = [Done("none") EXCEPT
            !.call = "map", !.area = a, !.start = u, !.len = AreaLen(a)]
    BY Zenon
  <2>2. op' = [op EXCEPT ![s] = o]
    BY <1>3, <2>1, Zenon DEF Map
  <2>3. op'[s] = o /\ \A t \in Spaces \ {s} : op'[t] = op[t]
    BY <2>2, Zenon DEF IInv
  <2>4. o.got = <<>> /\ o.result = "none" /\ "none" # "Ok"
    BY <2>1, Zenon DEF Done
  <2>5. ReadTr(tables, pml4[s], op'[s], mappings[s])
    BY <2>3, <2>4, NothingRead, Zenon
  <2>. QED
    BY <1>1, <2>3, <2>5, ReadInvQuiet, Zenon
<1>. QED
  BY <1>2, <1>3, Zenon

LEMMA ReadInvRead ==
    ASSUME IInv, ReadInv, NEW s \in Spaces, NEW u \in ReadAddrs, NEW n \in ReadLens,
           Read(s, u, n)
    PROVE  ReadInv'
<1>1. tables' = tables /\ pml4' = pml4 /\ mappings' = mappings
  BY Zenon DEF Read, memory
<1>2. CASE \E x : Finish(s, x)
  BY <1>1, <1>2, ReadInvFinish, Zenon
<1>3. CASE ~\E x : Finish(s, x)
  <2>1. PICK o : o = [Done("none") EXCEPT !.call = "read", !.start = u, !.len = n,
                                          !.index = LastStartingBefore(s, u)]
    BY Zenon
  <2>2. op' = [op EXCEPT ![s] = o]
    BY <1>3, <2>1, Zenon DEF Read
  <2>3. op'[s] = o /\ \A t \in Spaces \ {s} : op'[t] = op[t]
    BY <2>2, Zenon DEF IInv
  <2>4. o.got = <<>> /\ o.result = "none" /\ "none" # "Ok"
    BY <2>1, Zenon DEF Done
  <2>5. ReadTr(tables, pml4[s], op'[s], mappings[s])
    BY <2>3, <2>4, NothingRead, Zenon
  <2>. QED
    BY <1>1, <2>3, <2>5, ReadInvQuiet, Zenon
<1>. QED
  BY <1>2, <1>3, Zenon

\* Both ways to return Ok.
LEMMA ReadInvDone ==
    ASSUME IInv, ReadInv, NEW s \in Spaces, ReadDone(s)
    PROVE  ReadInv'
<1>1. /\ tables' = tables /\ pml4' = pml4 /\ mappings' = mappings
      /\ op' = [op EXCEPT ![s].call = "none", ![s].result = "Ok"]
      /\ op[s].call = "read"
      /\ Len(op[s].got) = op[s].len \/ op[s].index > Len(mappings[s])
  BY Zenon DEF ReadDone, memory
<1>2. PICK S : op[s] \in OpRecord(S)
  BY Zenon DEF IInv, SpaceInv
<1>3. /\ op'[s] = [op[s] EXCEPT !.call = "none", !.result = "Ok"]
      /\ \A t \in Spaces \ {s} : op'[t] = op[t]
  BY <1>1, Zenon DEF IInv
<1>4. /\ op'[s].call = "none" /\ op'[s].result = "Ok" /\ op'[s].got = op[s].got
      /\ op'[s].start = op[s].start /\ op'[s].len = op[s].len
  BY <1>2, <1>3, Zenon DEF OpRecord
<1>5. PICK q, o, g : q = mappings[s] /\ o = op[s] /\ g = Len(op[s].got)
  BY Zenon
<1>6. g \in Nat /\ o.len \in Nat /\ Len(q) \in Nat /\ ReadFollows(o, q)
  BY <1>1, <1>5, Reading, Zenon
<1>7. ASSUME g < o.len
      PROVE  q[Len(q)].end = o.start + g
  <2>1. o.index > Len(q)
    BY <1>1, <1>5, <1>6, <1>7
  <2>2. o.index \in 1..(Len(q) + 1)
    BY <1>6, Zenon DEF ReadFollows
  <2>3. o.index - 1 = Len(q) /\ ~(o.index <= Len(q)) /\ g # o.len
    BY <1>6, <1>7, <2>1, <2>2
  <2>4. q[o.index - 1].end = o.start + Len(o.got)
    BY <1>5, <1>6, <2>3, Zenon DEF ReadFollows, AtLastBefore
  <2>. QED
    BY <1>5, <2>3, <2>4, Zenon
<1>8. o.result = "none" /\ ReadTr(tables, pml4[s], o, q)
  BY <1>5, <1>6, Zenon DEF ReadFollows, ReadInv
<1>9. \A k \in 1..Len(o.got) : Agrees(o, tables, pml4[s], k, o.start + k - 1)
  BY <1>8, Zenon DEF ReadTr
<1>10. \A k \in 1..Len(op'[s].got) : Agrees(op'[s], tables, pml4[s], k, op'[s].start + k - 1)
  BY <1>4, <1>5, <1>9, Zenon DEF Agrees
<1>11. "none" # "map"
  BY Zenon
<1>12. Len(op'[s].got) < op'[s].len => q[Len(q)].end = op'[s].start + Len(op'[s].got)
  BY <1>4, <1>5, <1>7, Zenon
<1>13. ReadTr(tables, pml4[s], op'[s], q)
  BY <1>4, <1>10, <1>11, <1>12, Zenon DEF ReadTr
<1>. QED
  BY <1>1, <1>3, <1>5, <1>13, ReadInvQuiet, Zenon

LEMMA ReadInvMapping ==
    ASSUME IInv, TrInv, ReadInv, NEW s \in Spaces, ReadMapping(s)
    PROVE  ReadInv'
<1>0. tables' = tables /\ pml4' = pml4 /\ mappings' = mappings
  BY Zenon DEF ReadMapping, memory
<1>1. CASE \E x : Finish(s, x)
  BY <1>0, <1>1, ReadInvFinish, Zenon
<1>2. CASE ~\E x : Finish(s, x)
  <2>1. PICK q, k, b, l : q = mappings[s] /\ k = op[s].index /\ b = op[s].start /\ l = op[s].len
    BY Zenon
  <2>2. PICK old, g : old = op[s].got /\ g = Len(old)
    BY Zenon
  <2>3. PICK u, m : u = b + g /\ m = q[k]
    BY Zenon
  <2>4. PICK n : n = IF l - g < m.end - u THEN l - g ELSE m.end - u
    BY Zenon
  <2>5. PICK copied : copied = [j \in 1..n |-> Byte(m.area, AreaOffset(m, u) + j - 1)]
    BY Zenon
  <2>6. /\ op[s].call = "read" /\ k <= Len(q) /\ g < l /\ m.start <= u /\ u < m.end
        /\ op' = [op EXCEPT ![s].got = @ \o copied, ![s].index = @ + 1]
    BY <1>2, <2>1, <2>2, <2>3, <2>4, <2>5, Zenon DEF ReadMapping
  <2>7. /\ b \in Nat /\ l \in Nat /\ g \in Nat /\ u \in Nat /\ Len(q) \in Nat
        /\ k \in 1..Len(q) /\ m.start \in Nat /\ m.end \in Nat /\ op[s].result = "none"
    <3>1. /\ b \in Nat /\ l \in Nat /\ g \in Nat /\ Len(q) \in Nat
          /\ \A j \in 1..Len(q) : q[j].start \in Nat /\ q[j].end \in Nat
          /\ ReadFollows(op[s], q)
      BY <2>1, <2>2, <2>6, Reading, Zenon
    <3>2. k \in 1..Len(q) /\ op[s].result = "none"
      BY <2>1, <2>6, <3>1 DEF ReadFollows
    <3>. QED
      BY <2>3, <3>1, <3>2
  <2>8. n \in Nat /\ n <= m.end - u
    BY <2>4, <2>6, <2>7, SMTT(60)
  <2>9. PICK S : op[s] \in OpRecord(S)
    BY Zenon DEF IInv, SpaceInv
  <2>10. PICK T : T = S \cup {copied[j] : j \in 1..n}
    BY Zenon
  <2>11. copied \in Seq(T) /\ Len(copied) = n
    <3>1. copied \in [1..n -> T]
      BY <2>5, <2>10, Zenon
    <3>. QED
      BY <2>8, <3>1
  <2>12. old \in Seq(T)
    <3>1. S \subseteq T
      BY <2>10, Zenon
    <3>. QED
      BY <2>2, <2>9, <3>1, SeqSubset, Zenon DEF OpRecord
  <2>13. PICK got : got = old \o copied
    BY Zenon
  <2>14. /\ Len(got) = g + n /\ \A i \in 1..g : got[i] = old[i]
         /\ \A j \in 1..n : got[g + j] = copied[j]
    <3>1. /\ Len(got) = g + n
          /\ \A i \in 1..(g + n) : got[i] = IF i <= g THEN old[i] ELSE copied[i - g]
      BY <2>2, <2>11, <2>12, <2>13, SeqConcat, ZenonT(60)
    <3>2. ASSUME NEW i \in 1..g
          PROVE  got[i] = old[i]
      <4>1. i \in 1..(g + n) /\ i <= g
        BY <2>7, <2>8
      <4>. QED
        BY <3>1, <4>1, Zenon
    <3>3. ASSUME NEW j \in 1..n
          PROVE  got[g + j] = copied[j]
      <4>1. g + j \in 1..(g + n) /\ ~(g + j <= g) /\ (g + j) - g = j
        BY <2>7, <2>8
      <4>. QED
        BY <3>1, <4>1, Zenon
    <3>. QED
      BY <3>1, <3>2, <3>3, Zenon
  <2>15. /\ op'[s] = [op[s] EXCEPT !.got = got, !.index = k + 1]
         /\ \A t \in Spaces \ {s} : op'[t] = op[t]
    BY <2>1, <2>2, <2>6, <2>13, Zenon DEF IInv
  <2>16. PICK o : o = op'[s]
    BY Zenon
  <2>17. o.call = "read" /\ o.result = "none" /\ o.got = got /\ o.start = b
    <3>1. /\ o.call = op[s].call /\ o.result = op[s].result /\ o.got = got
          /\ o.start = op[s].start
      BY <2>9, <2>15, <2>16, Zenon DEF OpRecord
    <3>. QED
      BY <2>1, <2>6, <2>7, <3>1, Zenon
  <2>18. ASSUME NEW i \in 1..g
         PROVE  Agrees(o, tables, pml4[s], i, b + i - 1)
    <3>1. ReadTr(tables, pml4[s], op[s], q)
      BY <2>1, Zenon DEF ReadInv
    <3>2. Agrees(op[s], tables, pml4[s], i, b + i - 1)
      BY <2>1, <2>2, <2>7, <3>1, Zenon DEF ReadTr
    <3>3. o.got[i] = op[s].got[i]
      BY <2>2, <2>14, <2>17, Zenon
    <3>. QED
      BY <3>2, <3>3, Zenon DEF Agrees
  <2>19. ASSUME NEW j \in 1..n
         PROVE  Agrees(o, tables, pml4[s], g + j, u + j - 1)
    <3>1. PICK v : v = u + j - 1
      BY Zenon
    <3>2. v \in Nat /\ m.start <= v /\ v < m.end /\ AreaOffset(m, u) + j - 1 = v - m.start
      BY <2>6, <2>7, <2>8, <3>1, SMTT(60) DEF AreaOffset
    <3>3. CoveredBy(m, v)
      BY <3>2, Zenon DEF CoveredBy
    <3>4. /\ v < UserEnd
          /\ Byte(m.area, v - m.start).page = TranslateIn(tables, pml4[s], v - (v % PageSize))
          /\ Byte(m.area, v - m.start).offset = v % PageSize
      BY <2>1, <2>3, <2>7, <3>2, <3>3, ByteAgrees, ZenonT(60)
    <3>5. o.got[g + j] = Byte(m.area, v - m.start)
      <4>1. copied[j] = Byte(m.area, AreaOffset(m, u) + j - 1)
        BY <2>5, Zenon
      <4>. QED
        BY <2>14, <2>17, <3>2, <4>1, Zenon
    <3>. QED
      BY <3>1, <3>2, <3>4, <3>5, Zenon DEF Agrees
  <2>20. ASSUME NEW i \in 1..(g + n)
         PROVE  Agrees(o, tables, pml4[s], i, b + i - 1)
    <3>1. CASE i \in 1..g
      BY <2>18, <3>1, Zenon
    <3>2. CASE i \notin 1..g
      <4>1. PICK j \in 1..n : i = g + j
        <5>1. i - g \in 1..n /\ i = g + (i - g)
          BY <2>7, <2>8, <3>2
        <5>. QED
          BY <5>1, Zenon
      <4>2. b + i - 1 = u + j - 1
        BY <2>3, <2>7, <2>8, <4>1
      <4>. QED
        BY <2>19, <4>1, <4>2, Zenon
    <3>. QED
      BY <3>1, <3>2, Zenon
  <2>21. ReadTr(tables, pml4[s], o, q)
    <3>1. o.call # "map" /\ o.result # "Ok"
      BY <2>17, Zenon
    <3>2. \A i \in 1..Len(o.got) : Agrees(o, tables, pml4[s], i, o.start + i - 1)
      BY <2>14, <2>17, <2>20, Zenon
    <3>. QED
      BY <3>1, <3>2, Zenon DEF ReadTr
  <2>. QED
    BY <1>0, <2>1, <2>15, <2>16, <2>21, ReadInvQuiet, Zenon
<1>. QED
  BY <1>1, <1>2, Zenon

LEMMA ReadInvNew ==
    ASSUME PhysInv, ReadInv, NEW s \in Spaces, New(s)
    PROVE  ReadInv'
<1>1. SameTranslation(tables, pml4, tables', pml4')
  BY NewTables, Zenon DEF PhysInv
<1>2. mappings' = mappings /\ op' = op
  BY Zenon DEF New
<1>3. \A t \in Spaces :
          /\ op'[t] = op[t] /\ mappings'[t] = mappings[t]
          /\ \A u \in UserPages :
                 TranslateIn(tables', pml4'[t], u) = TranslateIn(tables, pml4[t], u)
  BY <1>1, <1>2, Zenon DEF SameTranslation
<1>4. ReadTr(tables', pml4'[s], op'[s], mappings'[s])
  <2>1. ReadTr(tables, pml4[s], op[s], mappings[s])
    BY Zenon DEF ReadInv
  <2>2. \A u \in UserPages : TranslateIn(tables', pml4'[s], u) = TranslateIn(tables, pml4[s], u)
    BY <1>3, Zenon
  <2>3. ReadTr(tables', pml4'[s], op[s], mappings[s])
    BY ONLY <2>1, <2>2, ReadKept
  <2>. QED
    BY <1>3, <2>3, Zenon
<1>. QED
  BY <1>3, <1>4, ReadStep, Zenon

LEMMA ReadInvMapDone ==
    ASSUME IInv, ReadInv, NEW s \in Spaces, MapDone(s)
    PROVE  ReadInv'
<1>1. /\ tables' = tables /\ pml4' = pml4 /\ Finish(s, "Ok")
      /\ \E q : mappings' = [mappings EXCEPT ![s] = q]
  BY Zenon DEF MapDone, memory
<1>2. op'[s] = Done("Ok") /\ \A t \in Spaces \ {s} : op'[t] = op[t]
  BY <1>1, Zenon DEF IInv, Finish
<1>3. \A t \in Spaces \ {s} : mappings'[t] = mappings[t]
  BY <1>1, Zenon DEF IInv
<1>4. ReadTr(tables', pml4'[s], op'[s], mappings'[s])
  BY <1>2, DoneRead, Zenon
<1>5. \A t \in Spaces \ {s} :
           /\ op'[t] = op[t] /\ mappings'[t] = mappings[t]
           /\ \A v \in UserPages :
                  TranslateIn(tables', pml4'[t], v) = TranslateIn(tables, pml4[t], v)
  BY <1>1, <1>2, <1>3, Zenon
<1>. QED
  BY <1>4, <1>5, ReadStep, Zenon

LEMMA InitReadInv ==
    ASSUME Init
    PROVE  ReadInv
<1>1. \A s \in Spaces : op[s] = Done("none")
  BY Zenon DEF Init
<1>. QED
  BY <1>1, DoneRead, Zenon DEF ReadInv

LEMMA NextReadInv ==
    ASSUME IInv, PhysInv, TrInv, ReadInv, [Next]_vars
    PROVE  ReadInv'
<1>1. CASE UNCHANGED vars
  <2>1. UNCHANGED <<tables, pml4, mappings, op>>
    BY <1>1, Zenon DEF vars
  <2>. QED
    BY <2>1, Zenon DEF ReadInv
<1>2. ASSUME NEW s \in Spaces, New(s)
      PROVE  ReadInv'
  BY <1>2, ReadInvNew, Zenon
<1>3. ASSUME NEW s \in Spaces, NEW a \in Areas, NEW u \in MapAddrs, Map(s, a, u)
      PROVE  ReadInv'
  BY <1>3, ReadInvMap, Zenon
<1>4. ASSUME NEW s \in Spaces, MapPage(s)
      PROVE  ReadInv'
  BY <1>4, ReadInvMapPage, Zenon
<1>5. ASSUME NEW s \in Spaces, MapDone(s)
      PROVE  ReadInv'
  BY <1>5, ReadInvMapDone, Zenon
<1>6. ASSUME NEW s \in Spaces, NEW u \in ReadAddrs, NEW n \in ReadLens, Read(s, u, n)
      PROVE  ReadInv'
  BY <1>6, ReadInvRead, Zenon
<1>7. ASSUME NEW s \in Spaces, ReadMapping(s)
      PROVE  ReadInv'
  BY <1>7, ReadInvMapping, Zenon
<1>8. ASSUME NEW s \in Spaces, ReadDone(s)
      PROVE  ReadInv'
  BY <1>8, ReadInvDone, Zenon
<1>9. ASSUME NEW s \in Spaces, NewFails(s)
      PROVE  ReadInv'
  BY <1>1, <1>9, Zenon DEF NewFails
<1>. QED
  BY <1>1, <1>2, <1>3, <1>4, <1>5, <1>6, <1>7, <1>8, <1>9, Zenon DEF Next

-------------------------------------------------------------------------------
(* The theorems                                                               *)

LEMMA NextTrInv ==
    ASSUME CanonicalAddrs, IInv, PhysInv, TrInv, [Next]_vars
    PROVE  TrInv'
<1>1. CASE UNCHANGED vars
  <2>1. UNCHANGED <<left, tables, pml4, pages, mappings, stray, op>>
    BY <1>1, Zenon DEF vars
  <2>. QED
    BY <2>1, Zenon DEF TrInv
<1>2. ASSUME NEW s \in Spaces, New(s)
      PROVE  TrInv'
  BY <1>2, TrNew, Zenon
<1>3. ASSUME NEW s \in Spaces, NEW a \in Areas, NEW u \in MapAddrs, Map(s, a, u)
      PROVE  TrInv'
  BY <1>3, TrMap, Zenon
<1>4. ASSUME NEW s \in Spaces, MapPage(s)
      PROVE  TrInv'
  BY <1>4, TrMapPage, Zenon
<1>5. ASSUME NEW s \in Spaces, MapDone(s)
      PROVE  TrInv'
  BY <1>5, TrMapDone, Zenon
<1>6. ASSUME NEW s \in Spaces,
             \/ \E u \in ReadAddrs, n \in ReadLens : Read(s, u, n)
             \/ ReadMapping(s) \/ ReadDone(s)
      PROVE  TrInv'
  BY <1>6, ReadQuiet, TrQuiet, Zenon
<1>7. ASSUME NEW s \in Spaces, NewFails(s)
      PROVE  TrInv'
  BY <1>1, <1>7, Zenon DEF NewFails
<1>. QED
  BY <1>1, <1>2, <1>3, <1>4, <1>5, <1>6, <1>7, Zenon DEF Next

LEMMA TrInductive ==
    ASSUME CanonicalAddrs
    PROVE  Spec => [](IInv /\ PhysInv /\ TrInv)
<1>1. Init => IInv /\ PhysInv /\ TrInv
  BY InitIInv, InitPhysInv, InitTrInv, Zenon
<1>2. (IInv /\ PhysInv /\ TrInv) /\ [Next]_vars => (IInv /\ PhysInv /\ TrInv)'
  BY NextIInv, NextPhysInv, NextTrInv, Zenon
<1>. QED
  BY <1>1, <1>2, PTL DEF Spec

\* Mappings and page tables agree in every address space, for every geometry of the page
\* tables: what a mapping covers is translated to the filled pages of its area, and
\* nothing else is but what a failed map() left behind and what a map() in progress has
\* mapped so far.
THEOREM TranslationsExact ==
    ASSUME CanonicalAddrs
    PROVE  Spec => []TranslationExact
<1>1. IInv /\ PhysInv /\ TrInv => TranslationExact
  <2>. SUFFICES ASSUME IInv, PhysInv, TrInv, NEW s \in Spaces, NEW u \in UserPages
                PROVE  IF \E k \in DOMAIN mappings[s] : Covers(s, k, u)
                       THEN /\ Promised(s, u) # None /\ Translate(s, u) = Promised(s, u)
                            /\ u \notin stray[s]
                       ELSE Translate(s, u) # None <=> u \in stray[s] \/ BeingMapped(s, u)
    BY Zenon DEF TranslationExact
  <2>1. PICK x : x = Translate(s, u)
    BY Zenon
  <2>2. UserTr(op[s], mappings[s], stray[s], x, pages, u)
    BY <2>1, TranslateIs, Zenon DEF TrInv, SpaceTr
  <2>3. DOMAIN mappings[s] = 1..Len(mappings[s])
    BY MappingFields, Zenon DEF IInv, SpaceInv
  <2>4. \A k : Covers(s, k, u) <=> CoveredBy(mappings[s][k], u)
    BY Zenon DEF Covers, CoveredBy
  <2>5. BeingMapped(s, u) <=> InProgress(op[s], u)
    BY Zenon DEF BeingMapped, InProgress
  <2>6. CASE \E k \in DOMAIN mappings[s] : Covers(s, k, u)
    <3>1. PICK k : k = CHOOSE j \in DOMAIN mappings[s] : Covers(s, j, u)
      BY Zenon
    <3>2. k \in DOMAIN mappings[s] /\ Covers(s, k, u)
      BY <2>6, <3>1, Zenon
    <3>3. Holds(pages, mappings[s][k].area, mappings[s][k].start, u, x) /\ u \notin stray[s]
      BY <2>2, <2>3, <2>4, <3>2, Zenon DEF UserTr
    <3>4. Promised(s, u) = pages[mappings[s][k].area][(u - mappings[s][k].start) \div PageSize]
      BY <2>6, <3>1, Zenon DEF Promised
    <3>. QED
      BY <2>1, <2>6, <3>3, <3>4, Zenon DEF Holds
  <2>7. CASE ~\E k \in DOMAIN mappings[s] : Covers(s, k, u)
    BY <2>1, <2>2, <2>3, <2>4, <2>5, <2>7, Zenon DEF UserTr, Holds
  <2>. QED
    BY <2>6, <2>7, Zenon
<1>. QED
  BY <1>1, TrInductive, PTL

LEMMA ReadInductive ==
    ASSUME CanonicalAddrs
    PROVE  Spec => [](IInv /\ PhysInv /\ TrInv /\ ReadInv)
<1>1. Init => IInv /\ PhysInv /\ TrInv /\ ReadInv
  BY InitIInv, InitPhysInv, InitTrInv, InitReadInv, Zenon
<1>2. (IInv /\ PhysInv /\ TrInv /\ ReadInv) /\ [Next]_vars
          => (IInv /\ PhysInv /\ TrInv /\ ReadInv)'
  BY NextIInv, NextPhysInv, NextTrInv, NextReadInv, Zenon
<1>. QED
  BY <1>1, <1>2, PTL DEF Spec

\* read_bytes goes through the list of mappings and their areas, the program through the
\* page tables: every byte it has copied is the byte the program reads at that address, and
\* an Ok with fewer bytes than were asked for ends where the last mapping ends.
THEOREM ReadsAgree ==
    ASSUME CanonicalAddrs
    PROVE  Spec => []ReadAgrees
<1>1. IInv /\ PhysInv /\ TrInv /\ ReadInv => ReadAgrees
  <2>. SUFFICES ASSUME IInv, ReadInv, NEW s \in Spaces, op[s].result \in {"none", "Ok"}
                PROVE  /\ \A k \in DOMAIN op[s].got :
                           LET u == op[s].start + k - 1 IN
                           /\ op[s].got[k].page = Translate(s, u - (u % PageSize))
                           /\ op[s].got[k].offset = u % PageSize
                       /\ op[s].result = "Ok" /\ Len(op[s].got) < op[s].len =>
                           mappings[s][Len(mappings[s])].end = op[s].start + Len(op[s].got)
    BY Zenon DEF ReadAgrees
  <2>1. ReadTr(tables, pml4[s], op[s], mappings[s])
    BY Zenon DEF ReadInv
  <2>2. DOMAIN op[s].got = 1..Len(op[s].got)
    <3>1. PICK S : op[s] \in OpRecord(S)
      BY Zenon DEF IInv, SpaceInv
    <3>2. op[s].got \in Seq(S)
      BY <3>1, Zenon DEF OpRecord
    <3>. QED
      BY <3>2, SeqTyped, Zenon
  <2>3. ASSUME NEW k \in DOMAIN op[s].got, NEW u, u = op[s].start + k - 1
        PROVE  /\ op[s].got[k].page = Translate(s, u - (u % PageSize))
               /\ op[s].got[k].offset = u % PageSize
    <3>1. Agrees(op[s], tables, pml4[s], k, u)
      BY <2>1, <2>2, <2>3, Zenon DEF ReadTr
    <3>. QED
      BY <3>1, TranslateIs, Zenon DEF Agrees
  <2>. QED
    BY <2>1, <2>3, Zenon DEF ReadTr
<1>. QED
  BY <1>1, ReadInductive, PTL
===============================================================================
