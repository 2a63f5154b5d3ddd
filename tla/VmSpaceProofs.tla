----------------------------- MODULE VmSpaceProofs -----------------------------
(***************************************************************************)
(* Proofs about VmSpace, for every number of spaces, areas, addresses and  *)
(* page-table geometry: MappingsSorted, ReadRefused and PagesExclusive.    *)
(*                                                                         *)
(* The order of the mappings and the two binary searches depend on each    *)
(* other: partition_point counts what it should only in a sorted list, and *)
(* the list stays sorted only if the count is the place to insert at.      *)
(* IInv adds what a call knows while it holds the lock: the range of a     *)
(* map() in progress is free, and a read_bytes in progress is at the only  *)
(* mapping that can cover the next address.                                *)
(*                                                                         *)
(* PhysInv adds to the tree of PageTableProofs the pages of the areas and  *)
(* the pages still free.                                                   *)
(***************************************************************************)
EXTENDS PageTableProofs

-------------------------------------------------------------------------------
(* The inductive invariant                                                    *)

Mapping == [start : Nat, end : Nat, area : Areas]

OpRecord(S) ==
    [call : {"none", "map", "read"}, area : Areas \cup {None}, start : Nat, len : Nat,
     index : Nat, got : Seq(S), result : S]

\* The lists, each of mappings that are not empty and in order.
Ordered(q) ==
    /\ \A k \in 1..Len(q) : q[k].start < q[k].end
    /\ \A k, m \in 1..Len(q) : k < m => q[k].end <= q[m].start

\* The range of a map() in progress is free.
MapFree(o, q) ==
    /\ o.area \in Areas /\ o.len = AreaLen(o.area)
    /\ \A k \in 1..Len(q) : ~overlaps_with(q[k], o.start, o.start + o.len)

\* A read_bytes in progress is at the last mapping that starts at or before its first
\* address, has filled the buffer, or has read up to the end of the mapping before.
AtLastBefore(o, q) ==
    /\ Len(o.got) = 0 /\ o.index <= Len(q) /\ q[o.index].start <= o.start
    /\ \A k \in 1..Len(q) : k > o.index => q[k].start > o.start

ReadFollows(o, q) ==
    /\ o.result = "none" /\ o.index \in 1..(Len(q) + 1)
    /\ \/ AtLastBefore(o, q)
       \/ Len(o.got) = o.len
       \/ o.index > 1 /\ q[o.index - 1].end = o.start + Len(o.got)

SpaceInv(o, q) ==
    /\ \E S : o \in OpRecord(S)
    /\ q \in Seq(Mapping) /\ Ordered(q)
    /\ o.call = "map" => MapFree(o, q)
    /\ o.call = "read" => ReadFollows(o, q)

IInv ==
    /\ DOMAIN op = Spaces /\ DOMAIN mappings = Spaces
    /\ \A s \in Spaces : SpaceInv(op[s], mappings[s])

-------------------------------------------------------------------------------
(* Sequences                                                                  *)

LEMMA SeqSubset ==
    ASSUME NEW S, NEW T, NEW q \in Seq(S), S \subseteq T
    PROVE  q \in Seq(T)
OBVIOUS

LEMMA SeqEmpty ==
    ASSUME NEW S
    PROVE  <<>> \in Seq(S) /\ Len(<<>>) = 0
OBVIOUS

LEMMA SeqTyped ==
    ASSUME NEW S, NEW q \in Seq(S)
    PROVE  /\ Len(q) \in Nat /\ DOMAIN q = 1..Len(q) /\ q \in [1..Len(q) -> S]
           /\ \A k \in 1..Len(q) : q[k] \in S
OBVIOUS

LEMMA SeqConcat ==
    ASSUME NEW S, NEW q \in Seq(S), NEW r \in Seq(S)
    PROVE  /\ q \o r \in Seq(S) /\ Len(q \o r) = Len(q) + Len(r)
           /\ \A k \in 1..(Len(q) + Len(r)) :
                  (q \o r)[k] = IF k <= Len(q) THEN q[k] ELSE r[k - Len(q)]
OBVIOUS

LEMMA SeqPart ==
    ASSUME NEW S, NEW q, NEW m \in Int, NEW n \in Int, \A k \in m..n : q[k] \in S
    PROVE  /\ SubSeq(q, m, n) \in Seq(S)
           /\ Len(SubSeq(q, m, n)) = IF m <= n THEN n - m + 1 ELSE 0
           /\ \A k \in 1..(n - m + 1) : SubSeq(q, m, n)[k] = q[m + k - 1]
OBVIOUS

-------------------------------------------------------------------------------
(* Sorted lists                                                               *)

LEMMA MappingFields ==
    ASSUME NEW q \in Seq(Mapping)
    PROVE  /\ Len(q) \in Nat /\ DOMAIN q = 1..Len(q)
           /\ \A k \in 1..Len(q) : q[k] \in Mapping /\ q[k].start \in Nat /\ q[k].end \in Nat
<1>1. Len(q) \in Nat /\ DOMAIN q = 1..Len(q) /\ \A k \in 1..Len(q) : q[k] \in Mapping
  BY SeqTyped, Zenon
<1>. QED
  BY <1>1, Zenon DEF Mapping

\* What Vec::insert returns.
Inserted(r, q, m, n) ==
    /\ Len(r) = Len(q) + 1
    /\ \A i \in 1..(Len(q) + 1) :
           r[i] = IF i <= n THEN q[i] ELSE IF i = n + 1 THEN m ELSE q[i - 1]

LEMMA InsertElements ==
    ASSUME NEW T, NEW q \in Seq(T), NEW m \in T, NEW n \in 0..Len(q)
    PROVE  \E r \in Seq(T) :
               /\ r = SubSeq(q, 1, n) \o <<m>> \o SubSeq(q, n + 1, Len(q))
               /\ Inserted(r, q, m, n)
<1>0. Len(q) \in Nat /\ n \in Nat /\ n <= Len(q) /\ \A k \in 1..Len(q) : q[k] \in T
  BY SeqTyped
<1>1. PICK a : a = SubSeq(q, 1, n)
  BY Zenon
<1>2. a \in Seq(T) /\ Len(a) = n /\ \A i \in 1..n : a[i] = q[i]
  <2>1. n \in Int /\ \A i \in 1..n : q[i] \in T
    BY <1>0
  <2>2. /\ a \in Seq(T) /\ Len(a) = IF 1 <= n THEN n - 1 + 1 ELSE 0
        /\ \A i \in 1..(n - 1 + 1) : a[i] = q[1 + i - 1]
    BY <1>1, <2>1, SeqPart
  <2>3. n - 1 + 1 = n /\ (IF 1 <= n THEN n - 1 + 1 ELSE 0) = n
    BY <1>0
  <2>4. \A i \in 1..n : 1 + i - 1 = i
    BY <1>0
  <2>. QED
    BY <2>2, <2>3, <2>4, Zenon
<1>3. PICK c : c = SubSeq(q, n + 1, Len(q))
  BY Zenon
<1>4. c \in Seq(T) /\ Len(c) = Len(q) - n /\ \A i \in 1..(Len(q) - n) : c[i] = q[n + i]
  <2>1. n + 1 \in Int /\ Len(q) \in Int /\ \A i \in (n + 1)..Len(q) : q[i] \in T
    BY <1>0
  <2>2. /\ c \in Seq(T) /\ Len(c) = IF n + 1 <= Len(q) THEN Len(q) - (n + 1) + 1 ELSE 0
        /\ \A i \in 1..(Len(q) - (n + 1) + 1) : c[i] = q[n + 1 + i - 1]
    BY <1>3, <2>1, SeqPart
  <2>3. /\ Len(q) - (n + 1) + 1 = Len(q) - n
        /\ (IF n + 1 <= Len(q) THEN Len(q) - (n + 1) + 1 ELSE 0) = Len(q) - n
    BY <1>0
  <2>4. \A i \in 1..(Len(q) - n) : n + 1 + i - 1 = n + i
    BY <1>0
  <2>. QED
    BY <2>2, <2>3, <2>4, Zenon
<1>5. PICK b : b = <<m>>
  BY Zenon
<1>6. b \in Seq(T) /\ Len(b) = 1 /\ b[1] = m
  BY <1>5
<1>7. PICK d : d = a \o b
  BY Zenon
<1>8. /\ d \in Seq(T) /\ Len(d) = n + 1
      /\ \A i \in 1..(n + 1) : d[i] = IF i <= n THEN a[i] ELSE b[i - n]
  <2>1. /\ d \in Seq(T) /\ Len(d) = Len(a) + Len(b)
        /\ \A i \in 1..(Len(a) + Len(b)) : d[i] = IF i <= Len(a) THEN a[i] ELSE b[i - Len(a)]
    BY <1>2, <1>6, <1>7, SeqConcat, Zenon
  <2>. QED
    BY <1>2, <1>6, <2>1, Zenon
<1>9. PICK r : r = d \o c
  BY Zenon
<1>10. /\ r \in Seq(T) /\ Len(r) = n + 1 + (Len(q) - n)
       /\ \A i \in 1..(n + 1 + (Len(q) - n)) : r[i] = IF i <= n + 1 THEN d[i] ELSE c[i - (n + 1)]
  <2>1. /\ r \in Seq(T) /\ Len(r) = Len(d) + Len(c)
        /\ \A i \in 1..(Len(d) + Len(c)) : r[i] = IF i <= Len(d) THEN d[i] ELSE c[i - Len(d)]
    BY <1>4, <1>8, <1>9, SeqConcat, Zenon
  <2>. QED
    BY <1>4, <1>8, <2>1, Zenon
<1>11. n + 1 + (Len(q) - n) = Len(q) + 1
  BY <1>0
<1>12. ASSUME NEW i \in 1..(Len(q) + 1)
       PROVE  r[i] = IF i <= n THEN q[i] ELSE IF i = n + 1 THEN m ELSE q[i - 1]
  <2>1. r[i] = IF i <= n + 1 THEN d[i] ELSE c[i - (n + 1)]
    BY <1>10, <1>11, SMTT(60)
  <2>2. CASE i <= n
    <3>1. i \in 1..n /\ i \in 1..(n + 1) /\ i <= n + 1
      BY <1>0, <2>2
    <3>. QED
      BY <1>2, <1>8, <2>1, <2>2, <3>1, Zenon
  <2>3. CASE i = n + 1
    <3>1. i \in 1..(n + 1) /\ i <= n + 1 /\ ~(i <= n) /\ i - n = 1
      BY <1>0, <2>3
    <3>. QED
      BY <1>6, <1>8, <2>1, <2>3, <3>1
  <2>4. CASE i > n + 1
    <3>1. /\ ~(i <= n + 1) /\ ~(i <= n) /\ i # n + 1
          /\ i - (n + 1) \in 1..(Len(q) - n) /\ n + (i - (n + 1)) = i - 1
      BY <1>0, <2>4
    <3>2. c[i - (n + 1)] = q[n + (i - (n + 1))]
      BY <1>4, <3>1
    <3>. QED
      BY <2>1, <3>1, <3>2
  <2>. QED
    BY <1>0, <2>2, <2>3, <2>4
<1>13. Inserted(r, q, m, n)
  BY <1>10, <1>11, <1>12, Zenon DEF Inserted
<1>14. r = SubSeq(q, 1, n) \o <<m>> \o SubSeq(q, n + 1, Len(q))
  BY <1>1, <1>3, <1>5, <1>7, <1>9, Zenon
<1>. QED
  BY <1>10, <1>13, <1>14, Zenon

\* Inserting a mapping behind those that end before it and in front of those that start
\* behind it keeps the list in order.
LEMMA InsertedOrdered ==
    ASSUME NEW q \in Seq(Mapping), Ordered(q), NEW m \in Mapping, m.start < m.end,
           NEW n \in 0..Len(q),
           \A k \in 1..n : q[k].end <= m.start,
           \A k \in (n + 1)..Len(q) : m.end <= q[k].start,
           NEW r \in Seq(Mapping), Inserted(r, q, m, n)
    PROVE  Ordered(r)
<1>0. Len(q) \in Nat /\ n \in Nat /\ n <= Len(q)
  BY MappingFields
<1>1. \A k \in 1..Len(q) : q[k].start < q[k].end
  BY Zenon DEF Ordered
<1>2. \A k, j \in 1..Len(q) : k < j => q[k].end <= q[j].start
  BY DEF Ordered
<1>3. ASSUME NEW i \in 1..(Len(q) + 1)
      PROVE  /\ i <= n => i \in 1..n /\ i \in 1..Len(q) /\ r[i] = q[i]
             /\ i = n + 1 => r[i] = m
             /\ i > n + 1 => /\ i - 1 \in (n + 1)..Len(q) /\ i - 1 \in 1..Len(q)
                             /\ r[i] = q[i - 1]
  BY <1>0 DEF Inserted
<1>4. ASSUME NEW i \in 1..(Len(q) + 1)
      PROVE  r[i].start < r[i].end
  <2>1. i <= n \/ i = n + 1 \/ i > n + 1
    BY <1>0
  <2>. QED
    BY <1>1, <1>3, <2>1, Zenon
<1>5. ASSUME NEW i \in 1..(Len(q) + 1), NEW j \in 1..(Len(q) + 1), i < j
      PROVE  r[i].end <= r[j].start
  <2>1. CASE j <= n
    <3>1. i <= n
      BY <1>0, <1>5, <2>1
    <3>. QED
      BY <1>2, <1>3, <1>5, <2>1, <3>1, Zenon
  <2>2. CASE i <= n /\ j = n + 1
    BY <1>3, <2>2
  <2>3. CASE i <= n /\ j > n + 1
    <3>1. i < j - 1
      BY <1>0, <2>3
    <3>. QED
      BY <1>2, <1>3, <2>3, <3>1, Zenon
  <2>4. CASE i = n + 1 /\ j > n + 1
    BY <1>3, <2>4
  <2>5. CASE i > n + 1
    <3>1. j > n + 1 /\ i - 1 < j - 1
      BY <1>0, <1>5, <2>5
    <3>. QED
      BY <1>2, <1>3, <2>5, <3>1, Zenon
  <2>6. j <= n \/ (i <= n /\ j = n + 1) \/ (i <= n /\ j > n + 1) \/ (i = n + 1 /\ j > n + 1)
            \/ i > n + 1
    BY <1>0, <1>5
  <2>. QED
    BY <2>1, <2>2, <2>3, <2>4, <2>5, <2>6, Zenon
<1>. QED
  BY <1>4, <1>5, Zenon DEF Ordered, Inserted

-------------------------------------------------------------------------------
(* Calls                                                                      *)

LEMMA AreaLenPositive ==
    ASSUME NEW a \in Areas
    PROVE  AreaLen(a) \in Nat \ {0}
<1>1. NumPages[a] \in Nat \ {0} /\ PageSize \in Nat \ {0}
  BY VmSpaceAssumption, Zenon
<1>. QED
  BY <1>1 DEF AreaLen

\* A step of one space, which the others do not see.
LEMMA OneSpace ==
    ASSUME IInv, NEW s \in Spaces, DOMAIN op' = Spaces, DOMAIN mappings' = Spaces,
           \A t \in Spaces \ {s} : op'[t] = op[t] /\ mappings'[t] = mappings[t],
           SpaceInv(op'[s], mappings'[s])
    PROVE  IInv'
<1>1. \A t \in Spaces : SpaceInv(op'[t], mappings'[t])
  BY DEF IInv
<1>. QED
  BY <1>1, Zenon DEF IInv

LEMMA DoneRecord ==
    ASSUME NEW x
    PROVE  Done(x) \in OpRecord({x}) /\ Done(x).call = "none" /\ Len(Done(x).got) = 0
<1>1. <<>> \in Seq({x}) /\ Len(<<>>) = 0
  BY SeqEmpty, Zenon
<1>2. Done(x).got = <<>> /\ Done(x).call = "none"
  BY Zenon DEF Done
<1>. QED
  BY <1>1, <1>2, Zenon DEF Done, OpRecord

\* The call has returned.
LEMMA Returned ==
    ASSUME NEW q \in Seq(Mapping), Ordered(q), NEW x
    PROVE  SpaceInv(Done(x), q)
BY DoneRecord, Zenon DEF SpaceInv

LEMMA FinishPreserves ==
    ASSUME IInv, NEW s \in Spaces, NEW x, Finish(s, x), UNCHANGED mappings
    PROVE  IInv'
<1>1. /\ DOMAIN op' = Spaces /\ op'[s] = Done(x) /\ \A t \in Spaces \ {s} : op'[t] = op[t]
  BY Zenon DEF IInv, Finish
<1>2. SpaceInv(op'[s], mappings'[s])
  BY <1>1, Returned DEF IInv, SpaceInv
<1>. QED
  BY <1>1, <1>2, OneSpace, Zenon DEF IInv

LEMMA MapPreserves ==
    ASSUME IInv, NEW s \in Spaces, NEW a \in Areas, NEW u \in MapAddrs, Map(s, a, u)
    PROVE  IInv'
<1>0. UNCHANGED mappings
  BY Zenon DEF Map
<1>1. CASE \E x : Finish(s, x)
  BY <1>0, <1>1, FinishPreserves, Zenon
<1>2. CASE ~\E x : Finish(s, x)
  <2>1. PICK o : o = [Done("none") EXCEPT
            !.call = "map", !.area = a, !.start = u, !.len = AreaLen(a)]
    BY Zenon
  <2>2. /\ op' = [op EXCEPT ![s] = o]
        /\ \A k \in DOMAIN mappings[s] : ~overlaps_with(mappings[s][k], u, u + AreaLen(a))
    BY <1>2, <2>1 DEF Map
  <2>3. DOMAIN op' = Spaces /\ op'[s] = o /\ \A t \in Spaces \ {s} : op'[t] = op[t]
    BY <2>2, Zenon DEF IInv
  <2>4. mappings[s] \in Seq(Mapping) /\ Ordered(mappings[s])
    BY Zenon DEF IInv, SpaceInv
  <2>5. /\ o \in OpRecord({"none"}) /\ o.call = "map" /\ o.area = a /\ o.start = u
        /\ o.len = AreaLen(a)
    <3>1. Done("none") \in OpRecord({"none"}) /\ u \in Nat /\ AreaLen(a) \in Nat
      BY DoneRecord, AreaLenPositive, VmSpaceAssumption
    <3>. QED
      BY <2>1, <3>1, Zenon DEF OpRecord
  <2>6. MapFree(o, mappings[s])
    BY <2>2, <2>4, <2>5, MappingFields, Zenon DEF MapFree
  <2>7. SpaceInv(op'[s], mappings'[s])
    BY <1>0, <2>3, <2>4, <2>5, <2>6 DEF SpaceInv
  <2>. QED
    BY <1>0, <2>3, <2>7, OneSpace DEF IInv
<1>. QED
  BY <1>1, <1>2, Zenon

LEMMA MapPagePreserves ==
    ASSUME IInv, NEW s \in Spaces, MapPage(s)
    PROVE  IInv'
<1>0. UNCHANGED mappings /\ op[s].call = "map"
  BY Zenon DEF MapPage
<1>1. CASE \E x : Finish(s, x)
  BY <1>0, <1>1, FinishPreserves
<1>2. CASE ~\E x : Finish(s, x)
  <2>1. op' = [op EXCEPT ![s].index = op[s].index + 1]
    BY <1>2, Zenon DEF MapPage, Abandon
  <2>2. PICK S : op[s] \in OpRecord(S)
    BY DEF IInv, SpaceInv
  <2>3. /\ DOMAIN op' = Spaces /\ op'[s] = [op[s] EXCEPT !.index = op[s].index + 1]
        /\ \A t \in Spaces \ {s} : op'[t] = op[t]
    BY <2>1, Zenon DEF IInv
  <2>4. /\ op'[s] \in OpRecord(S) /\ op'[s].call = "map" /\ op'[s].area = op[s].area
        /\ op'[s].len = op[s].len /\ op'[s].start = op[s].start
    BY <1>0, <2>2, <2>3 DEF OpRecord
  <2>5. SpaceInv(op'[s], mappings'[s])
    BY <1>0, <2>4, Zenon DEF IInv, SpaceInv, MapFree
  <2>. QED
    BY <1>0, <2>3, <2>5, OneSpace, Zenon DEF IInv
<1>. QED
  BY <1>1, <1>2, Zenon

\* VmSpace::map has mapped every page: the mapping m is inserted.
NewMapping(s) ==
    [start |-> op[s].start, end |-> op[s].start + op[s].len, area |-> op[s].area]

MapInserts(s, m, r, n) ==
    /\ r \in Seq(Mapping) /\ Ordered(r) /\ n \in 0..Len(mappings[s])
    /\ Inserted(r, mappings[s], m, n)
    /\ DOMAIN op' = Spaces /\ DOMAIN mappings' = Spaces
    /\ op'[s] = Done("Ok") /\ mappings'[s] = r
    /\ \A t \in Spaces \ {s} : op'[t] = op[t] /\ mappings'[t] = mappings[t]

\* What the invariant says of a read_bytes in progress.
LEMMA Reading ==
    ASSUME IInv, NEW s \in Spaces, op[s].call = "read"
    PROVE  /\ op[s].start \in Nat /\ op[s].len \in Nat /\ Len(op[s].got) \in Nat
           /\ mappings[s] \in Seq(Mapping) /\ Ordered(mappings[s])
           /\ Len(mappings[s]) \in Nat /\ DOMAIN mappings[s] = 1..Len(mappings[s])
           /\ \A k \in 1..Len(mappings[s]) :
                  mappings[s][k].start \in Nat /\ mappings[s][k].end \in Nat
           /\ ReadFollows(op[s], mappings[s])
<1>1. PICK S : op[s] \in OpRecord(S)
  BY Zenon DEF IInv, SpaceInv
<1>2. op[s].start \in Nat /\ op[s].len \in Nat /\ op[s].got \in Seq(S)
  BY <1>1, Zenon DEF OpRecord
<1>3. Len(op[s].got) \in Nat
  BY <1>2, SeqTyped, Zenon
<1>4. /\ mappings[s] \in Seq(Mapping) /\ Ordered(mappings[s])
      /\ ReadFollows(op[s], mappings[s])
  BY Zenon DEF IInv, SpaceInv
<1>. QED
  BY <1>2, <1>3, <1>4, MappingFields, Zenon

LEMMA ReadMappingPreserves ==
    ASSUME IInv, NEW s \in Spaces, ReadMapping(s)
    PROVE  IInv'
<1>0. UNCHANGED mappings
  BY Zenon DEF ReadMapping
<1>1. CASE \E x : Finish(s, x)
  BY <1>0, <1>1, FinishPreserves, Zenon
<1>2. CASE ~\E x : Finish(s, x)
  <2>1. PICK q : q = mappings[s]
    BY Zenon
  <2>2. PICK k : k = op[s].index
    OBVIOUS
  <2>3. PICK g : g = Len(op[s].got)
    BY Zenon
  <2>4. PICK u : u = op[s].start + g
    BY Zenon
  <2>5. PICK n : n = IF op[s].len - g < q[k].end - u THEN op[s].len - g ELSE q[k].end - u
    BY Zenon
  <2>6. PICK copied : copied = [j \in 1..n |-> Byte(q[k].area, AreaOffset(q[k], u) + j - 1)]
    BY Zenon
  <2>7. /\ op[s].call = "read" /\ k <= Len(q) /\ g < op[s].len
        /\ q[k].start <= u /\ u < q[k].end
        /\ op' = [op EXCEPT ![s].got = @ \o copied, ![s].index = @ + 1]
    BY <1>2, <2>1, <2>2, <2>3, <2>4, <2>5, <2>6, Zenon DEF ReadMapping
  <2>8. /\ op[s].start \in Nat /\ op[s].len \in Nat /\ g \in Nat /\ u \in Nat
        /\ q \in Seq(Mapping) /\ Ordered(q) /\ Len(q) \in Nat
        /\ k \in 1..Len(q) /\ q[k].end \in Nat /\ op[s].result = "none"
    <3>1. /\ op[s].start \in Nat /\ op[s].len \in Nat /\ g \in Nat
          /\ q \in Seq(Mapping) /\ Ordered(q) /\ Len(q) \in Nat
          /\ \A j \in 1..Len(q) : q[j].end \in Nat
          /\ ReadFollows(op[s], q)
      BY <2>1, <2>3, <2>7, Reading, Zenon
    <3>2. k \in 1..Len(q) /\ op[s].result = "none"
      BY <2>2, <2>7, <3>1 DEF ReadFollows
    <3>. QED
      BY <2>4, <3>1, <3>2
  <2>9. n \in Nat /\ (n = op[s].len - g \/ n = q[k].end - u)
    BY <2>5, <2>7, <2>8, SMTT(60)
  <2>10. PICK S : op[s] \in OpRecord(S)
    BY Zenon DEF IInv, SpaceInv
  <2>11. PICK T : T = S \cup {copied[j] : j \in 1..n}
    BY Zenon
  <2>12. copied \in Seq(T) /\ Len(copied) = n
    <3>1. copied \in [1..n -> T]
      BY <2>6, <2>11, Zenon
    <3>. QED
      BY <2>9, <3>1
  <2>13. op[s].got \in Seq(T) /\ op[s] \in OpRecord(T)
    <3>1. S \subseteq T
      BY <2>11, Zenon
    <3>2. op[s].got \in Seq(T)
      BY <2>10, <3>1, SeqSubset DEF OpRecord
    <3>. QED
      BY <2>10, <3>1, <3>2 DEF OpRecord
  <2>14. PICK got : got = op[s].got \o copied
    BY Zenon
  <2>15. got \in Seq(T) /\ Len(got) = g + n
    BY <2>3, <2>12, <2>13, <2>14, SeqConcat, Zenon
  <2>16. /\ DOMAIN op' = Spaces /\ op'[s] = [op[s] EXCEPT !.got = got, !.index = k + 1]
         /\ \A t \in Spaces \ {s} : op'[t] = op[t]
    BY <2>2, <2>7, <2>14, Zenon DEF IInv
  <2>17. /\ op'[s] \in OpRecord(T) /\ op'[s].call = "read" /\ op'[s].result = "none"
         /\ op'[s].got = got /\ op'[s].index = k + 1
         /\ op'[s].start = op[s].start /\ op'[s].len = op[s].len
    <3>1. k + 1 \in Nat /\ got \in Seq(T) /\ op[s] \in OpRecord(T)
      BY <2>8, <2>13, <2>15
    <3>2. op[s].call = "read" /\ op[s].result = "none"
      BY <2>7, <2>8, Zenon
    <3>. QED
      BY <2>16, <3>1, <3>2, Zenon DEF OpRecord
  <2>18. ReadFollows(op'[s], q)
    <3>0. /\ op[s].start \in Nat /\ op[s].len \in Nat /\ g \in Nat /\ q[k].end \in Nat
          /\ n \in Nat
      BY <2>8, <2>9, Zenon
    <3>1. g + n = op[s].len \/ q[k].end = op[s].start + (g + n)
      BY ONLY <3>0, <2>4, <2>9
    <3>2. k + 1 \in 1..(Len(q) + 1) /\ k + 1 > 1 /\ (k + 1) - 1 = k
      BY <2>8
    <3>3. CASE g + n = op[s].len
      BY <2>15, <2>17, <3>2, <3>3, Zenon DEF ReadFollows
    <3>4. CASE q[k].end = op[s].start + (g + n)
      <4>1. /\ op'[s].result = "none" /\ op'[s].index \in 1..(Len(q) + 1) /\ op'[s].index > 1
        BY <2>17, <3>2, Zenon
      <4>2. op'[s].index - 1 = k
        BY <2>17, <3>2, Zenon
      <4>3. q[op'[s].index - 1].end = op'[s].start + Len(op'[s].got)
        BY <2>15, <2>17, <3>4, <4>2, Zenon
      <4>. QED
        BY <4>1, <4>3, Zenon DEF ReadFollows
    <3>. QED
      BY <3>1, <3>3, <3>4
  <2>19. SpaceInv(op'[s], q)
    BY <2>8, <2>17, <2>18 DEF SpaceInv
  <2>. QED
    BY <1>0, <2>1, <2>16, <2>19, OneSpace, Zenon DEF IInv
<1>. QED
  BY <1>1, <1>2, Zenon

LEMMA ReadDonePreserves ==
    ASSUME IInv, NEW s \in Spaces, ReadDone(s)
    PROVE  IInv'
<1>1. op' = [op EXCEPT ![s].call = "none", ![s].result = "Ok"] /\ UNCHANGED mappings
  BY Zenon DEF ReadDone
<1>2. PICK S : op[s] \in OpRecord(S)
  BY Zenon DEF IInv, SpaceInv
<1>3. /\ DOMAIN op' = Spaces /\ op'[s] = [op[s] EXCEPT !.call = "none", !.result = "Ok"]
      /\ \A t \in Spaces \ {s} : op'[t] = op[t]
  BY <1>1, Zenon DEF IInv
<1>4. op[s] \in OpRecord(S \cup {"Ok"})
  <2>1. op[s].got \in Seq(S \cup {"Ok"})
    BY <1>2, SeqSubset DEF OpRecord
  <2>. QED
    BY <1>2, <2>1, Zenon DEF OpRecord
<1>5. op'[s] \in OpRecord(S \cup {"Ok"}) /\ op'[s].call = "none"
  BY <1>3, <1>4, Zenon DEF OpRecord
<1>6. SpaceInv(op'[s], mappings'[s])
  BY <1>1, <1>5 DEF IInv, SpaceInv
<1>. QED
  BY <1>1, <1>3, <1>6, OneSpace, Zenon DEF IInv

LEMMA InitIInv ==
    ASSUME Init
    PROVE  IInv
<1>1. ASSUME NEW s \in Spaces
      PROVE  SpaceInv(op[s], mappings[s])
  <2>1. op[s] = Done("none") /\ mappings[s] = <<>>
    BY DEF Init
  <2>2. <<>> \in Seq(Mapping) /\ Len(<<>>) = 0
    BY SeqEmpty, Zenon
  <2>3. PICK q : q = <<>>
    BY Zenon
  <2>4. q \in Seq(Mapping) /\ Len(q) = 0
    BY <2>2, <2>3
  <2>5. Ordered(q)
    BY <2>4 DEF Ordered
  <2>. QED
    BY <2>1, <2>3, <2>4, <2>5, Returned, Zenon
<1>. QED
  BY <1>1, Zenon DEF Init, IInv

\* A read that ReadMapping refuses is at an address no mapping covers.
LEMMA NothingCovers ==
    ASSUME IInv, NEW s \in Spaces, op[s].call = "read",
           op[s].index <= Len(mappings[s]), Len(op[s].got) < op[s].len,
           NEW u, u = op[s].start + Len(op[s].got),
           ~Covers(s, op[s].index, u)
    PROVE  /\ u \in op[s].start..(op[s].start + op[s].len - 1)
           /\ ~\E k \in DOMAIN mappings[s] : Covers(s, k, u)
<1>1. PICK q : q = mappings[s]
  BY Zenon
<1>2. PICK i : i = op[s].index
  BY Zenon
<1>3. /\ op[s].start \in Nat /\ op[s].len \in Nat /\ Len(op[s].got) \in Nat
      /\ q \in Seq(Mapping) /\ Len(q) \in Nat /\ DOMAIN q = 1..Len(q)
      /\ \A k \in 1..Len(q) : q[k].start \in Nat /\ q[k].end \in Nat
      /\ Ordered(q) /\ ReadFollows(op[s], q)
  BY <1>1, Reading
<1>4. u \in Nat /\ u \in op[s].start..(op[s].start + op[s].len - 1)
  <2>1. /\ op[s].start \in Nat /\ op[s].len \in Nat /\ Len(op[s].got) \in Nat
        /\ Len(op[s].got) < op[s].len /\ u = op[s].start + Len(op[s].got)
    BY <1>3, Zenon
  <2>. QED
    BY ONLY <2>1
<1>5. i \in 1..Len(q) /\ ~(q[i].start <= u /\ u < q[i].end)
  BY <1>1, <1>2, <1>3 DEF ReadFollows, Covers
<1>6. \A k \in 1..Len(q) : q[k].start < q[k].end
  BY <1>3, Zenon DEF Ordered
<1>7. \A k, j \in 1..Len(q) : k < j => q[k].end <= q[j].start
  BY <1>3, Zenon DEF Ordered
<1>8. ASSUME NEW k \in 1..Len(q), q[k].start <= u, u < q[k].end
      PROVE  FALSE
  <2>1. CASE AtLastBefore(op[s], q)
    <3>1. u = op[s].start /\ q[i].start <= u /\ (k > i => q[k].start > u)
      BY <1>2, <1>3, <2>1 DEF AtLastBefore
    <3>2. u >= q[i].end
      BY <1>3, <1>4, <1>5, <3>1, SMTT(60)
    <3>3. k < i \/ k = i \/ k > i
      BY <1>3, <1>5
    <3>4. CASE k < i
      <4>1. q[k].end <= q[i].start
        BY <1>5, <1>7, <3>4, Zenon
      <4>. QED
        BY <1>3, <1>4, <1>5, <1>8, <3>1, <4>1
    <3>5. CASE k = i
      BY <1>5, <1>8, <3>5, Zenon
    <3>6. CASE k > i
      BY <1>3, <1>4, <1>8, <3>1, <3>6
    <3>. QED
      BY <3>3, <3>4, <3>5, <3>6
  <2>2. CASE i > 1 /\ q[i - 1].end = u
    <3>1. i - 1 \in 1..Len(q) /\ i - 1 < i
      BY <1>3, <1>5, <2>2
    <3>2. q[i].start >= u
      BY <1>3, <1>4, <1>5, <1>7, <2>2, <3>1, Zenon
    <3>3. q[i].start > u
      BY <1>3, <1>4, <1>5, <1>6, <3>2
    <3>4. k < i - 1 \/ k = i - 1 \/ k = i \/ k > i
      BY <1>3, <1>5
    <3>5. CASE k < i - 1
      <4>1. q[k].end <= q[i - 1].start /\ q[i - 1].start < q[i - 1].end
        BY <1>6, <1>7, <3>1, <3>5, Zenon
      <4>. QED
        BY <1>3, <1>4, <1>8, <2>2, <3>1, <4>1
    <3>6. CASE k = i - 1
      BY <1>3, <1>4, <1>8, <2>2, <3>6
    <3>7. CASE k = i
      BY <1>5, <1>8, <3>7, Zenon
    <3>8. CASE k > i
      <4>1. q[i].end <= q[k].start /\ q[i].start < q[i].end
        BY <1>5, <1>6, <1>7, <3>8
      <4>. QED
        BY <1>3, <1>4, <1>5, <1>8, <3>3, <4>1
    <3>. QED
      BY <3>4, <3>5, <3>6, <3>7, <3>8
  <2>3. Len(op[s].got) # op[s].len
    BY <1>3
  <2>. QED
    BY <1>2, <1>3, <2>1, <2>2, <2>3, Zenon DEF ReadFollows
<1>. QED
  BY <1>1, <1>3, <1>4, <1>8, SMTT(60) DEF Covers

-------------------------------------------------------------------------------
(* The pages                                                                  *)

Indices(a) == 0..(NumPages[a] - 1)

\* The pages of the areas are taken from the allocator, are no page tables, and none is in
\* two places.
Filled(ps, ts, n) ==
    /\ DOMAIN ps = Areas /\ \A a \in Areas : ps[a] \in [Indices(a) -> 0..MaxPages]
    /\ \A a \in Areas : \A k \in Indices(a) :
        ps[a][k] # None => ps[a][k] \in ((n + 1)..MaxPages) \ DOMAIN ts
    /\ \A a, b \in Areas : \A k \in Indices(a), j \in Indices(b) :
        ps[a][k] # None /\ ps[a][k] = ps[b][j] => a = b /\ k = j

\* No address is beyond MaxUsize; a map() has a page table and is within its area.
Bounds(o, q, st, rt) ==
    /\ st \subseteq 0..MaxUsize
    /\ \A k \in 1..Len(q) : q[k].end <= MaxUsize
    /\ o.call = "map" =>
        rt # None /\ o.index <= NumPages[o.area] /\ o.start + o.len <= MaxUsize

PhysInv ==
    /\ Tree(tables, pml4, left) /\ Filled(pages, tables, left)
    /\ DOMAIN stray = Spaces
    /\ \A s \in Spaces : Bounds(op[s], mappings[s], stray[s], pml4[s])

LEMMA TreeTyped ==
    ASSUME NEW ts, NEW rt, NEW n, Tree(ts, rt, n)
    PROVE  /\ n \in Nat /\ n <= MaxPages /\ MaxPages \in Nat /\ n \notin DOMAIN ts
           /\ DOMAIN ts \subseteq ((n + 1)..MaxPages) \cup {BOOT_PDPT}
           /\ BOOT_PDPT = MaxPages + 1
           /\ rt \in [Spaces -> 0..MaxPages]
<1>1. PICK pos : Graph(ts, rt, n, pos)
  BY Zenon DEF Tree
<1>2. n \in Nat /\ n <= MaxPages /\ MaxPages \in Nat /\ n \notin DOMAIN ts
  BY <1>1, GraphTyped, Zenon
<1>3. rt \in [Spaces -> 0..MaxPages] /\ DOMAIN ts \subseteq ((n + 1)..MaxPages) \cup {BOOT_PDPT}
  BY <1>1, Zenon DEF Graph
<1>. QED
  BY <1>2, <1>3, Sizes

\* VmArea::ensure_page: the page, and the pages left after it.
Taken(ps, a, k, n, page, l) ==
    /\ page = (IF ps[a][k] # None THEN ps[a][k] ELSE n)
    /\ l = (IF ps[a][k] # None THEN n ELSE n - 1)

Put(ps, a, k, page) == [ps EXCEPT ![a][k] = page]

LEMMA EnsurePage ==
    ASSUME NEW ts, NEW rt, NEW n, Tree(ts, rt, n), NEW ps, Filled(ps, ts, n),
           NEW a \in Areas, NEW k \in Indices(a),
           NEW page, NEW l, Taken(ps, a, k, n, page, l), page # None
    PROVE  /\ Tree(ts, rt, l) /\ l \in 0..n
           /\ page \in ((l + 1)..MaxPages) \ DOMAIN ts
<1>1. /\ n \in Nat /\ n <= MaxPages /\ MaxPages \in Nat /\ n \notin DOMAIN ts
  BY TreeTyped, Zenon
<1>2. CASE ps[a][k] # None
  BY <1>1, <1>2 DEF Filled, Taken
<1>3. CASE ps[a][k] = None
  <2>1. page = n /\ l = n - 1 /\ n # 0
    BY <1>3, Zenon DEF None, Taken
  <2>2. Tree(ts, rt, l)
    BY <2>1, TakePage, Zenon DEF Tree
  <2>. QED
    BY <1>1, <2>1, <2>2
<1>. QED
  BY <1>2, <1>3, Zenon

LEMMA FillPage ==
    ASSUME NEW ts, NEW rt, NEW n, Tree(ts, rt, n), NEW ps, Filled(ps, ts, n),
           NEW a \in Areas, NEW k \in Indices(a),
           NEW page, NEW l, Taken(ps, a, k, n, page, l), page # None,
           NEW tb, NEW m \in 0..l, DOMAIN tb \subseteq (DOMAIN ts \cup (1..l)),
           NEW pc, pc = Put(ps, a, k, page)
    PROVE  /\ Filled(pc, tb, m) /\ pc[a][k] = page
           /\ \A b \in Areas : \A j \in Indices(b) : ps[b][j] # None => pc[b][j] = ps[b][j]
<1>1. /\ n \in Nat /\ n <= MaxPages /\ MaxPages \in Nat
      /\ l \in 0..n /\ page \in ((l + 1)..MaxPages) \ DOMAIN ts
  BY TreeTyped, EnsurePage
<1>2. DOMAIN ps = Areas /\ \A b \in Areas : ps[b] \in [Indices(b) -> 0..MaxPages]
  BY Zenon DEF Filled
<1>3. /\ DOMAIN pc = Areas /\ pc[a] = [ps[a] EXCEPT ![k] = page]
      /\ \A b \in Areas : b # a => pc[b] = ps[b]
  BY <1>2, Zenon DEF Put
<1>4. page \in 0..MaxPages /\ page \in (m + 1)..MaxPages /\ page \notin DOMAIN tb
  BY <1>1
<1>5. /\ pc[a] \in [Indices(a) -> 0..MaxPages] /\ pc[a][k] = page
      /\ \A j \in Indices(a) : j # k => pc[a][j] = ps[a][j]
  BY <1>2, <1>3, <1>4
<1>6. ASSUME NEW b \in Areas, NEW j \in Indices(b)
      PROVE  IF b = a /\ j = k THEN pc[b][j] = page ELSE pc[b][j] = ps[b][j]
  BY <1>3, <1>5, Zenon
<1>7. ASSUME NEW b \in Areas, NEW j \in Indices(b), ps[b][j] # None
      PROVE  /\ pc[b][j] = ps[b][j] /\ ps[b][j] \in (m + 1)..MaxPages /\ ps[b][j] \notin DOMAIN tb
             /\ ps[b][j] = page => b = a /\ j = k
  <2>1. ps[b][j] \in ((n + 1)..MaxPages) \ DOMAIN ts
    BY <1>7, Zenon DEF Filled
  <2>2. pc[b][j] = ps[b][j]
    BY <1>6, <1>7, Zenon DEF Taken
  <2>3. ps[b][j] \in (m + 1)..MaxPages /\ ps[b][j] \notin DOMAIN tb
    BY <1>1, <2>1
  <2>4. ps[b][j] = page => b = a /\ j = k
    <3>1. CASE ps[a][k] # None
      BY <1>7, <3>1 DEF Filled, Taken
    <3>2. CASE ps[a][k] = None
      BY <1>1, <2>1, <3>2 DEF Taken
    <3>. QED
      BY <3>1, <3>2, Zenon
  <2>. QED
    BY <2>2, <2>3, <2>4, Zenon
<1>8. ASSUME NEW b \in Areas, NEW j \in Indices(b), pc[b][j] # None
      PROVE  pc[b][j] \in ((m + 1)..MaxPages) \ DOMAIN tb
  BY <1>4, <1>6, <1>7, <1>8
<1>9. ASSUME NEW b \in Areas, NEW c \in Areas, NEW i \in Indices(b), NEW j \in Indices(c),
             pc[b][i] # None, pc[b][i] = pc[c][j]
      PROVE  b = c /\ i = j
  <2>1. CASE ~(b = a /\ i = k) /\ ~(c = a /\ j = k)
    <3>1. pc[b][i] = ps[b][i] /\ pc[c][j] = ps[c][j]
      BY <1>6, <2>1, Zenon
    <3>2. ps[b][i] # None /\ ps[b][i] = ps[c][j]
      BY <1>9, <3>1, Zenon
    <3>3. \A x, y \in Areas : \A f \in Indices(x), g \in Indices(y) :
              ps[x][f] # None /\ ps[x][f] = ps[y][g] => x = y /\ f = g
      BY Zenon DEF Filled
    <3>. QED
      BY ONLY <1>9, <3>2, <3>3
  <2>2. CASE b = a /\ i = k /\ ~(c = a /\ j = k)
    <3>1. pc[b][i] = page /\ pc[c][j] = ps[c][j]
      BY <1>6, <2>2, Zenon
    <3>. QED
      BY <1>7, <1>9, <2>2, <3>1, Zenon
  <2>3. CASE ~(b = a /\ i = k) /\ c = a /\ j = k
    <3>1. pc[b][i] = ps[b][i] /\ pc[c][j] = page
      BY <1>6, <2>3, Zenon
    <3>. QED
      BY <1>7, <1>9, <2>3, <3>1
  <2>. QED
    BY <2>1, <2>2, <2>3, Zenon
<1>10. \A b \in Areas : pc[b] \in [Indices(b) -> 0..MaxPages]
  BY <1>2, <1>3, <1>5, Zenon
<1>11. Filled(pc, tb, m)
  BY <1>3, <1>8, <1>9, <1>10 DEF Filled
<1>. QED
  BY <1>5, <1>7, <1>11, Zenon

\* What an iteration of the loop of VmSpace::map does.
PageMapped(s, a, k, u) ==
    /\ op' = [op EXCEPT ![s].index = k + 1] /\ UNCHANGED stray
    /\ u < KernelBase /\ pages'[a][k] # None
    /\ u \in UserPages =>
        /\ TranslateIn(tables, pml4[s], u) = None
        /\ \A z \in Spaces, o \in UserPages :
            TranslateIn(tables', pml4[z], o) =
                IF z = s /\ o = u THEN pages'[a][k] ELSE TranslateIn(tables, pml4[z], o)

LEMMA MapPageTables ==
    ASSUME PhysInv, IInv, NEW s \in Spaces, MapPage(s),
           NEW a, a = op[s].area, NEW k, k = op[s].index,
           NEW u, u = op[s].start + k * PageSize
    PROVE  /\ Tree(tables', pml4', left') /\ Filled(pages', tables', left')
           /\ pml4' = pml4 /\ mappings' = mappings
           /\ \A b \in Areas : \A j \in Indices(b) :
                  pages[b][j] # None => pages'[b][j] = pages[b][j]
           /\ \/ (\E x : Abandon(s, x)) /\ SameTranslation(tables, pml4, tables', pml4)
              \/ PageMapped(s, a, k, u)
<1>1. op[s].call = "map" /\ k < NumPages[a] /\ pml4' = pml4 /\ mappings' = mappings
  BY Zenon DEF MapPage
<1>2. /\ a \in Areas /\ k \in Nat /\ op[s].start \in Nat /\ pml4[s] # None
      /\ NumPages[a] \in Nat /\ PageSize \in Nat /\ k \in Indices(a)
  <2>1. PICK S : op[s] \in OpRecord(S)
    BY Zenon DEF IInv, SpaceInv
  <2>2. k \in Nat /\ op[s].start \in Nat
    BY <2>1, Zenon DEF OpRecord
  <2>3. a \in Areas
    BY <1>1, Zenon DEF IInv, SpaceInv, MapFree
  <2>4. pml4[s] # None
    BY <1>1, Zenon DEF PhysInv, Bounds
  <2>5. NumPages[a] \in Nat /\ PageSize \in Nat
    BY <2>3, VmSpaceAssumption, Zenon
  <2>6. k \in Indices(a)
    BY <1>1, <2>2, <2>5 DEF Indices
  <2>. QED
    BY <2>2, <2>3, <2>4, <2>5, <2>6, Zenon
<1>3. u \in Nat
  <2>1. k * PageSize \in Nat
    BY <1>2, Product, Zenon
  <2>. QED
    BY <1>2, <2>1
<1>4. Tree(tables, pml4, left) /\ Filled(pages, tables, left)
  BY Zenon DEF PhysInv
<1>5. PICK page : page = PageOf(a, k)
  BY Zenon
<1>6. PICK l : l = LeftAfter(a, k)
  BY Zenon
<1>7. Taken(pages, a, k, left, page, l)
  BY <1>5, <1>6, Zenon DEF PageOf, LeftAfter, Taken
<1>8. CASE page = None
  <2>1. Abandon(s, "OUT_OF_MEMORY") /\ UNCHANGED <<memory, pages>>
    BY <1>5, <1>8, Zenon DEF MapPage
  <2>2. tables' = tables /\ left' = left /\ pages' = pages
    BY <2>1, Zenon DEF memory
  <2>3. SameTranslation(tables, pml4, tables', pml4)
    BY <2>2, Zenon DEF SameTranslation
  <2>4. Tree(tables', pml4', left') /\ Filled(pages', tables', left')
    BY <1>1, <1>4, <2>2, Zenon
  <2>. QED
    BY <1>1, <2>1, <2>2, <2>3, <2>4, Zenon
<1>9. CASE page # None
  <2>1. PICK w : w = ArchMap(s, u, page, l)
    BY Zenon
  <2>2. /\ pages' = [pages EXCEPT ![a][k] = page] /\ tables' = w.tables /\ left' = w.left
        /\ IF w.error = "Ok"
           THEN op' = [op EXCEPT ![s].index = k + 1] /\ UNCHANGED stray
           ELSE Abandon(s, w.error)
    BY <1>5, <1>6, <1>9, <2>1, Zenon DEF MapPage
  <2>3. /\ Tree(tables, pml4, l) /\ page \in ((l + 1)..MaxPages) \ DOMAIN tables
    BY ONLY <1>2, <1>4, <1>7, <1>9, EnsurePage
  <2>4. Translates(l, s, u, page, w)
    BY <1>2, <1>3, <2>1, <2>3, ArchTranslates, Zenon
  <2>5. PICK tb, m, v, e :
        /\ w = Walk(tb, m, v, e)
        /\ Tree(tb, pml4, m) /\ m \in 0..l
        /\ DOMAIN tb \subseteq (DOMAIN tables \cup (1..l))
        /\ e # "Ok" => SameTranslation(tables, pml4, tb, pml4)
        /\ e = "Ok" => u < KernelBase
        /\ e = "Ok" /\ u \in UserPages =>
            /\ TranslateIn(tables, pml4[s], u) = None
            /\ \A z \in Spaces, o \in UserPages :
                TranslateIn(tb, pml4[z], o) =
                    IF z = s /\ o = u THEN page ELSE TranslateIn(tables, pml4[z], o)
    BY <2>4, Zenon DEF Translates
  <2>6. tables' = tb /\ left' = m /\ w.error = e
    <3>1. w.tables = tb /\ w.left = m /\ w.error = e
      BY <2>5, WalkFields
    <3>. QED
      BY <2>2, <3>1, Zenon
  <2>7. PICK pc : pc = [pages EXCEPT ![a][k] = page]
    BY Zenon
  <2>8. /\ Filled(pc, tb, m) /\ pc[a][k] = page
        /\ \A b \in Areas : \A j \in Indices(b) : pages[b][j] # None => pc[b][j] = pages[b][j]
    <3>1. m \in 0..l /\ DOMAIN tb \subseteq (DOMAIN tables \cup (1..l))
      BY <2>5, Zenon
    <3>2. pc = Put(pages, a, k, page)
      BY <2>7, Zenon DEF Put
    <3>. QED
      BY ONLY <1>2, <1>4, <1>7, <1>9, <3>1, <3>2, FillPage
  <2>9. pages' = pc
    BY <2>2, <2>7, Zenon
  <2>10. Tree(tables', pml4', left') /\ Filled(pages', tables', left')
    BY <1>1, <2>5, <2>6, <2>8, <2>9, Zenon
  <2>11. \/ (\E x : Abandon(s, x)) /\ SameTranslation(tables, pml4, tables', pml4)
         \/ PageMapped(s, a, k, u)
    <3>1. CASE e # "Ok"
      <4>1. Abandon(s, e)
        BY <2>2, <2>6, <3>1, Zenon
      <4>2. SameTranslation(tables, pml4, tables', pml4)
        BY <2>5, <2>6, <3>1, Zenon
      <4>. QED
        BY <4>1, <4>2, Zenon
    <3>2. CASE e = "Ok"
      <4>1. op' = [op EXCEPT ![s].index = k + 1] /\ UNCHANGED stray
        BY <2>2, <2>6, <3>2, Zenon
      <4>2. pages'[a][k] = page
        BY <2>8, <2>9, Zenon
      <4>. QED
        BY <1>9, <2>5, <2>6, <3>2, <4>1, <4>2, Zenon DEF PageMapped
    <3>. QED
      BY <3>1, <3>2, Zenon
  <2>. QED
    BY <1>1, <2>8, <2>9, <2>10, <2>11, Zenon
<1>. QED
  BY <1>8, <1>9, Zenon

-------------------------------------------------------------------------------
(* The steps, as far as the tables and the pages are concerned                *)

\* A step of space s that concerns neither tables nor mappings.
Quiet(s) ==
    /\ UNCHANGED <<left, tables, pml4, pages, mappings, stray>>
    /\ DOMAIN op' = Spaces /\ \A t \in Spaces \ {s} : op'[t] = op[t]
    /\ op[s].call # "map" /\ op'[s].call # "map"

\* VmSpace::map begins.
Begins(s, a, u, o) ==
    /\ UNCHANGED <<left, tables, pml4, pages, mappings, stray>>
    /\ DOMAIN op' = Spaces /\ \A t \in Spaces \ {s} : op'[t] = op[t]
    /\ op[s].call # "map" /\ op'[s] = o /\ pml4[s] # None
    /\ o.call = "map" /\ o.area = a /\ o.start = u /\ o.len = AreaLen(a) /\ o.index = 0
    /\ o.got = <<>> /\ o.result = "none"
    /\ u % PageSize = 0 /\ u + AreaLen(a) <= MaxUsize

LEMMA FinishQuiet ==
    ASSUME IInv, NEW s \in Spaces, op[s].call # "map", NEW x, Finish(s, x),
           UNCHANGED <<left, tables, pml4, pages, mappings, stray>>
    PROVE  Quiet(s)
<1>1. DOMAIN op' = Spaces /\ op'[s] = Done(x) /\ \A t \in Spaces \ {s} : op'[t] = op[t]
  BY Zenon DEF IInv, Finish
<1>2. Done(x).call = "none"
  BY Zenon DEF Done
<1>. QED
  BY <1>1, <1>2, Zenon DEF Quiet

LEMMA ReadQuiet ==
    ASSUME IInv, NEW s \in Spaces,
           \/ \E u \in ReadAddrs, n \in ReadLens : Read(s, u, n)
           \/ ReadMapping(s) \/ ReadDone(s)
    PROVE  Quiet(s)
<1>1. UNCHANGED <<left, tables, pml4, pages, mappings, stray>>
  BY Zenon DEF Read, ReadMapping, ReadDone, memory
<1>2. op[s].call # "map"
  BY Zenon DEF Read, Idle, ReadMapping, ReadDone
<1>3. CASE \E x : Finish(s, x)
  BY <1>1, <1>2, <1>3, FinishQuiet, Zenon
<1>4. CASE ~\E x : Finish(s, x)
  <2>1. PICK o : o.call # "map" /\ op' = [op EXCEPT ![s] = o]
    <3>1. ASSUME NEW u \in ReadAddrs, NEW n \in ReadLens, Read(s, u, n)
          PROVE  \E o : o.call # "map" /\ op' = [op EXCEPT ![s] = o]
      <4>1. PICK o : o = [Done("none") EXCEPT !.call = "read", !.start = u, !.len = n,
                                              !.index = LastStartingBefore(s, u)]
        BY Zenon
      <4>2. op' = [op EXCEPT ![s] = o]
        BY <1>4, <3>1, <4>1, Zenon DEF Read
      <4>3. o.call = "read"
        BY <4>1, Zenon DEF Done
      <4>. QED
        BY <4>2, <4>3, Zenon
    <3>2. ASSUME ReadMapping(s)
          PROVE  \E o : o.call # "map" /\ op' = [op EXCEPT ![s] = o]
      <4>1. PICK got, k : op' = [op EXCEPT ![s].got = got, ![s].index = k]
        BY <1>4, <3>2, Zenon DEF ReadMapping
      <4>2. PICK o : o = [op[s] EXCEPT !.got = got, !.index = k]
        BY Zenon
      <4>3. PICK S : op[s] \in OpRecord(S)
        BY Zenon DEF IInv, SpaceInv
      <4>4. o.call = op[s].call
        BY <4>2, <4>3, Zenon DEF OpRecord
      <4>5. op' = [op EXCEPT ![s] = o]
        BY <4>1, <4>2, Zenon DEF IInv
      <4>. QED
        BY <1>2, <4>4, <4>5, Zenon
    <3>3. ASSUME ReadDone(s)
          PROVE  \E o : o.call # "map" /\ op' = [op EXCEPT ![s] = o]
      <4>1. op' = [op EXCEPT ![s].call = "none", ![s].result = "Ok"]
        BY <3>3, Zenon DEF ReadDone
      <4>2. PICK o : o = [op[s] EXCEPT !.call = "none", !.result = "Ok"]
        BY Zenon
      <4>3. PICK S : op[s] \in OpRecord(S)
        BY Zenon DEF IInv, SpaceInv
      <4>4. o.call = "none"
        BY <4>2, <4>3, Zenon DEF OpRecord
      <4>5. op' = [op EXCEPT ![s] = o]
        BY <4>1, <4>2, Zenon DEF IInv
      <4>. QED
        BY <4>4, <4>5, Zenon
    <3>. QED
      BY <3>1, <3>2, <3>3, Zenon
  <2>2. DOMAIN op' = Spaces /\ op'[s] = o /\ \A t \in Spaces \ {s} : op'[t] = op[t]
    BY <2>1, Zenon DEF IInv
  <2>. QED
    BY <1>1, <1>2, <2>1, <2>2, Zenon DEF Quiet
<1>. QED
  BY <1>3, <1>4, Zenon

LEMMA MapBegins ==
    ASSUME IInv, NEW s \in Spaces, NEW a \in Areas, NEW u \in MapAddrs, Map(s, a, u)
    PROVE  Quiet(s) \/ \E o : Begins(s, a, u, o)
<1>1. UNCHANGED <<left, tables, pml4, pages, mappings, stray>>
  BY Zenon DEF Map, memory
<1>2. op[s].call = "none" /\ pml4[s] # None
  BY Zenon DEF Map, Idle
<1>3. CASE \E x : Finish(s, x)
  BY <1>1, <1>2, <1>3, FinishQuiet, Zenon
<1>4. CASE ~\E x : Finish(s, x)
  <2>1. PICK o : o = [Done("none") EXCEPT
            !.call = "map", !.area = a, !.start = u, !.len = AreaLen(a)]
    BY Zenon
  <2>2. /\ op' = [op EXCEPT ![s] = o] /\ u % PageSize = 0 /\ ~(u + AreaLen(a) > MaxUsize)
    BY <1>4, <2>1, Zenon DEF Map
  <2>3. DOMAIN op' = Spaces /\ op'[s] = o /\ \A t \in Spaces \ {s} : op'[t] = op[t]
    BY <2>2, Zenon DEF IInv
  <2>4. /\ o.call = "map" /\ o.area = a /\ o.start = u /\ o.len = AreaLen(a) /\ o.index = 0
        /\ o.got = <<>> /\ o.result = "none"
    BY <2>1, Zenon DEF Done
  <2>5. u + AreaLen(a) <= MaxUsize
    <3>1. u \in Nat /\ AreaLen(a) \in Nat /\ MaxUsize \in Nat
      BY AreaLenPositive, VmSpaceAssumption
    <3>. QED
      BY <2>2, <3>1
  <2>. QED
    BY <1>1, <1>2, <2>2, <2>3, <2>4, <2>5, Zenon DEF Begins
<1>. QED
  BY <1>3, <1>4, Zenon

\* What IInv and PhysInv say of a map() in progress.
LEMMA MapInProgress ==
    ASSUME IInv, PhysInv, NEW s \in Spaces, op[s].call = "map"
    PROVE  /\ op[s].start \in Nat /\ op[s].index \in Nat /\ op[s].area \in Areas
           /\ op[s].index <= NumPages[op[s].area] /\ NumPages[op[s].area] \in Nat \ {0}
           /\ PageSize \in Nat \ {0}
           /\ op[s].len = PageSize * NumPages[op[s].area] /\ op[s].len \in Nat
           /\ op[s].start + op[s].len <= MaxUsize /\ MaxUsize \in Nat
<1>1. PICK S : op[s] \in OpRecord(S)
  BY Zenon DEF IInv, SpaceInv
<1>2. op[s].start \in Nat /\ op[s].index \in Nat /\ op[s].len \in Nat
  BY <1>1, Zenon DEF OpRecord
<1>3. op[s].area \in Areas /\ op[s].len = NumPages[op[s].area] * PageSize
  BY Zenon DEF IInv, SpaceInv, MapFree, AreaLen
<1>4. op[s].index <= NumPages[op[s].area] /\ op[s].start + op[s].len <= MaxUsize
  BY Zenon DEF PhysInv, Bounds
<1>5. NumPages[op[s].area] \in Nat \ {0} /\ PageSize \in Nat \ {0} /\ MaxUsize \in Nat
  BY <1>3, VmSpaceAssumption, Zenon
<1>6. op[s].len = PageSize * NumPages[op[s].area]
  <2>1. PICK n \in Nat : n = NumPages[op[s].area]
    BY <1>5, Zenon
  <2>. QED
    BY <1>3, <1>5, <2>1, Product
<1>. QED
  BY <1>2, <1>3, <1>4, <1>5, <1>6, Zenon

\* Abandon: only the space that stops changes.
LEMMA AbandonSpaces ==
    ASSUME IInv, DOMAIN stray = Spaces, NEW s \in Spaces, NEW x, Abandon(s, x)
    PROVE  /\ DOMAIN op' = Spaces /\ DOMAIN stray' = Spaces /\ op'[s] = Done(x)
           /\ stray'[s] = stray[s] \cup {op[s].start + k * PageSize : k \in 0..(op[s].index - 1)}
           /\ \A t \in Spaces \ {s} : op'[t] = op[t] /\ stray'[t] = stray[t]
<1>1. DOMAIN op = Spaces
  BY Zenon DEF IInv
<1>2. op' = [op EXCEPT ![s] = Done(x)]
  BY Zenon DEF Abandon, Finish
<1>3. stray' = [stray EXCEPT ![s] =
          stray[s] \cup {op[s].start + k * PageSize : k \in 0..(op[s].index - 1)}]
  BY Zenon DEF Abandon
<1>. QED
  BY <1>1, <1>2, <1>3, Zenon

\* The page that the loop comes to next.
LEMMA IndexSpaces ==
    ASSUME IInv, NEW s \in Spaces, NEW k, op' = [op EXCEPT ![s].index = k + 1], k \in Nat
    PROVE  /\ DOMAIN op' = Spaces /\ op'[s].index = k + 1 /\ op'[s].call = op[s].call
           /\ op'[s].start = op[s].start /\ op'[s].len = op[s].len /\ op'[s].area = op[s].area
           /\ op'[s].got = op[s].got /\ op'[s].result = op[s].result
           /\ \A t \in Spaces \ {s} : op'[t] = op[t]
<1>1. PICK S : op[s] \in OpRecord(S)
  BY Zenon DEF IInv, SpaceInv
<1>2. /\ DOMAIN op' = Spaces /\ op'[s] = [op[s] EXCEPT !.index = k + 1]
      /\ \A t \in Spaces \ {s} : op'[t] = op[t]
  BY Zenon DEF IInv
<1>. QED
  BY <1>1, <1>2 DEF OpRecord

\* A step of one space.
LEMMA PhysStep ==
    ASSUME PhysInv, NEW s \in Spaces,
           Tree(tables', pml4', left'), Filled(pages', tables', left'), DOMAIN stray' = Spaces,
           \A t \in Spaces \ {s} : /\ op'[t] = op[t] /\ mappings'[t] = mappings[t]
                                   /\ stray'[t] = stray[t] /\ pml4'[t] = pml4[t],
           Bounds(op'[s], mappings'[s], stray'[s], pml4'[s])
    PROVE  PhysInv'
<1>1. ASSUME NEW t \in Spaces
      PROVE  Bounds(op'[t], mappings'[t], stray'[t], pml4'[t])
  <2>1. CASE t = s
    BY <2>1, Zenon
  <2>2. CASE t # s
    <3>1. Bounds(op[t], mappings[t], stray[t], pml4[t])
      BY Zenon DEF PhysInv
    <3>. QED
      BY <2>2, <3>1, Zenon
  <2>. QED
    BY <2>1, <2>2, Zenon
<1>. QED
  BY <1>1, Zenon DEF PhysInv

LEMMA PhysQuiet ==
    ASSUME PhysInv, NEW s \in Spaces, Quiet(s)
    PROVE  PhysInv'
<1>1. Bounds(op'[s], mappings'[s], stray'[s], pml4'[s])
  BY Zenon DEF Quiet, PhysInv, Bounds
<1>. QED
  BY <1>1, PhysStep, Zenon DEF Quiet, PhysInv

LEMMA PhysNew ==
    ASSUME PhysInv, NEW s \in Spaces, New(s)
    PROVE  PhysInv'
<1>1. /\ Tree(tables', pml4', left') /\ left' = left - 1
      /\ DOMAIN tables' = DOMAIN tables \cup {left}
  BY NewTables, Zenon DEF PhysInv
<1>2. left \in Nat /\ left # None /\ pml4 \in [Spaces -> 0..MaxPages]
  BY TreeTyped DEF PhysInv, New, None
<1>3. /\ UNCHANGED <<pages, mappings, stray, op>> /\ pml4'[s] = left
      /\ \A t \in Spaces \ {s} : pml4'[t] = pml4[t]
  BY <1>2, Zenon DEF New
<1>4. Filled(pages', tables', left')
  <2>1. ASSUME NEW a \in Areas, NEW k \in Indices(a), pages[a][k] # None
        PROVE  pages[a][k] \in ((left' + 1)..MaxPages) \ DOMAIN tables'
    <3>1. pages[a][k] \in ((left + 1)..MaxPages) \ DOMAIN tables
      BY <2>1, Zenon DEF PhysInv, Filled
    <3>. QED
      BY <1>1, <1>2, <3>1
  <2>. QED
    BY <1>3, <2>1 DEF PhysInv, Filled
<1>5. Bounds(op'[s], mappings'[s], stray'[s], pml4'[s])
  BY <1>2, <1>3, Zenon DEF PhysInv, Bounds
<1>. QED
  BY <1>1, <1>3, <1>4, <1>5, PhysStep, Zenon DEF PhysInv

LEMMA PhysMap ==
    ASSUME IInv, PhysInv, NEW s \in Spaces, NEW a \in Areas, NEW u \in MapAddrs, Map(s, a, u)
    PROVE  PhysInv'
<1>1. CASE Quiet(s)
  BY <1>1, PhysQuiet
<1>2. ASSUME NEW o, Begins(s, a, u, o)
      PROVE  PhysInv'
  <2>1. NumPages[a] \in Nat
    BY VmSpaceAssumption, Zenon
  <2>2. Bounds(o, mappings[s], stray[s], pml4[s])
    BY <1>2, <2>1 DEF Begins, PhysInv, Bounds
  <2>. QED
    BY <1>2, <2>2, PhysStep, Zenon DEF Begins, PhysInv
<1>. QED
  BY <1>1, <1>2, MapBegins, Zenon

LEMMA PhysMapPage ==
    ASSUME IInv, PhysInv, NEW s \in Spaces, MapPage(s)
    PROVE  PhysInv'
<1>1. PICK a, k, u : a = op[s].area /\ k = op[s].index /\ u = op[s].start + k * PageSize
  BY Zenon
<1>2. /\ Tree(tables', pml4', left') /\ Filled(pages', tables', left')
      /\ pml4' = pml4 /\ mappings' = mappings
      /\ (\E x : Abandon(s, x)) \/ PageMapped(s, a, k, u)
  BY <1>1, MapPageTables, Zenon
<1>3. op[s].call = "map" /\ k < NumPages[a]
  BY <1>1, Zenon DEF MapPage
<1>4. /\ op[s].start \in Nat /\ k \in Nat /\ a \in Areas /\ NumPages[a] \in Nat \ {0}
      /\ PageSize \in Nat \ {0} /\ op[s].len = PageSize * NumPages[a] /\ op[s].len \in Nat
      /\ op[s].start + op[s].len <= MaxUsize /\ MaxUsize \in Nat
  BY <1>1, <1>3, MapInProgress
<1>5. DOMAIN stray = Spaces /\ Bounds(op[s], mappings[s], stray[s], pml4[s])
  BY Zenon DEF PhysInv
<1>6. ASSUME NEW x, Abandon(s, x)
      PROVE  PhysInv'
  <2>1. /\ DOMAIN stray' = Spaces /\ op'[s] = Done(x)
        /\ stray'[s] = stray[s] \cup {op[s].start + j * PageSize : j \in 0..(k - 1)}
        /\ \A t \in Spaces \ {s} : op'[t] = op[t] /\ stray'[t] = stray[t]
    BY <1>1, <1>5, <1>6, AbandonSpaces, Zenon
  <2>2. ASSUME NEW j \in 0..(k - 1)
        PROVE  op[s].start + j * PageSize \in 0..MaxUsize
    <3>1. j \in Nat /\ j < NumPages[a]
      BY <1>3, <1>4
    <3>2. PICK n \in Nat : n = NumPages[a]
      BY <1>4, Zenon
    <3>3. j * PageSize = PageSize * j /\ PageSize * j \in Nat /\ PageSize * j < PageSize * n
      BY <1>4, <3>1, <3>2, Multiples, Product, Zenon
    <3>. QED
      BY <1>4, <3>2, <3>3
  <2>3. stray'[s] \subseteq 0..MaxUsize
    BY <1>5, <2>1, <2>2 DEF Bounds
  <2>4. Done(x).call # "map"
    BY Zenon DEF Done
  <2>5. Bounds(op'[s], mappings'[s], stray'[s], pml4'[s])
    BY <1>2, <1>5, <2>1, <2>3, <2>4, Zenon DEF Bounds
  <2>. QED
    BY <1>2, <2>1, <2>5, PhysStep, Zenon
<1>7. ASSUME PageMapped(s, a, k, u)
      PROVE  PhysInv'
  <2>1. op' = [op EXCEPT ![s].index = k + 1] /\ stray' = stray
    BY <1>7, Zenon DEF PageMapped
  <2>2. /\ op'[s].index = k + 1 /\ op'[s].area = a /\ op'[s].start = op[s].start
        /\ op'[s].len = op[s].len /\ op'[s].call = "map"
        /\ \A t \in Spaces \ {s} : op'[t] = op[t]
    <3>1. k \in Nat
      BY <1>4, Zenon
    <3>2. /\ op'[s].index = k + 1 /\ op'[s].call = op[s].call
          /\ op'[s].start = op[s].start /\ op'[s].len = op[s].len /\ op'[s].area = op[s].area
          /\ \A t \in Spaces \ {s} : op'[t] = op[t]
      BY <2>1, <3>1, IndexSpaces, Zenon
    <3>. QED
      BY <1>1, <1>3, <3>2, Zenon
  <2>3. k + 1 <= NumPages[a]
    BY <1>3, <1>4
  <2>4. Bounds(op'[s], mappings'[s], stray'[s], pml4'[s])
    BY <1>1, <1>2, <1>3, <1>5, <2>1, <2>2, <2>3, Zenon DEF Bounds
  <2>. QED
    BY <1>2, <1>5, <2>1, <2>2, <2>4, PhysStep
<1>. QED
  BY <1>2, <1>6, <1>7, Zenon

\* Every mapping after the insertion is the new one or one of the old ones.
LEMMA InsertedFrom ==
    ASSUME NEW q \in Seq(Mapping), NEW m, NEW n \in 0..Len(q), NEW r, Inserted(r, q, m, n),
           NEW i \in 1..Len(r)
    PROVE  r[i] = m \/ \E k \in 1..Len(q) : r[i] = q[k]
<1>1. Len(q) \in Nat
  BY MappingFields, Zenon
<1>2. i \in 1..(Len(q) + 1) /\ r[i] = IF i <= n THEN q[i] ELSE IF i = n + 1 THEN m ELSE q[i - 1]
  BY <1>1, Zenon DEF Inserted
<1>3. CASE i <= n
  BY <1>1, <1>2, <1>3
<1>4. CASE i = n + 1
  BY <1>1, <1>2, <1>4
<1>5. CASE i > n + 1
  <2>1. i - 1 \in 1..Len(q) /\ r[i] = q[i - 1]
    BY <1>1, <1>2, <1>5
  <2>. QED
    BY <2>1, Zenon
<1>. QED
  BY <1>1, <1>3, <1>4, <1>5

LEMMA InitPhysInv ==
    ASSUME Init
    PROVE  PhysInv
<1>1. PICK pos : pos = [t \in {BOOT_PDPT} |-> KernelPos]
  BY Zenon
<1>2. /\ left \in 0..MaxPages /\ tables = [t \in {BOOT_PDPT} |-> BootPdpt]
      /\ pml4 = [s \in Spaces |-> None] /\ pages = [a \in Areas |-> [k \in Indices(a) |-> None]]
      /\ mappings = [s \in Spaces |-> <<>>] /\ stray = [s \in Spaces |-> {}]
      /\ op = [s \in Spaces |-> Done("none")]
  BY Zenon DEF Init, Indices
<1>3. /\ DOMAIN tables = {BOOT_PDPT} /\ tables[BOOT_PDPT] = BootPdpt /\ pos[BOOT_PDPT] = KernelPos
      /\ pos \in [DOMAIN tables -> Positions]
  BY <1>1, <1>2, PlacesTyped, Zenon
<1>4. ASSUME NEW k \in Idx
      PROVE  /\ BootPdpt[k] = IF k < HugeEntries THEN Pte(None, {"V", "HUGE"}) ELSE NotPresent
             /\ BootPdpt[k] \in PteType
  <2>1. BootPdpt[k] = IF k < HugeEntries THEN Pte(None, {"V", "HUGE"}) ELSE NotPresent
    BY Zenon DEF BootPdpt, Idx
  <2>2. Pte(None, {"V", "HUGE"}) \in PteType
    BY Sizes, Zenon DEF Pte, PteType
  <2>. QED
    BY <2>1, <2>2, EmptyTyped, Zenon
<1>5. BootPdpt \in [Idx -> PteType]
  <2>1. BootPdpt = [k \in Idx |-> BootPdpt[k]]
    BY Zenon DEF BootPdpt, Idx
  <2>. QED
    BY <1>4, <2>1
<1>6. ASSUME NEW t \in DOMAIN tables, NEW k \in Idx
      PROVE  EntryOK(tables, left, pos, t, k)
  <2>1. pos[t] = KernelPos /\ tables[t] = BootPdpt
    BY <1>3, Zenon
  <2>2. ~ToKernel(pos[t], k)
    BY <2>1, PlacesTyped DEF ToKernel
  <2>3. DirectMap(pos[t], k) <=> k < HugeEntries
    BY <2>1, Zenon DEF DirectMap
  <2>. QED
    BY <1>4, <2>1, <2>2, <2>3, Zenon DEF EntryOK
<1>7. \A t \in DOMAIN tables : Linked(tables, pos, t)
  BY <1>3, Zenon DEF Linked
<1>8. Graph(tables, pml4, left, pos)
  <2>1. pml4 \in [Spaces -> 0..MaxPages] /\ \A s \in Spaces : pml4[s] = None
    BY <1>2, Sizes
  <2>2. \A t \in DOMAIN tables : pos[t].level # 4
    BY <1>3, PlacesTyped
  <2>3. /\ DOMAIN tables \subseteq ((left + 1)..MaxPages) \cup {BOOT_PDPT}
        /\ BOOT_PDPT \in DOMAIN tables
        /\ \A t, v \in DOMAIN tables : pos[t] = pos[v] => t = v
        /\ \A t \in DOMAIN tables : tables[t] \in [Idx -> PteType]
    BY <1>3, <1>5, Zenon
  <2>. QED
    BY <1>2, <1>3, <1>6, <1>7, <2>1, <2>2, <2>3, Zenon DEF Graph
<1>9. Filled(pages, tables, left)
  <2>1. None \in 0..MaxPages
    BY Sizes
  <2>2. ASSUME NEW a \in Areas
        PROVE  pages[a] \in [Indices(a) -> 0..MaxPages] /\ \A k \in Indices(a) : pages[a][k] = None
    BY <1>2, <2>1, Zenon
  <2>3. DOMAIN pages = Areas
    BY <1>2, Zenon
  <2>. QED
    BY <2>2, <2>3, Zenon DEF Filled
<1>10. ASSUME NEW s \in Spaces
       PROVE  Bounds(op[s], mappings[s], stray[s], pml4[s])
  <2>1. op[s] = Done("none") /\ mappings[s] = <<>> /\ stray[s] = {} /\ Len(<<>>) = 0
    BY <1>2, SeqEmpty
  <2>2. Done("none").call # "map"
    BY Zenon DEF Done
  <2>. QED
    BY <2>1, <2>2 DEF Bounds
<1>. QED
  BY <1>2, <1>8, <1>9, <1>10, Zenon DEF PhysInv, Tree

LEMMA PhysTypeOK ==
    ASSUME IInv, PhysInv
    PROVE  TypeOK
<1>1. Tree(tables, pml4, left) /\ Filled(pages, tables, left)
  BY Zenon DEF PhysInv
<1>2. PICK pos : Graph(tables, pml4, left, pos)
  BY <1>1, Zenon DEF Tree
<1>3. left \in 0..MaxPages /\ pml4 \in [Spaces -> 0..MaxPages]
  BY <1>2, Zenon DEF Graph
<1>4. /\ DOMAIN tables \subseteq Pages \cup {BOOT_PDPT}
      /\ \A t \in DOMAIN tables, k \in Idx : tables[t][k] \in PteType
  BY <1>2, GraphTyped, Zenon
<1>5. \A t \in DOMAIN tables, k \in 0..(Entries - 1) :
        /\ tables[t][k].page \in 0..BOOT_PDPT
        /\ tables[t][k].flags \subseteq {"V", "W", "U", "HUGE"}
  BY <1>4, Zenon DEF Idx, PteType
<1>6. \A a \in Areas : pages[a] \in [0..(NumPages[a] - 1) -> 0..MaxPages]
  BY <1>1, Zenon DEF Filled, Indices
<1>7. ASSUME NEW s \in Spaces, NEW k \in DOMAIN mappings[s]
      PROVE  mappings[s][k] \in [start : 0..MaxUsize, end : 0..MaxUsize, area : Areas]
  <2>1. mappings[s] \in Seq(Mapping) /\ Ordered(mappings[s])
    BY Zenon DEF IInv, SpaceInv
  <2>2. k \in 1..Len(mappings[s]) /\ mappings[s][k] \in Mapping
    BY <2>1, MappingFields, Zenon
  <2>3. mappings[s][k].end <= MaxUsize /\ mappings[s][k].start < mappings[s][k].end
    BY <2>1, <2>2 DEF PhysInv, Bounds, Ordered
  <2>4. MaxUsize \in Nat
    BY VmSpaceAssumption, Zenon
  <2>. QED
    BY <2>2, <2>3, <2>4 DEF Mapping
<1>8. \A s \in Spaces : stray[s] \subseteq 0..MaxUsize
  BY Zenon DEF PhysInv, Bounds
<1>9. \A s \in Spaces : op[s].call \in {"none", "map", "read"}
  BY Zenon DEF IInv, SpaceInv, OpRecord
<1>. QED
  BY <1>3, <1>4, <1>5, <1>6, <1>7, <1>8, <1>9, Zenon DEF TypeOK

-------------------------------------------------------------------------------
(* Binary search                                                              *)

\* What follows counts, as partition_point does.
INSTANCE FiniteSetTheorems

\* A set of indices that has all the smaller ones with each is counted by its last one.
LEMMA CountsPrefix ==
    ASSUME NEW n \in Nat, NEW S \in SUBSET (1..n),
           \A k \in S, j \in 1..n : j < k => j \in S
    PROVE  Cardinality(S) \in 0..n /\ S = 1..Cardinality(S)
<1>1. IsFiniteSet(1..n) /\ Cardinality(1..n) = n
  BY FS_Interval
<1>2. IsFiniteSet(S) /\ Cardinality(S) <= n /\ Cardinality(S) \in Nat
  BY <1>1, FS_Subset, FS_CardinalityType, Zenon
<1>3. ASSUME NEW k \in S
      PROVE  k <= Cardinality(S)
  <2>1. 1..k \in SUBSET S /\ k \in Nat \ {0}
    OBVIOUS
  <2>2. Cardinality(1..k) = k
    BY <2>1, FS_Interval
  <2>3. Cardinality(1..k) <= Cardinality(S)
    BY <1>2, <2>1, FS_Subset, Zenon
  <2>. QED
    BY <2>2, <2>3, Zenon
<1>4. S \in SUBSET (1..Cardinality(S))
  BY <1>2, <1>3
<1>5. IsFiniteSet(1..Cardinality(S)) /\ Cardinality(1..Cardinality(S)) = Cardinality(S)
  BY <1>2, FS_Interval
<1>6. S = 1..Cardinality(S)
  BY <1>4, <1>5, FS_Subset, Zenon
<1>. QED
  BY <1>2, <1>6

\* partition_point(start < u) and partition_point(start <= u) over a sorted list.
LEMMA PartitionPoint ==
    ASSUME NEW q \in Seq(Mapping), Ordered(q), NEW u \in Nat,
           NEW S, \/ S = {k \in DOMAIN q : q[k].start < u}
                  \/ S = {k \in DOMAIN q : q[k].start <= u}
    PROVE  Cardinality(S) \in 0..Len(q) /\ S = 1..Cardinality(S)
<1>1. /\ Len(q) \in Nat /\ DOMAIN q = 1..Len(q)
      /\ \A k \in 1..Len(q) : q[k].start \in Nat /\ q[k].end \in Nat
  <2>1. Len(q) \in Nat /\ DOMAIN q = 1..Len(q) /\ \A k \in 1..Len(q) : q[k] \in Mapping
    BY SeqTyped, Zenon
  <2>. QED
    BY <2>1 DEF Mapping
<1>2. S \in SUBSET (1..Len(q))
  BY <1>1, Zenon
<1>3. ASSUME NEW k \in S, NEW j \in 1..Len(q), j < k
      PROVE  j \in S
  <2>1. k \in 1..Len(q) /\ q[j].start < q[k].start
    BY <1>1, <1>2, <1>3 DEF Ordered
  <2>. QED
    BY <1>1, <1>3, <2>1, SMTT(60)
<1>. QED
  BY <1>1, <1>2, <1>3, CountsPrefix, SMTT(60)

\* The partition point is such a place, if the new mapping overlaps none.
LEMMA InsertionPoint ==
    ASSUME NEW q \in Seq(Mapping), Ordered(q), NEW m \in Mapping, m.start < m.end,
           \A k \in 1..Len(q) : ~overlaps_with(q[k], m.start, m.end)
    PROVE  \E n \in 0..Len(q) :
               /\ n = Cardinality({k \in DOMAIN q : q[k].start < m.start})
               /\ \A k \in 1..n : q[k].end <= m.start
               /\ \A k \in (n + 1)..Len(q) : m.end <= q[k].start
<1>0. /\ Len(q) \in Nat /\ DOMAIN q = 1..Len(q) /\ m.start \in Nat /\ m.end \in Nat
      /\ \A k \in 1..Len(q) : q[k].start \in Nat /\ q[k].end \in Nat
  BY MappingFields, Zenon DEF Mapping
<1>1. PICK S : S = {k \in DOMAIN q : q[k].start < m.start}
  BY Zenon
<1>2. PICK n : n = Cardinality(S)
  BY Zenon
<1>3. n \in 0..Len(q) /\ S = 1..n
  BY <1>0, <1>1, <1>2, PartitionPoint, Zenon
<1>4. ASSUME NEW k \in 1..n
      PROVE  q[k].end <= m.start
  <2>1. k \in 1..Len(q) /\ q[k].start < m.start
    BY <1>0, <1>1, <1>3, Zenon
  <2>. QED
    BY <1>0, <2>1 DEF overlaps_with
<1>5. ASSUME NEW k \in (n + 1)..Len(q)
      PROVE  m.end <= q[k].start
  <2>1. k \in 1..Len(q) /\ k \notin 1..n
    BY <1>0, <1>3
  <2>2. ~(q[k].start < m.start)
    BY <1>0, <1>1, <1>3, <2>1, Zenon
  <2>3. q[k].start < q[k].end
    BY <2>1, Zenon DEF Ordered
  <2>. QED
    BY <1>0, <2>1, <2>2, <2>3, SMTT(60) DEF overlaps_with
<1>. QED
  BY <1>1, <1>2, <1>3, <1>4, <1>5, Zenon

-------------------------------------------------------------------------------
(* The steps that search                                                      *)

LEMMA ReadPreserves ==
    ASSUME IInv, NEW s \in Spaces, NEW u \in ReadAddrs, NEW n \in ReadLens, Read(s, u, n)
    PROVE  IInv'
<1>0. UNCHANGED mappings
  BY Zenon DEF Read
<1>1. CASE \E x : Finish(s, x)
  BY <1>0, <1>1, FinishPreserves, Zenon
<1>2. CASE ~\E x : Finish(s, x)
  <2>1. PICK q : q = mappings[s]
    OBVIOUS
  <2>2. PICK k : k = LastStartingBefore(s, u)
    OBVIOUS
  <2>3. PICK o : o = [Done("none") EXCEPT !.call = "read", !.start = u, !.len = n, !.index = k]
    OBVIOUS
  <2>4. op' = [op EXCEPT ![s] = o] /\ k # 0
    BY <1>2, <2>2, <2>3 DEF Read
  <2>5. DOMAIN op' = Spaces /\ op'[s] = o /\ \A t \in Spaces \ {s} : op'[t] = op[t]
    BY <2>4 DEF IInv
  <2>6. /\ q \in Seq(Mapping) /\ Ordered(q) /\ Len(q) \in Nat /\ DOMAIN q = 1..Len(q)
        /\ \A j \in 1..Len(q) : q[j].start \in Nat
    BY <2>1, MappingFields DEF IInv, SpaceInv
  <2>7. PICK S : S = {j \in DOMAIN q : q[j].start <= u}
    BY Zenon
  <2>8. u \in Nat /\ n \in Nat
    BY VmSpaceAssumption
  <2>9. k \in 1..Len(q) /\ S = 1..k
    <3>1. k = Cardinality(S)
      BY ONLY <2>1, <2>2, <2>7 DEF LastStartingBefore
    <3>2. Cardinality(S) \in 0..Len(q) /\ S = 1..Cardinality(S)
      BY <2>6, <2>7, <2>8, PartitionPoint, Zenon
    <3>. QED
      BY <2>4, <2>6, <3>1, <3>2, SMTT(60)
  <2>10. /\ q[k].start <= u /\ \A j \in 1..Len(q) : j > k => q[j].start > u
    <3>1. k \in S
      BY <2>6, <2>9
    <3>2. \A j \in 1..Len(q) : j > k => j \notin S
      BY <2>6, <2>9
    <3>. QED
      BY <2>6, <2>7, <2>8, <3>1, <3>2, SMTT(60)
  <2>11. /\ o \in OpRecord({"none"}) /\ o.call = "read" /\ o.start = u /\ o.index = k
         /\ Len(o.got) = 0 /\ o.result = "none"
    <3>1. /\ Done("none") \in OpRecord({"none"}) /\ Len(Done("none").got) = 0 /\ k \in Nat
      BY <2>6, <2>9, DoneRecord
    <3>. QED
      BY <2>3, <2>8, <3>1, Zenon DEF OpRecord
  <2>12. k \in 1..(Len(q) + 1) /\ k <= Len(q)
    BY <2>6, <2>9
  <2>13. SpaceInv(o, q)
    BY <2>6, <2>10, <2>11, <2>12, SMTT(60) DEF SpaceInv, ReadFollows, AtLastBefore
  <2>. QED
    BY <1>0, <2>1, <2>5, <2>13, OneSpace, Zenon DEF IInv
<1>. QED
  BY <1>1, <1>2, Zenon

LEMMA MapDoneInserts ==
    ASSUME IInv, NEW s \in Spaces, MapDone(s), NEW m, m = NewMapping(s)
    PROVE  m \in Mapping /\ \E r, n : MapInserts(s, m, r, n)
<1>1. m = [start |-> op[s].start, end |-> op[s].start + op[s].len, area |-> op[s].area]
  BY Zenon DEF NewMapping
<1>2. PICK q : q = mappings[s]
  BY Zenon
<1>3. /\ mappings' = [mappings EXCEPT ![s] = Insert(s, m)] /\ Finish(s, "Ok")
      /\ op[s].call = "map"
  BY <1>1 DEF MapDone
<1>4. /\ m \in Mapping /\ m.start < m.end /\ q \in Seq(Mapping) /\ Ordered(q)
      /\ \A k \in 1..Len(q) : ~overlaps_with(q[k], m.start, m.end)
  <2>1. PICK S : op[s] \in OpRecord(S)
    BY Zenon DEF IInv, SpaceInv
  <2>2. MapFree(op[s], q) /\ q \in Seq(Mapping) /\ Ordered(q)
    BY <1>2, <1>3, Zenon DEF IInv, SpaceInv
  <2>3. op[s].start \in Nat /\ op[s].len \in Nat \ {0} /\ op[s].area \in Areas
    BY <2>1, <2>2, AreaLenPositive, Zenon DEF OpRecord, MapFree
  <2>4. m.start = op[s].start /\ m.end = op[s].start + op[s].len /\ m.area = op[s].area
    BY <1>1
  <2>5. m \in Mapping /\ m.start < m.end
    BY <1>1, <2>3 DEF Mapping
  <2>. QED
    BY <2>2, <2>4, <2>5, SMTT(60) DEF MapFree
<1>5. PICK n \in 0..Len(q) :
          /\ n = Cardinality({k \in DOMAIN q : q[k].start < m.start})
          /\ \A k \in 1..n : q[k].end <= m.start
          /\ \A k \in (n + 1)..Len(q) : m.end <= q[k].start
  BY <1>4, InsertionPoint, Zenon
<1>6. PICK r \in Seq(Mapping) :
          /\ r = SubSeq(q, 1, n) \o <<m>> \o SubSeq(q, n + 1, Len(q))
          /\ Inserted(r, q, m, n)
  <2>1. q \in Seq(Mapping) /\ m \in Mapping /\ n \in 0..Len(q)
    BY <1>4
  <2>. QED
    BY ONLY <2>1, InsertElements, Zenon
<1>7. Ordered(r)
  BY <1>4, <1>5, <1>6, InsertedOrdered, Zenon
<1>8. Insert(s, m) = r
  <2>1. n = Cardinality({k \in DOMAIN mappings[s] : mappings[s][k].start < m.start})
    BY ONLY <1>2, <1>5
  <2>2. r = SubSeq(mappings[s], 1, n) \o <<m>> \o SubSeq(mappings[s], n + 1, Len(mappings[s]))
    BY ONLY <1>2, <1>6
  <2>. QED
    BY ONLY <2>1, <2>2, Zenon DEF Insert
<1>9. /\ DOMAIN op' = Spaces /\ DOMAIN mappings' = Spaces
      /\ op'[s] = Done("Ok") /\ mappings'[s] = r
      /\ \A t \in Spaces \ {s} : op'[t] = op[t] /\ mappings'[t] = mappings[t]
  BY <1>3, <1>8 DEF IInv, Finish
<1>. QED
  BY <1>2, <1>4, <1>5, <1>6, <1>7, <1>9, Zenon DEF MapInserts

LEMMA MapDonePreserves ==
    ASSUME IInv, NEW s \in Spaces, MapDone(s)
    PROVE  IInv'
<1>1. PICK r, n : MapInserts(s, NewMapping(s), r, n)
  BY MapDoneInserts
<1>2. SpaceInv(op'[s], mappings'[s])
  BY <1>1, Returned DEF MapInserts
<1>. QED
  BY <1>1, <1>2, OneSpace DEF MapInserts

LEMMA PhysMapDone ==
    ASSUME IInv, PhysInv, NEW s \in Spaces, MapDone(s)
    PROVE  PhysInv'
<1>1. PICK m : m = NewMapping(s)
  OBVIOUS
<1>2. PICK r, n : MapInserts(s, m, r, n)
  BY <1>1, MapDoneInserts
<1>3. UNCHANGED <<left, tables, pml4, pages, stray>> /\ op[s].call = "map"
  BY DEF MapDone, memory
<1>4. m.end <= MaxUsize
  BY <1>1, <1>3, MapInProgress, SMTT(60) DEF NewMapping
<1>5. Bounds(op[s], mappings[s], stray[s], pml4[s]) /\ mappings[s] \in Seq(Mapping)
  BY DEF PhysInv, IInv, SpaceInv
<1>6. ASSUME NEW i \in 1..Len(r)
      PROVE  r[i].end <= MaxUsize
  <2>1. r[i] = m \/ \E k \in 1..Len(mappings[s]) : r[i] = mappings[s][k]
    BY <1>2, <1>5, InsertedFrom DEF MapInserts
  <2>. QED
    BY <1>4, <1>5, <2>1 DEF Bounds
<1>7. Done("Ok").call # "map"
  BY DEF Done
<1>8. Bounds(op'[s], mappings'[s], stray'[s], pml4'[s])
  BY <1>2, <1>3, <1>5, <1>6, <1>7, SMTT(60) DEF Bounds, MapInserts
<1>. QED
  BY <1>2, <1>3, <1>8, PhysStep DEF PhysInv, MapInserts

-------------------------------------------------------------------------------
(* The theorems                                                               *)

LEMMA NextIInv ==
    ASSUME IInv, [Next]_vars
    PROVE  IInv'
<1>1. ASSUME UNCHANGED <<op, mappings>>
      PROVE  IInv'
  BY <1>1 DEF IInv
<1>2. CASE UNCHANGED vars
  BY <1>1, <1>2 DEF vars
<1>3. ASSUME NEW s \in Spaces, New(s) \/ NewFails(s)
      PROVE  IInv'
  BY <1>1, <1>3 DEF New, NewFails, vars
<1>4. ASSUME NEW s \in Spaces, NEW a \in Areas, NEW u \in MapAddrs, Map(s, a, u)
      PROVE  IInv'
  BY <1>4, MapPreserves
<1>5. ASSUME NEW s \in Spaces, MapPage(s)
      PROVE  IInv'
  BY <1>5, MapPagePreserves
<1>6. ASSUME NEW s \in Spaces, MapDone(s)
      PROVE  IInv'
  BY <1>6, MapDonePreserves, Zenon
<1>7. ASSUME NEW s \in Spaces, NEW u \in ReadAddrs, NEW n \in ReadLens, Read(s, u, n)
      PROVE  IInv'
  BY <1>7, ReadPreserves, Zenon
<1>8. ASSUME NEW s \in Spaces, ReadMapping(s)
      PROVE  IInv'
  BY <1>8, ReadMappingPreserves, Zenon
<1>9. ASSUME NEW s \in Spaces, ReadDone(s)
      PROVE  IInv'
  BY <1>9, ReadDonePreserves, Zenon
<1>. QED
  BY <1>2, <1>3, <1>4, <1>5, <1>6, <1>7, <1>8, <1>9, SMTT(60) DEF Next

LEMMA Inductive == Spec => []IInv
<1>1. Init => IInv
  BY InitIInv
<1>2. IInv /\ [Next]_vars => IInv'
  BY NextIInv
<1>. QED
  BY <1>1, <1>2, PTL DEF Spec

\* "The mapping sorted by the start address", for every sequence of map() calls: the
\* insertion at partition_point keeps the list in order and free of overlaps.
THEOREM Sorted == Spec => []MappingsSorted
<1>1. IInv => MappingsSorted
  <2>. SUFFICES ASSUME IInv PROVE MappingsSorted
    OBVIOUS
  <2>1. ASSUME NEW s \in Spaces
        PROVE  DOMAIN mappings[s] = 1..Len(mappings[s]) /\ Ordered(mappings[s])
    BY MappingFields DEF IInv, SpaceInv
  <2>. QED
    BY <2>1 DEF MappingsSorted, Ordered
<1>. QED
  BY <1>1, Inductive, PTL

\* read_bytes refuses a read only at an address no mapping covers: a read within mappings
\* that adjoin each other is never refused, wherever it starts.
THEOREM ReadsRefused == Spec => ReadRefused
<1>. DEFINE Refused == \A s \in Spaces :
                op[s].call = "read" /\ op'[s].result = "OUT_OF_BOUNDS" =>
                    \E u \in op[s].start..(op[s].start + op[s].len - 1) : Promised(s, u) = None
<1>1. IInv /\ [Next]_vars => [Refused]_vars
  <2>. SUFFICES ASSUME IInv, Next, NEW s \in Spaces, op[s].call = "read",
                       op'[s].result = "OUT_OF_BOUNDS"
                PROVE  \E u \in op[s].start..(op[s].start + op[s].len - 1) :
                           Promised(s, u) = None
    BY Zenon
  <2>1. op[s].result = "none" /\ op'[s] # op[s]
    <3>1. op[s].result = "none"
      BY Reading, Zenon DEF ReadFollows
    <3>. QED
      BY <3>1, Zenon
  <2>2. \/ ReadMapping(s) \/ ReadDone(s)
    <3>1. PICK t \in Spaces :
              \/ New(t) \/ NewFails(t)
              \/ \E a \in Areas, u \in MapAddrs : Map(t, a, u)
              \/ MapPage(t) \/ MapDone(t)
              \/ \E u \in ReadAddrs, n \in ReadLens : Read(t, u, n)
              \/ ReadMapping(t) \/ ReadDone(t)
      BY Zenon DEF Next
    <3>2. \E x : op' = [op EXCEPT ![t] = x] \/ op' = op
      BY <3>1, ZenonT(60)
         DEF New, NewFails, vars, Map, MapPage, MapDone, Read, ReadMapping, ReadDone,
             Finish, Abandon
    <3>3. t = s
      BY <2>1, <3>2, Zenon DEF IInv
    <3>. QED
      BY <2>1, <3>1, <3>3, Zenon DEF New, NewFails, vars, Map, MapPage, MapDone, Read, Idle
  <2>3. ~ReadDone(s)
    <3>1. SUFFICES ASSUME ReadDone(s) PROVE FALSE
      BY Zenon
    <3>2. PICK S : op[s] \in OpRecord(S)
      BY Zenon DEF IInv, SpaceInv
    <3>3. op'[s] = [op[s] EXCEPT !.call = "none", !.result = "Ok"]
      BY <3>1, Zenon DEF ReadDone, IInv
    <3>4. op'[s].result = "Ok"
      BY <3>2, <3>3, Zenon DEF OpRecord
    <3>. QED
      BY <3>4, Zenon
  <2>4. PICK u : u = op[s].start + Len(op[s].got)
    BY Zenon
  <2>5. /\ op[s].index <= Len(mappings[s]) /\ Len(op[s].got) < op[s].len
        /\ ~Covers(s, op[s].index, u)
    <3>1. op[s].index <= Len(mappings[s]) /\ Len(op[s].got) < op[s].len
      BY <2>2, <2>3, Zenon DEF ReadMapping
    <3>2. SUFFICES ASSUME Covers(s, op[s].index, u) PROVE FALSE
      BY <3>1, Zenon
    <3>3. PICK x, y : op' = [op EXCEPT ![s].got = x, ![s].index = y]
      BY <2>2, <2>3, <2>4, <3>2, ZenonT(60) DEF ReadMapping, Covers
    <3>4. PICK S : op[s] \in OpRecord(S)
      BY Zenon DEF IInv, SpaceInv
    <3>5. op'[s] = [op[s] EXCEPT !.got = x, !.index = y]
      BY <3>3, Zenon DEF IInv
    <3>6. op'[s].result = op[s].result
      BY <3>4, <3>5, Zenon DEF OpRecord
    <3>. QED
      BY <2>1, <3>6, Zenon
  <2>6. /\ u \in op[s].start..(op[s].start + op[s].len - 1)
        /\ ~\E k \in DOMAIN mappings[s] : Covers(s, k, u)
    BY <2>4, <2>5, NothingCovers, Zenon
  <2>7. Promised(s, u) = None
    BY <2>6, Zenon DEF Promised
  <2>. QED
    BY <2>6, <2>7, Zenon
<1>2. Spec => [][Refused]_vars
  BY <1>1, Inductive, PTL DEF Spec
<1>. QED
  BY <1>2, Zenon DEF ReadRefused

LEMMA NextPhysInv ==
    ASSUME IInv, PhysInv, [Next]_vars
    PROVE  PhysInv'
<1>1. CASE UNCHANGED vars
  <2>1. UNCHANGED <<left, tables, pml4, pages, mappings, stray, op>>
    BY <1>1, Zenon DEF vars
  <2>. QED
    BY <2>1, Zenon DEF PhysInv
<1>2. ASSUME NEW s \in Spaces, New(s)
      PROVE  PhysInv'
  BY <1>2, PhysNew, Zenon
<1>3. ASSUME NEW s \in Spaces, NEW a \in Areas, NEW u \in MapAddrs, Map(s, a, u)
      PROVE  PhysInv'
  BY <1>3, PhysMap, Zenon
<1>4. ASSUME NEW s \in Spaces, MapPage(s)
      PROVE  PhysInv'
  BY <1>4, PhysMapPage, Zenon
<1>5. ASSUME NEW s \in Spaces, MapDone(s)
      PROVE  PhysInv'
  BY <1>5, PhysMapDone, Zenon
<1>6. ASSUME NEW s \in Spaces,
             \/ \E u \in ReadAddrs, n \in ReadLens : Read(s, u, n)
             \/ ReadMapping(s) \/ ReadDone(s)
      PROVE  PhysInv'
  BY <1>6, ReadQuiet, PhysQuiet, Zenon
<1>7. ASSUME NEW s \in Spaces, NewFails(s)
      PROVE  PhysInv'
  BY <1>1, <1>7, Zenon DEF NewFails
<1>. QED
  BY <1>1, <1>2, <1>3, <1>4, <1>5, <1>6, <1>7, Zenon DEF Next

LEMMA PhysInductive == Spec => [](IInv /\ PhysInv)
<1>1. Init => IInv /\ PhysInv
  BY InitIInv, InitPhysInv, Zenon
<1>2. (IInv /\ PhysInv) /\ [Next]_vars => (IInv /\ PhysInv)'
  BY NextIInv, NextPhysInv, Zenon
<1>. QED
  BY <1>1, <1>2, PTL DEF Spec

\* A page table is reached by one entry.
LEMMA OneEntry ==
    ASSUME PhysInv, NEW t \in DOMAIN tables \cap Pages
    PROVE  Cardinality(EntriesTo(t)) <= 1
<1>1. PICK pos : Graph(tables, pml4, left, pos)
  BY Zenon DEF PhysInv, Tree
<1>2. ASSUME NEW e \in EntriesTo(t)
      PROVE  /\ e = <<e[1], e[2]>> /\ e[1] \in DOMAIN tables /\ e[2] \in Idx
             /\ pos[e[1]].level > 1 /\ pos[t] = Child(pos[e[1]], e[2])
             /\ pos[e[1]] \in Positions
  <2>1. PICK v, k : v = e[1] /\ k = e[2]
    BY Zenon
  <2>2. /\ e = <<v, k>> /\ v \in DOMAIN tables /\ k \in Idx
        /\ "V" \in tables[v][k].flags /\ tables[v][k].page = t
    BY <1>2, <2>1 DEF EntriesTo, Idx
  <2>3. EntryOK(tables, left, pos, v, k)
    BY <1>1, <2>2, Zenon DEF Graph
  <2>4. tables[v][k] # Pte(BOOT_PDPT, {"V"}) /\ tables[v][k] # Pte(None, {"V", "HUGE"})
    <3>1. t # BOOT_PDPT /\ t # None
      BY Sizes DEF Pages
    <3>2. Pte(BOOT_PDPT, {"V"}).page = BOOT_PDPT /\ Pte(None, {"V", "HUGE"}).page = None
      BY Zenon DEF Pte
    <3>. QED
      BY <2>2, <3>1, <3>2, Zenon
  <2>5. tables[v][k] # NotPresent
    BY <2>2, EmptyTyped, Zenon
  <2>6. pos[v].level > 1 /\ pos[t] = Child(pos[v], k)
    BY <2>2, <2>3, <2>4, <2>5, Zenon DEF EntryOK
  <2>7. pos[v] \in Positions
    BY <1>1, <2>2, GraphTyped, Zenon
  <2>. QED
    BY <2>1, <2>2, <2>6, <2>7, Zenon
<1>3. ASSUME NEW e \in EntriesTo(t), NEW f \in EntriesTo(t)
      PROVE  e = f
  <2>1. PICK v, k : v = e[1] /\ k = e[2]
    BY Zenon
  <2>2. PICK y, j : y = f[1] /\ j = f[2]
    BY Zenon
  <2>3. /\ e = <<v, k>> /\ v \in DOMAIN tables /\ k \in Idx /\ pos[v].level > 1
        /\ pos[t] = Child(pos[v], k) /\ pos[v] \in Positions
    BY <1>2, <2>1, Zenon
  <2>4. /\ f = <<y, j>> /\ y \in DOMAIN tables /\ j \in Idx /\ pos[y].level > 1
        /\ pos[t] = Child(pos[y], j) /\ pos[y] \in Positions
    BY <1>2, <2>2, Zenon
  <2>5. PICK p, q : p = pos[v] /\ q = pos[y]
    BY Zenon
  <2>6. p = q /\ k = j
    <3>1. /\ p \in Positions /\ q \in Positions /\ p.level > 1 /\ q.level > 1
          /\ Child(p, k) = Child(q, j) /\ k \in Idx /\ j \in Idx
      BY <2>3, <2>4, <2>5, Zenon
    <3>. QED
      BY ONLY <3>1, ChildUnique
  <2>7. v = y
    BY <1>1, <2>3, <2>4, <2>5, <2>6, Zenon DEF Graph
  <2>. QED
    BY <2>3, <2>4, <2>6, <2>7, Zenon
<1>4. CASE EntriesTo(t) = {}
  <2>1. Cardinality(EntriesTo(t)) = 0
    BY <1>4, FS_EmptySet, Zenon
  <2>. QED
    BY <2>1
<1>5. CASE EntriesTo(t) # {}
  <2>1. PICK e : e \in EntriesTo(t)
    BY <1>5, Zenon
  <2>2. EntriesTo(t) = {e}
    BY <1>3, <2>1, Zenon
  <2>3. Cardinality({e}) = 1
    BY FS_Singleton, Zenon
  <2>. QED
    BY <2>2, <2>3
<1>. QED
  BY <1>4, <1>5, Zenon

\* No page serves two purposes, for any number of spaces, areas and pages and whatever
\* addresses are mapped, those that lead into the tables of the kernel included: each page
\* table is in one entry, and ensure_next_table and ensure_page never hand out a page that
\* is in use.
THEOREM NoPageShared == Spec => []PagesExclusive
<1>1. IInv /\ PhysInv => PagesExclusive
  <2>. SUFFICES ASSUME IInv, PhysInv PROVE PagesExclusive
    BY Zenon
  <2>1. TypeOK
    BY PhysTypeOK, Zenon
  <2>2. Tree(tables, pml4, left) /\ Filled(pages, tables, left)
    BY Zenon DEF PhysInv
  <2>3. None \notin DOMAIN tables
    BY <2>2, TreeTyped DEF None
  <2>4. ASSUME NEW a \in Areas, NEW k \in DOMAIN pages[a]
        PROVE  k \in Indices(a) /\ pages[a][k] \notin DOMAIN tables
    BY <2>2, <2>3, Zenon DEF Filled
  <2>5. ASSUME NEW a \in Areas, NEW b \in Areas, a # b,
               NEW x \in {pages[a][k] : k \in DOMAIN pages[a]}
                             \cap {pages[b][k] : k \in DOMAIN pages[b]}
        PROVE  x = None
    <3>1. PICK k \in DOMAIN pages[a] : pages[a][k] = x
      BY Zenon
    <3>2. PICK j \in DOMAIN pages[b] : pages[b][j] = x
      BY Zenon
    <3>3. k \in Indices(a) /\ j \in Indices(b)
      BY <2>4, Zenon
    <3>. QED
      BY <2>2, <2>5, <3>1, <3>2, <3>3, Zenon DEF Filled
  <2>6. \A t \in DOMAIN tables \cap Pages : Cardinality(EntriesTo(t)) <= 1
    BY OneEntry, Zenon
  <2>7. \A a, b \in Areas : a # b =>
          {pages[a][k] : k \in DOMAIN pages[a]} \cap {pages[b][k] : k \in DOMAIN pages[b]}
              \subseteq {None}
    BY ONLY <2>5, Zenon
  <2>8. \A a \in Areas : \A k \in DOMAIN pages[a] : pages[a][k] \notin DOMAIN tables
    BY <2>4, Zenon
  <2>. QED
    BY ONLY <2>1, <2>6, <2>7, <2>8, Zenon DEF PagesExclusive
<1>. QED
  BY <1>1, PhysInductive, PTL

===============================================================================
