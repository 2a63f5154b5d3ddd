---------------------------- MODULE PageTableProofs ----------------------------
(***************************************************************************)
(* Lemmas about the page tables of VmSpace, for every geometry of them.    *)
(*                                                                         *)
(* The page tables form a tree: every table but the kernel's has one place *)
(* in it, given by its level and the indices that lead there, and its      *)
(* entry at an index leads to the table with the place below (Graph).  So  *)
(* every page but the kernel's table is reached by one path, and a write   *)
(* to an entry changes the translation of the addresses with that path and *)
(* of no other.                                                            *)
(***************************************************************************)
EXTENDS VmSpace, TLAPS

-------------------------------------------------------------------------------
(* Addresses and indices                                                      *)

\* Quotient and remainder, and that there is one of each.
LEMMA DivMod ==
    ASSUME NEW x \in Nat, NEW d \in Nat \ {0}
    PROVE  /\ x \div d \in Nat /\ x % d \in 0..(d - 1) /\ x % d \in Nat
           /\ d * (x \div d) \in Nat
           /\ x = d * (x \div d) + (x % d)
<1>1. x \div d \in Nat /\ x % d \in 0..(d - 1) /\ x = d * (x \div d) + (x % d)
  BY SMT
<1>2. PICK q : q = x \div d
  BY Zenon
<1>3. q \in Nat
  BY <1>1, <1>2, Zenon
<1>4. d * q \in Nat
  BY <1>3, SMT
<1>. QED
  BY <1>1, <1>2, <1>4

LEMMA Product ==
    ASSUME NEW a \in Nat, NEW d \in Nat
    PROVE  d * a \in Nat /\ a * d = d * a
BY SMT

LEMMA Multiply ==
    ASSUME NEW a \in Nat, NEW b \in Nat, a < b, NEW d \in Nat \ {0}
    PROVE  d * a + d <= d * b
<1>1. PICK c \in Nat : b = a + 1 + c
  <2>1. b - a - 1 \in Nat /\ b = a + 1 + (b - a - 1)
    OBVIOUS
  <2>. QED
    BY <2>1, Zenon
<1>2. d * b = d * a + d + d * c
  BY <1>1, SMT
<1>3. d * c \in Nat /\ d * a \in Nat
  BY Product, Zenon
<1>. QED
  BY <1>2, <1>3

LEMMA DivUnique ==
    ASSUME NEW d \in Nat \ {0}, NEW q \in Nat, NEW r \in 0..(d - 1), NEW x \in Nat,
           x = d * q + r
    PROVE  x \div d = q /\ x % d = r
<1>1. PICK p : p = x \div d
  BY Zenon
<1>2. PICK m : m = x % d
  BY Zenon
<1>3. p \in Nat /\ m \in 0..(d - 1) /\ x = d * p + m
  BY <1>1, <1>2, DivMod, Zenon
<1>4. d * p \in Nat /\ d * q \in Nat
  BY <1>3, Product, Zenon
<1>5. ~(p < q)
  <2>1. p < q => d * p + d <= d * q
    BY <1>3, Multiply, Zenon
  <2>. QED
    BY <1>3, <1>4, <2>1
<1>6. ~(q < p)
  <2>1. q < p => d * q + d <= d * p
    BY <1>3, Multiply, Zenon
  <2>. QED
    BY <1>3, <1>4, <2>1
<1>7. p = q
  BY <1>3, <1>5, <1>6
<1>8. r = m
  BY <1>3, <1>4, <1>7
<1>. QED
  BY <1>1, <1>2, <1>7, <1>8, Zenon

\* A multiple divided, and the order of multiples.
LEMMA Multiples ==
    ASSUME NEW d \in Nat \ {0}, NEW a \in Nat, NEW b \in Nat
    PROVE  /\ (d * a) \div d = a /\ (d * a) % d = 0
           /\ d * a + d * b = d * (a + b)
           /\ a < b <=> d * a < d * b
           /\ a <= b <=> d * a <= d * b
<1>1. d * a \in Nat /\ d * b \in Nat
  BY Product, Zenon
<1>2. (d * a) \div d = a /\ (d * a) % d = 0
  BY <1>1, DivUnique
<1>3. d * a + d * b = d * (a + b)
  BY SMT
<1>4. a < b => d * a < d * b
  BY <1>1, Multiply
<1>5. b < a => d * b < d * a
  BY <1>1, Multiply
<1>. QED
  BY <1>1, <1>2, <1>3, <1>4, <1>5

LEMMA DivTwice ==
    ASSUME NEW x \in Nat, NEW d \in Nat \ {0}, NEW e \in Nat \ {0}
    PROVE  x \div (d * e) = (x \div d) \div e
<1>1. PICK p : p = x \div d
  BY Zenon
<1>2. PICK m : m = x % d
  BY Zenon
<1>3. p \in Nat /\ m \in 0..(d - 1) /\ x = d * p + m
  BY <1>1, <1>2, DivMod, Zenon
<1>4. PICK q : q = p \div e
  BY Zenon
<1>5. PICK r : r = p % e
  BY Zenon
<1>6. q \in Nat /\ r \in 0..(e - 1) /\ p = e * q + r
  BY <1>3, <1>4, <1>5, DivMod, Zenon
<1>7. PICK f : f = d * e
  BY Zenon
<1>8. f \in Nat \ {0}
  <2>1. d * 0 + d <= d * e
    BY Multiply
  <2>. QED
    BY <1>7, <2>1
<1>9. r < e /\ r \in Nat /\ m \in Nat /\ m < d
  BY <1>3, <1>6
<1>10. d * r + d <= f /\ d * r \in Nat
  BY <1>7, <1>9, Multiply, Product, Zenon
<1>11. d * r + m \in 0..(f - 1)
  BY <1>8, <1>9, <1>10
<1>12. x = f * q + (d * r + m)
  <2>1. d * (e * q + r) = (d * e) * q + d * r
    BY <1>6, <1>9, SMT
  <2>2. f * q \in Nat
    BY <1>6, <1>8, Product, Zenon
  <2>. QED
    BY <1>3, <1>6, <1>7, <1>9, <1>10, <2>1, <2>2
<1>13. x \div f = q
  BY <1>6, <1>8, <1>11, <1>12, DivUnique
<1>. QED
  BY <1>1, <1>4, <1>7, <1>13, Zenon

\* The size of the page tables, and of the user half of the addresses.
Idx == 0..(Entries - 1)

UserEnd == PageSize * ((Entries * Entries * Entries * Entries) \div 2)

\* The indices of page k.
LEMMA PageIndices ==
    ASSUME NEW k \in Nat, NEW u, u = k * PageSize
    PROVE  /\ u \in Nat /\ u = PageSize * k
           /\ pt_index(u) = k % Entries
           /\ pdt_index(u) = (k \div Entries) % Entries
           /\ pdpt_index(u) = ((k \div Entries) \div Entries) % Entries
           /\ pml4_index(u) = (((k \div Entries) \div Entries) \div Entries) % Entries
<1>1. PageSize \in Nat \ {0} /\ Entries \in Nat \ {0}
  BY VmSpaceAssumption, Zenon
<1>2. u \in Nat /\ u = PageSize * k
  BY <1>1, Product, Zenon
<1>3. u \div PageSize = k
  BY <1>1, <1>2, Multiples, Zenon
<1>4. ASSUME NEW d \in Nat \ {0}
      PROVE  d * Entries \in Nat \ {0} /\ u \div (d * Entries) = (u \div d) \div Entries
  <2>1. d * 0 + d <= d * Entries
    BY <1>1, Multiply
  <2>2. d * Entries \in Nat
    BY <1>1, Product, Zenon
  <2>3. d * Entries \in Nat \ {0}
    BY <2>1, <2>2
  <2>. QED
    BY <1>1, <1>2, <2>3, DivTwice, Zenon
<1>5. PICK d : d = PageSize * Entries
  BY Zenon
<1>6. d \in Nat \ {0} /\ u \div d = k \div Entries
  BY <1>1, <1>3, <1>4, <1>5, Zenon
<1>7. PICK e : e = d * Entries
  BY Zenon
<1>8. e \in Nat \ {0} /\ u \div e = (k \div Entries) \div Entries
  BY <1>4, <1>6, <1>7, Zenon
<1>9. u \div (e * Entries) = ((k \div Entries) \div Entries) \div Entries
  BY <1>4, <1>8, Zenon
<1>10. /\ PageSize * Entries * Entries = e
       /\ PageSize * Entries * Entries * Entries = e * Entries
  BY <1>5, <1>7, Zenon
<1>. QED
  BY <1>2, <1>3, <1>5, <1>6, <1>8, <1>9, <1>10, Zenon
     DEF pt_index, pdt_index, pdpt_index, pml4_index

\* The user half ends where the entries of the top level's lower half end.
LEMMA HalfOfTable ==
    /\ KernelSlot \in Nat \ {0} /\ Entries = 2 * KernelSlot /\ KernelSlot \in Idx
    /\ (Entries * Entries * Entries * Entries) \div 2
           = Entries * (Entries * (Entries * KernelSlot))
<1>1. Entries \in Nat \ {0, 1} /\ Entries % 2 = 0
  BY VmSpaceAssumption, Zenon
<1>2. PICK h : h = KernelSlot
  BY Zenon
<1>3. h \in Nat /\ Entries = 2 * h + 0
  BY <1>1, <1>2, DivMod DEF KernelSlot
<1>4. h \in Nat \ {0} /\ Entries = 2 * h /\ h \in Idx
  BY <1>1, <1>3 DEF Idx
<1>5. PICK c : c = Entries * (Entries * (Entries * h))
  BY Zenon
<1>6. c \in Nat
  BY <1>1, <1>3, <1>5, Product, Zenon
<1>7. Entries * Entries * Entries * Entries = 2 * c
  <2>1. \A x \in Nat : x * x * x * (2 * h) = 2 * (x * (x * (x * h)))
    BY <1>4, SMT
  <2>2. Entries * Entries * Entries * (2 * h) = 2 * (Entries * (Entries * (Entries * h)))
    BY <1>1, <2>1, Zenon
  <2>. QED
    BY <1>4, <1>5, <2>2, Zenon
<1>8. (2 * c) \div 2 = c
  BY <1>6, Multiples
<1>. QED
  BY <1>2, <1>4, <1>5, <1>7, <1>8, Zenon

LEMMA DivBelow ==
    ASSUME NEW x \in Nat, NEW n \in Nat, NEW d \in Nat \ {0}, x < d * n
    PROVE  x \div d < n /\ x \div d \in Nat
<1>1. PICK p : p = x \div d
  BY Zenon
<1>2. p \in Nat /\ d * p \in Nat /\ x >= d * p
  BY <1>1, DivMod
<1>3. d * n \in Nat
  BY Product, Zenon
<1>4. d * p < d * n
  BY <1>2, <1>3
<1>. QED
  BY <1>1, <1>2, <1>4, Multiples, Zenon

\* The indices of a user page: that of the top level is in the lower half.
LEMMA UserIndices ==
    ASSUME NEW u \in UserPages
    PROVE  /\ pt_index(u) \in Idx /\ pdt_index(u) \in Idx /\ pdpt_index(u) \in Idx
           /\ pml4_index(u) \in Idx /\ pml4_index(u) # KernelSlot
           /\ \E k \in Nat : /\ u = k * PageSize
                             /\ pml4_index(u) = ((k \div Entries) \div Entries) \div Entries
<1>1. PICK k \in 0..((Entries * Entries * Entries * Entries) \div 2 - 1) : u = k * PageSize
  BY Zenon DEF UserPages
<1>2. PICK h : h = KernelSlot
  BY Zenon
<1>3. PICK c : c = (Entries * Entries * Entries * Entries) \div 2
  BY Zenon
<1>4. /\ h \in Nat \ {0} /\ Entries = 2 * h /\ Entries \in Nat \ {0}
      /\ c = Entries * (Entries * (Entries * h))
  BY <1>2, <1>3, HalfOfTable, VmSpaceAssumption, Zenon
<1>5. Entries * h \in Nat /\ Entries * (Entries * h) \in Nat /\ c \in Nat
  BY <1>4, Product, Zenon
<1>6. k \in Nat /\ k < Entries * (Entries * (Entries * h))
  BY <1>1, <1>3, <1>4, <1>5
<1>7. k \div Entries \in Nat /\ k \div Entries < Entries * (Entries * h)
  BY <1>4, <1>5, <1>6, DivBelow, Zenon
<1>8. PICK k3 : k3 = (k \div Entries) \div Entries
  BY Zenon
<1>9. k3 \in Nat /\ k3 < Entries * h
  BY <1>4, <1>5, <1>7, <1>8, DivBelow, Zenon
<1>10. PICK k4 : k4 = k3 \div Entries
  BY Zenon
<1>11. k4 \in Nat /\ k4 < h
  BY <1>4, <1>9, <1>10, DivBelow, Zenon
<1>12. k4 \in 0..(Entries - 1) /\ k4 # h
  BY <1>4, <1>11
<1>13. k4 % Entries = k4
  <2>1. k4 = Entries * 0 + k4
    BY <1>4, <1>11
  <2>. QED
    BY <1>4, <1>11, <1>12, <2>1, DivUnique
<1>14. pml4_index(u) = k4
  BY <1>1, <1>6, <1>8, <1>10, <1>13, PageIndices, Zenon
<1>15. k % Entries \in Idx /\ (k \div Entries) % Entries \in Idx /\ k3 % Entries \in Idx
  BY <1>4, <1>6, <1>7, <1>9, DivMod, Zenon DEF Idx
<1>. QED
  BY <1>1, <1>2, <1>6, <1>8, <1>10, <1>12, <1>14, <1>15, PageIndices, Zenon DEF Idx

\* No two user pages have the same indices.
LEMMA IndicesUnique ==
    ASSUME NEW u \in UserPages, NEW v \in UserPages,
           pt_index(u) = pt_index(v), pdt_index(u) = pdt_index(v),
           pdpt_index(u) = pdpt_index(v), pml4_index(u) = pml4_index(v)
    PROVE  u = v
<1>0. Entries \in Nat \ {0}
  BY VmSpaceAssumption, Zenon
<1>1. PICK k \in Nat : /\ u = k * PageSize
                       /\ pml4_index(u) = ((k \div Entries) \div Entries) \div Entries
  BY UserIndices, Zenon
<1>2. PICK j \in Nat : /\ v = j * PageSize
                       /\ pml4_index(v) = ((j \div Entries) \div Entries) \div Entries
  BY UserIndices, Zenon
<1>3. ASSUME NEW x \in Nat, NEW y \in Nat, x \div Entries = y \div Entries,
             x % Entries = y % Entries
      PROVE  x = y
  <2>1. /\ x = Entries * (x \div Entries) + (x % Entries)
        /\ y = Entries * (y \div Entries) + (y % Entries)
    BY <1>0, DivMod, Zenon
  <2>. QED
    BY <1>3, <2>1, Zenon
<1>4. PICK k2 : k2 = k \div Entries
  BY Zenon
<1>5. PICK j2 : j2 = j \div Entries
  BY Zenon
<1>6. PICK k3 : k3 = k2 \div Entries
  BY Zenon
<1>7. PICK j3 : j3 = j2 \div Entries
  BY Zenon
<1>8. k2 \in Nat /\ j2 \in Nat /\ k3 \in Nat /\ j3 \in Nat
  BY <1>0, <1>4, <1>5, <1>6, <1>7, DivMod, Zenon
<1>9. /\ k % Entries = j % Entries /\ k2 % Entries = j2 % Entries
      /\ k3 % Entries = j3 % Entries /\ k3 \div Entries = j3 \div Entries
  BY <1>1, <1>2, <1>4, <1>5, <1>6, <1>7, PageIndices
<1>10. k3 = j3
  BY <1>3, <1>8, <1>9, Zenon
<1>11. k2 = j2
  BY <1>3, <1>6, <1>7, <1>8, <1>9, <1>10, Zenon
<1>12. k = j
  BY <1>3, <1>4, <1>5, <1>9, <1>11, Zenon
<1>. QED
  BY <1>1, <1>2, <1>12, Zenon

\* The indices of any address.
LEMMA AnyIndices ==
    ASSUME NEW u \in Nat
    PROVE  /\ pt_index(u) \in Idx /\ pdt_index(u) \in Idx /\ pdpt_index(u) \in Idx
           /\ pml4_index(u) \in Idx
<1>1. Entries \in Nat \ {0} /\ PageSize \in Nat \ {0}
  BY VmSpaceAssumption, Zenon
<1>2. ASSUME NEW d \in Nat \ {0}
      PROVE  (u \div d) % Entries \in Idx /\ d * Entries \in Nat \ {0}
  <2>1. (u \div d) % Entries \in Idx
    BY <1>1, DivMod, Zenon DEF Idx
  <2>2. d * 0 + d <= d * Entries /\ d * Entries \in Nat
    BY <1>1, Multiply, Product
  <2>. QED
    BY <2>1, <2>2
<1>3. PICK d2 : d2 = PageSize * Entries
  BY Zenon
<1>4. d2 \in Nat \ {0}
  BY <1>1, <1>2, <1>3, Zenon
<1>5. PICK d3 : d3 = d2 * Entries
  BY Zenon
<1>6. d3 \in Nat \ {0}
  BY <1>2, <1>4, <1>5, Zenon
<1>7. PICK d4 : d4 = d3 * Entries
  BY Zenon
<1>8. d4 \in Nat \ {0}
  BY <1>2, <1>6, <1>7, Zenon
<1>9. PageSize * Entries * Entries = d3 /\ PageSize * Entries * Entries * Entries = d4
  BY <1>3, <1>5, <1>7, Zenon
<1>. QED
  BY <1>1, <1>2, <1>3, <1>4, <1>6, <1>8, <1>9, Zenon
     DEF pt_index, pdt_index, pdpt_index, pml4_index

-------------------------------------------------------------------------------
(* User pages                                                                 *)

\* The number of pages of the user half.
LEMMA UserHalf ==
    /\ (Entries * Entries * Entries * Entries) \div 2 \in Nat
    /\ UserEnd \in Nat
<1>1. PICK h : h = (Entries * Entries * Entries * Entries) \div 2
  BY Zenon
<1>2. h \in Nat
  <2>1. /\ KernelSlot \in Nat /\ Entries \in Nat
        /\ h = Entries * (Entries * (Entries * KernelSlot))
    BY <1>1, HalfOfTable, VmSpaceAssumption, Zenon
  <2>2. Entries * KernelSlot \in Nat
    BY <2>1, Product, Zenon
  <2>3. Entries * (Entries * KernelSlot) \in Nat
    BY <2>1, <2>2, Product, Zenon
  <2>. QED
    BY <2>1, <2>3, Product, Zenon
<1>3. PageSize * h \in Nat
  BY <1>2, VmSpaceAssumption, Product, Zenon
<1>. QED
  BY <1>1, <1>2, <1>3, Zenon DEF UserEnd

LEMMA UserPageFields ==
    ASSUME NEW u \in UserPages
    PROVE  u \in Nat /\ u % PageSize = 0 /\ u < UserEnd
<1>2. PICK h \in Nat : h = (Entries * Entries * Entries * Entries) \div 2
  BY UserHalf, Zenon
<1>3. PICK k \in 0..(h - 1) : u = k * PageSize
  BY <1>2, Zenon DEF UserPages
<1>4. k \in Nat /\ k < h /\ PageSize \in Nat \ {0}
  BY <1>2, <1>3, VmSpaceAssumption
<1>5. u = PageSize * k /\ u \in Nat
  BY <1>3, <1>4, Product, Zenon
<1>6. (PageSize * k) % PageSize = 0 /\ PageSize * k < PageSize * h
  BY <1>2, <1>4, Multiples
<1>. QED
  BY <1>2, <1>5, <1>6, Zenon DEF UserEnd

LEMMA UserPage ==
    ASSUME NEW u \in Nat, u % PageSize = 0, u < UserEnd
    PROVE  u \in UserPages
<1>2. PICK h \in Nat : h = (Entries * Entries * Entries * Entries) \div 2
  BY UserHalf, Zenon
<1>3. PageSize \in Nat \ {0} /\ u < PageSize * h
  BY <1>2, VmSpaceAssumption, Zenon DEF UserEnd
<1>4. PICK k : k = u \div PageSize
  BY Zenon
<1>5. k \in Nat /\ PageSize * k \in Nat /\ u = PageSize * k
  BY <1>3, <1>4, DivMod
<1>6. k < h
  BY <1>2, <1>3, <1>4, DivBelow, Zenon
<1>7. k \in 0..(h - 1) /\ u = k * PageSize
  BY <1>2, <1>3, <1>5, <1>6, Product
<1>. QED
  BY <1>2, <1>7, Zenon DEF UserPages

\* The pages of a range that starts at a page and has n of them.
LEMMA PageAt ==
    ASSUME NEW u \in Nat, u % PageSize = 0, NEW start \in Nat, start % PageSize = 0,
           NEW n \in Nat, start <= u, u < start + n * PageSize
    PROVE  \E j \in 0..(n - 1) : (u - start) \div PageSize = j /\ u = start + j * PageSize
<1>1. PageSize \in Nat \ {0}
  BY VmSpaceAssumption, Zenon
<1>2. PICK i \in Nat : u = PageSize * i
  <2>1. u \div PageSize \in Nat /\ u = PageSize * (u \div PageSize)
    BY <1>1, DivMod
  <2>. QED
    BY <2>1, Zenon
<1>3. PICK b \in Nat : start = PageSize * b
  <2>1. start \div PageSize \in Nat /\ start = PageSize * (start \div PageSize)
    BY <1>1, DivMod
  <2>. QED
    BY <2>1, Zenon
<1>4. n * PageSize = PageSize * n /\ PageSize * b + PageSize * n = PageSize * (b + n)
  BY <1>1, Product, Multiples
<1>5. b <= i
  BY <1>1, <1>2, <1>3, Multiples, Zenon
<1>6. i < b + n
  <2>1. b + n \in Nat /\ PageSize * i < PageSize * (b + n)
    BY <1>2, <1>3, <1>4
  <2>. QED
    BY <1>1, <2>1, Multiples, Zenon
<1>7. PICK j \in 0..(n - 1) : i = b + j
  <2>1. i - b \in 0..(n - 1) /\ i = b + (i - b)
    BY <1>5, <1>6
  <2>. QED
    BY <2>1, Zenon
<1>8. j \in Nat
  BY <1>7
<1>9. /\ PageSize * b + PageSize * j = PageSize * (b + j) /\ j * PageSize = PageSize * j
      /\ (PageSize * j) \div PageSize = j /\ PageSize * j \in Nat
  BY <1>1, <1>8, Multiples, Product
<1>10. u = start + PageSize * j
  BY <1>2, <1>3, <1>7, <1>9, Zenon
<1>11. u - start = PageSize * j
  BY <1>9, <1>10
<1>. QED
  BY <1>9, <1>10, <1>11, Zenon

\* Page k of such a range.
LEMMA PageFrom ==
    ASSUME NEW start \in Nat, start % PageSize = 0, NEW k \in Nat, NEW n \in Nat, k < n,
           NEW u, u = start + k * PageSize
    PROVE  /\ u \in Nat /\ u % PageSize = 0 /\ (u - start) \div PageSize = k
           /\ start <= u /\ u + PageSize <= start + n * PageSize
<1>1. PageSize \in Nat \ {0}
  BY VmSpaceAssumption, Zenon
<1>2. PICK b \in Nat : start = PageSize * b
  <2>1. start \div PageSize \in Nat /\ start = PageSize * (start \div PageSize)
    BY <1>1, DivMod
  <2>. QED
    BY <2>1, Zenon
<1>3. /\ k * PageSize = PageSize * k /\ PageSize * k \in Nat /\ (PageSize * k) \div PageSize = k
      /\ PageSize * b + PageSize * k = PageSize * (b + k)
      /\ n * PageSize = PageSize * n /\ PageSize * n \in Nat
  BY <1>1, Product, Multiples
<1>4. PageSize * k + PageSize <= PageSize * n
  BY <1>1, Multiply, Zenon
<1>5. (PageSize * (b + k)) % PageSize = 0
  <2>1. b + k \in Nat
    BY <1>2
  <2>. QED
    BY <1>1, <2>1, Multiples, Zenon
<1>6. u - start = PageSize * k /\ u \in Nat /\ u = PageSize * (b + k)
  BY <1>2, <1>3
<1>. QED
  BY <1>1, <1>3, <1>4, <1>5, <1>6

\* The pages a loop has come to: those before, and the one in between.
LEMMA PagesUpTo ==
    ASSUME NEW u \in Nat, u % PageSize = 0, NEW start \in Nat, start % PageSize = 0, NEW k \in Nat
    PROVE  /\ u \in start..(start + (k + 1) * PageSize - 1) <=>
                  u \in start..(start + k * PageSize - 1) \/ u = start + k * PageSize
           /\ u \in start..(start + k * PageSize - 1) <=>
                  \E j \in 0..(k - 1) : u = start + j * PageSize
<1>1. PageSize \in Nat \ {0} /\ k + 1 \in Nat
  BY VmSpaceAssumption
<1>2. ASSUME NEW n \in Nat
      PROVE  u \in start..(start + n * PageSize - 1) <=>
                 \E j \in 0..(n - 1) : u = start + j * PageSize
  <2>1. n * PageSize \in Nat
    BY <1>1, Product, Zenon
  <2>2. ASSUME u \in start..(start + n * PageSize - 1)
        PROVE  \E j \in 0..(n - 1) : u = start + j * PageSize
    <3>1. start <= u /\ u < start + n * PageSize
      BY <2>1, <2>2
    <3>. QED
      BY <3>1, PageAt
  <2>3. ASSUME NEW j \in 0..(n - 1), u = start + j * PageSize
        PROVE  u \in start..(start + n * PageSize - 1)
    <3>1. j \in Nat /\ j < n
      OBVIOUS
    <3>2. start <= u /\ u + PageSize <= start + n * PageSize
      BY <2>3, <3>1, PageFrom, Zenon
    <3>. QED
      BY <1>1, <2>1, <3>2
  <2>. QED
    BY <2>2, <2>3, Zenon
<1>3. \A j : j \in 0..((k + 1) - 1) <=> j \in 0..(k - 1) \/ j = k
  OBVIOUS
<1>. QED
  BY <1>1, <1>2, <1>3, Zenon

\* An address, its page, and a range that starts at a page before it.
LEMMA WithinPage ==
    ASSUME NEW v \in Nat, NEW b \in Nat, b % PageSize = 0, b <= v,
           NEW w, w = v - (v % PageSize)
    PROVE  /\ w \in Nat /\ w % PageSize = 0 /\ b <= w /\ w <= v
           /\ (w - b) \div PageSize = (v - b) \div PageSize /\ (v - b) % PageSize = v % PageSize
<1>1. PageSize \in Nat \ {0}
  BY VmSpaceAssumption, Zenon
<1>2. PICK i, r : i = v \div PageSize /\ r = v % PageSize
  BY Zenon
<1>3. i \in Nat /\ r \in 0..(PageSize - 1) /\ PageSize * i \in Nat /\ v = PageSize * i + r
  BY <1>1, <1>2, DivMod, Zenon
<1>4. w = PageSize * i
  BY <1>1, <1>2, <1>3
<1>5. PICK c \in Nat : b = PageSize * c
  <2>1. b \div PageSize \in Nat /\ b = PageSize * (b \div PageSize)
    BY <1>1, DivMod
  <2>. QED
    BY <2>1, Zenon
<1>6. c <= i
  <2>1. ASSUME i < c
        PROVE  FALSE
    <3>1. PageSize * i + PageSize <= PageSize * c
      BY <1>1, <1>3, <1>5, <2>1, Multiply, Zenon
    <3>. QED
      BY <1>1, <1>3, <1>5, <3>1
  <2>. QED
    BY <1>3, <1>5, <2>1
<1>7. PICK d \in Nat : i = c + d
  <2>1. i - c \in Nat /\ i = c + (i - c)
    BY <1>3, <1>5, <1>6
  <2>. QED
    BY <2>1, Zenon
<1>8. /\ PageSize * c + PageSize * d = PageSize * (c + d) /\ PageSize * d \in Nat
      /\ (PageSize * d) \div PageSize = d
      /\ (PageSize * i) % PageSize = 0 /\ PageSize * c \in Nat
  BY <1>1, <1>3, <1>5, <1>7, Multiples, Product, SMTT(60)
<1>9. PageSize * i = PageSize * c + PageSize * d
  BY <1>7, <1>8, Zenon
<1>10. w - b = PageSize * d /\ b <= w /\ w <= v
  <2>1. PICK x \in Nat, y \in Nat : x = PageSize * c /\ y = PageSize * d
    BY <1>8, Zenon
  <2>2. w = x + y /\ b = x /\ v = (x + y) + r
    BY <1>3, <1>4, <1>5, <1>9, <2>1, Zenon
  <2>3. r \in Nat
    BY <1>1, <1>3
  <2>4. w - b = y /\ b <= w /\ w <= v
    BY ONLY <2>2, <2>3, x \in Nat, y \in Nat
  <2>. QED
    BY <2>1, <2>4, Zenon
<1>11. v - b \in Nat /\ v - b = PageSize * d + r
  <2>1. PICK x \in Nat, y \in Nat : x = PageSize * c /\ y = PageSize * d
    BY <1>8, Zenon
  <2>2. b = x /\ v = (x + y) + r
    BY <1>3, <1>5, <1>9, <2>1, Zenon
  <2>3. r \in Nat
    BY <1>1, <1>3
  <2>4. v - b \in Nat /\ v - b = y + r
    BY ONLY <2>2, <2>3, x \in Nat, y \in Nat
  <2>. QED
    BY <2>1, <2>4, Zenon
<1>12. (v - b) \div PageSize = d /\ (v - b) % PageSize = r
  <2>1. PICK z : z = v - b
    BY Zenon
  <2>2. z \in Nat /\ z = PageSize * d + r /\ r \in 0..(PageSize - 1) /\ d \in Nat
    BY <1>3, <1>7, <1>11, <2>1, Zenon
  <2>3. z \div PageSize = d /\ z % PageSize = r
    BY ONLY <1>1, <2>2, DivUnique
  <2>. QED
    BY <2>1, <2>3, Zenon
<1>. QED
  BY <1>2, <1>3, <1>4, <1>8, <1>10, <1>12, Zenon

-------------------------------------------------------------------------------
(* The tree of page tables                                                    *)

\* The place of a page table: its level, 4 at the top, the space it belongs to, and the
\* indices that lead to it.  The tables under BOOT_PDPT belong to no space.
Pos(level, space, i4, i3, i2) ==
    [level |-> level, space |-> space, i4 |-> i4, i3 |-> i3, i2 |-> i2]

Positions ==
    {p \in [level : 1..4, space : Spaces \cup {None}, i4 : Idx, i3 : Idx, i2 : Idx] :
        /\ p.level = 4 => p.i4 = 0
        /\ p.level >= 3 => p.i3 = 0
        /\ p.level >= 2 => p.i2 = 0}

RootPos(s) == Pos(4, s, 0, 0, 0)

KernelPos == Pos(3, None, KernelSlot, 0, 0)

LeafPos(s, u) == Pos(1, s, pml4_index(u), pdpt_index(u), pdt_index(u))

Child(p, k) ==
    Pos(p.level - 1, p.space, IF p.level = 4 THEN k ELSE p.i4,
        IF p.level = 3 THEN k ELSE p.i3, IF p.level = 2 THEN k ELSE p.i2)

PteType == [page : 0..BOOT_PDPT, flags : SUBSET {"V", "W", "U", "HUGE"}]

\* The entry that leads to BOOT_PDPT, and the entries of the direct map.
ToKernel(p, k) == p.level = 4 /\ k = KernelSlot

DirectMap(p, k) == p = KernelPos /\ k < HugeEntries

\* What entry k of table t holds, with n pages left: it leads to a table one level below,
\* or, at the last level, to a page that is no table.
EntryOK(ts, n, pos, t, k) ==
    /\ ToKernel(pos[t], k) => ts[t][k] = Pte(BOOT_PDPT, {"V"})
    /\ DirectMap(pos[t], k) => ts[t][k] = Pte(None, {"V", "HUGE"})
    /\ ~ToKernel(pos[t], k) /\ ~DirectMap(pos[t], k) =>
        \/ ts[t][k] = NotPresent
        \/ /\ pos[t].level > 1 /\ ts[t][k].flags = TableFlags
           /\ ts[t][k].page \in DOMAIN ts /\ pos[ts[t][k].page] = Child(pos[t], k)
        \/ /\ pos[t].level = 1 /\ ts[t][k].flags = {"V", "U"}
           /\ ts[t][k].page \in ((n + 1)..MaxPages) \ DOMAIN ts

\* A table other than the top ones is in an entry of a table one level above.
Linked(ts, pos, t) ==
    \/ pos[t].level = 4 \/ t = BOOT_PDPT
    \/ \E p \in DOMAIN ts, k \in Idx :
        /\ pos[p].level > 1 /\ ~ToKernel(pos[p], k) /\ ~DirectMap(pos[p], k)
        /\ ts[p][k] = Pte(t, TableFlags)

\* Every table has a place of its own, and the entries lead from place to place.
Graph(ts, rt, n, pos) ==
    /\ n \in 0..MaxPages
    /\ DOMAIN ts \subseteq ((n + 1)..MaxPages) \cup {BOOT_PDPT} /\ BOOT_PDPT \in DOMAIN ts
    /\ \A t \in DOMAIN ts : ts[t] \in [Idx -> PteType]
    /\ pos \in [DOMAIN ts -> Positions] /\ pos[BOOT_PDPT] = KernelPos
    /\ \A t, v \in DOMAIN ts : pos[t] = pos[v] => t = v
    /\ rt \in [Spaces -> 0..MaxPages]
    /\ \A s \in Spaces : rt[s] # None => rt[s] \in DOMAIN ts /\ pos[rt[s]] = RootPos(s)
    /\ \A t \in DOMAIN ts : pos[t].level = 4 => \E s \in Spaces : rt[s] = t
    /\ \A t \in DOMAIN ts, k \in Idx : EntryOK(ts, n, pos, t, k)
    /\ \A t \in DOMAIN ts : Linked(ts, pos, t)

LEMMA PosFields ==
    ASSUME NEW l, NEW s, NEW a, NEW b, NEW c
    PROVE  /\ Pos(l, s, a, b, c).level = l /\ Pos(l, s, a, b, c).space = s
           /\ Pos(l, s, a, b, c).i4 = a /\ Pos(l, s, a, b, c).i3 = b /\ Pos(l, s, a, b, c).i2 = c
BY Zenon DEF Pos

\* The small facts about constants that the lemmas below use.
LEMMA Sizes ==
    /\ 0 \in Idx /\ KernelSlot \in Idx /\ KernelSlot # 0
    /\ MaxPages \in Nat /\ BOOT_PDPT = MaxPages + 1 /\ BOOT_PDPT \in Nat /\ BOOT_PDPT # None
    /\ None = 0 /\ None \in 0..BOOT_PDPT
<1>1. Entries \in Nat \ {0} /\ MaxPages \in Nat
  BY VmSpaceAssumption, Zenon
<1>2. KernelSlot \in Idx /\ KernelSlot # 0
  BY HalfOfTable, Zenon
<1>. QED
  BY <1>1, <1>2 DEF Idx, BOOT_PDPT, None

LEMMA PlacesTyped ==
    /\ \A s \in Spaces : RootPos(s) \in Positions /\ RootPos(s).level = 4
    /\ KernelPos \in Positions /\ KernelPos.level = 3
    /\ \A s, t \in Spaces : RootPos(s) = RootPos(t) => s = t
<1>1. ASSUME NEW s \in Spaces
      PROVE  RootPos(s) \in Positions /\ RootPos(s).level = 4 /\ RootPos(s).space = s
  BY Sizes DEF RootPos, Pos, Positions
<1>2. KernelPos \in Positions /\ KernelPos.level = 3
  BY Sizes DEF KernelPos, Pos, Positions
<1>. QED
  BY <1>1, <1>2, Zenon

\* Different entries lead to different places.
LEMMA ChildPlace ==
    ASSUME NEW p \in Positions, p.level > 1, NEW k \in Idx
    PROVE  Child(p, k) \in Positions /\ Child(p, k).level = p.level - 1
<1>1. /\ p.level \in 2..4 /\ p.space \in Spaces \cup {None} /\ p.i4 \in Idx /\ p.i3 \in Idx
      /\ p.i2 \in Idx
      /\ (p.level = 4 => p.i4 = 0) /\ (p.level >= 3 => p.i3 = 0) /\ (p.level >= 2 => p.i2 = 0)
  BY DEF Positions
<1>2. PICK l \in 2..4 : l = p.level
  BY <1>1, Zenon
<1>3. l - 1 \in 1..4
  BY <1>2
<1>. QED
  BY <1>1, <1>2, <1>3 DEF Child, Pos, Positions

LEMMA ChildUnique ==
    ASSUME NEW p \in Positions, p.level > 1, NEW k \in Idx,
           NEW q \in Positions, q.level > 1, NEW j \in Idx, Child(p, k) = Child(q, j)
    PROVE  p = q /\ k = j
<1>1. /\ p = Pos(p.level, p.space, p.i4, p.i3, p.i2) /\ q = Pos(q.level, q.space, q.i4, q.i3, q.i2)
      /\ p.level \in 2..4 /\ q.level \in 2..4
      /\ (p.level = 4 => p.i4 = 0) /\ (p.level >= 3 => p.i3 = 0) /\ (p.level >= 2 => p.i2 = 0)
      /\ (q.level = 4 => q.i4 = 0) /\ (q.level >= 3 => q.i3 = 0) /\ (q.level >= 2 => q.i2 = 0)
  BY DEF Positions, Pos
<1>2. /\ p.level - 1 = q.level - 1 /\ p.space = q.space
      /\ (IF p.level = 4 THEN k ELSE p.i4) = (IF q.level = 4 THEN j ELSE q.i4)
      /\ (IF p.level = 3 THEN k ELSE p.i3) = (IF q.level = 3 THEN j ELSE q.i3)
      /\ (IF p.level = 2 THEN k ELSE p.i2) = (IF q.level = 2 THEN j ELSE q.i2)
  BY PosFields DEF Child
<1>3. p.level = q.level
  BY <1>1, <1>2
<1>4. /\ p.i4 = q.i4 /\ p.i3 = q.i3 /\ p.i2 = q.i2 /\ k = j
  <2>1. p.level = 2 \/ p.level = 3 \/ p.level = 4
    BY <1>1
  <2>. QED
    BY <1>1, <1>2, <1>3, <2>1
<1>. QED
  BY <1>1, <1>2, <1>3, <1>4, Zenon

\* The place an entry leads to is not that of BOOT_PDPT, but for the entry of a top table.
LEMMA ChildNotKernel ==
    ASSUME NEW p \in Positions, p.level > 1, NEW k \in Idx, ~ToKernel(p, k)
    PROVE  Child(p, k) # KernelPos
<1>1. SUFFICES ASSUME Child(p, k) = KernelPos PROVE FALSE
  BY Zenon
<1>2. p.level - 1 = 3 /\ (IF p.level = 4 THEN k ELSE p.i4) = KernelSlot
  <2>1. Child(p, k).level = p.level - 1 /\ Child(p, k).i4 = IF p.level = 4 THEN k ELSE p.i4
    BY Zenon DEF Child, Pos
  <2>2. KernelPos.level = 3 /\ KernelPos.i4 = KernelSlot
    BY Zenon DEF KernelPos, Pos
  <2>. QED
    BY <1>1, <2>1, <2>2, Zenon
<1>3. p.level \in 2..4
  BY DEF Positions
<1>. QED
  BY <1>2, <1>3 DEF ToKernel

\* The parts of Graph.
LEMMA GraphTyped ==
    ASSUME NEW ts, NEW rt, NEW n, NEW pos, Graph(ts, rt, n, pos)
    PROVE  /\ n \in Nat /\ n <= MaxPages /\ MaxPages \in Nat
           /\ n \notin DOMAIN ts /\ None \notin DOMAIN ts
           /\ DOMAIN ts \subseteq (Pages \cup {BOOT_PDPT})
           /\ \A t \in DOMAIN ts, k \in Idx : ts[t][k] \in PteType
           /\ \A t \in DOMAIN ts : pos[t] \in Positions /\ pos[t].level \in 1..4
<1>1. /\ n \in Nat /\ n <= MaxPages /\ MaxPages \in Nat
      /\ DOMAIN ts \subseteq ((n + 1)..MaxPages) \cup {BOOT_PDPT}
  BY Sizes DEF Graph
<1>2. n \notin (n + 1)..MaxPages /\ n # BOOT_PDPT /\ 0 \notin (n + 1)..MaxPages /\ 0 # BOOT_PDPT
  BY <1>1, Sizes
<1>3. (n + 1)..MaxPages \subseteq Pages
  BY <1>1 DEF Pages
<1>4. \A t \in DOMAIN ts : pos[t] \in Positions
  BY Zenon DEF Graph
<1>5. \A p \in Positions : p.level \in 1..4
  BY Zenon DEF Positions
<1>6. \A t \in DOMAIN ts, k \in Idx : ts[t][k] \in PteType
  BY DEF Graph
<1>. QED
  BY <1>1, <1>2, <1>3, <1>4, <1>5, <1>6, Sizes, Zenon

LEMMA Parent ==
    ASSUME NEW ts, NEW rt, NEW n, NEW pos, Graph(ts, rt, n, pos),
           NEW t \in DOMAIN ts, pos[t].level # 4, t # BOOT_PDPT
    PROVE  \E p \in DOMAIN ts, k \in Idx :
               /\ pos[p].level > 1 /\ ~ToKernel(pos[p], k) /\ ~DirectMap(pos[p], k)
               /\ ts[p][k] = Pte(t, TableFlags) /\ pos[t] = Child(pos[p], k)
<1>1. PICK p \in DOMAIN ts, k \in Idx :
          /\ pos[p].level > 1 /\ ~ToKernel(pos[p], k) /\ ~DirectMap(pos[p], k)
          /\ ts[p][k] = Pte(t, TableFlags)
  <2>1. Linked(ts, pos, t)
    BY Zenon DEF Graph
  <2>. QED
    BY <2>1, Zenon DEF Linked
<1>2. EntryOK(ts, n, pos, p, k)
  BY Zenon DEF Graph
<1>3. ts[p][k].page = t /\ ts[p][k].flags = TableFlags
  BY <1>1 DEF Pte
<1>4. ts[p][k] # NotPresent
  BY <1>3 DEF NotPresent, Pte, TableFlags
<1>5. pos[p].level # 1
  BY <1>1
<1>6. pos[t] = Child(pos[p], k)
  BY <1>1, <1>2, <1>3, <1>4, <1>5, Zenon DEF EntryOK
<1>. QED
  BY <1>1, <1>6, Zenon

\* The place that an entry which is not present would lead to is free.
LEMMA ChildFree ==
    ASSUME NEW ts, NEW rt, NEW n, NEW pos, Graph(ts, rt, n, pos),
           NEW at \in DOMAIN ts, NEW k \in Idx, pos[at].level > 1, ~ToKernel(pos[at], k),
           ts[at][k] = NotPresent, NEW t \in DOMAIN ts
    PROVE  pos[t] # Child(pos[at], k)
<1>1. SUFFICES ASSUME pos[t] = Child(pos[at], k) PROVE FALSE
  BY Zenon
<1>2. pos[at] \in Positions /\ pos[at].level \in 1..4
  BY GraphTyped, Zenon
<1>3. pos[t].level = pos[at].level - 1 /\ pos[t] # KernelPos
  BY <1>1, <1>2, ChildPlace, ChildNotKernel, Zenon
<1>4. pos[t].level # 4 /\ t # BOOT_PDPT
  BY <1>2, <1>3 DEF Graph
<1>5. PICK p \in DOMAIN ts, j \in Idx :
          /\ pos[p].level > 1 /\ ts[p][j] = Pte(t, TableFlags) /\ pos[t] = Child(pos[p], j)
  BY <1>4, Parent
<1>6. pos[p] \in Positions
  BY GraphTyped, Zenon
<1>7. pos[p] = pos[at] /\ j = k
  <2>1. PICK a : a = pos[p]
    BY Zenon
  <2>2. PICK b : b = pos[at]
    BY Zenon
  <2>3. a \in Positions /\ b \in Positions /\ a.level > 1 /\ b.level > 1
    BY <1>2, <1>5, <1>6, <2>1, <2>2, Zenon
  <2>4. Child(a, j) = Child(b, k)
    BY <1>1, <1>5, <2>1, <2>2, Zenon
  <2>5. a = b /\ j = k
    BY ONLY <2>3, <2>4, ChildUnique
  <2>. QED
    BY <2>1, <2>2, <2>5, Zenon
<1>8. p = at
  BY <1>7, Zenon DEF Graph
<1>9. NotPresent = Pte(t, TableFlags)
  BY <1>5, <1>7, <1>8, Zenon
<1>. QED
  BY <1>9, Zenon DEF NotPresent, Pte, TableFlags

\* A new table under entry k of table at.
AddTable(ts, at, k, n) ==
    [t \in DOMAIN ts \cup {n} |->
        IF t = n THEN EmptyTable
        ELSE IF t = at THEN [ts[t] EXCEPT ![k] = Pte(n, TableFlags)] ELSE ts[t]]

AddPos(ts, pos, n, p) == [t \in DOMAIN ts \cup {n} |-> IF t = n THEN p ELSE pos[t]]

LEMMA EmptyTyped ==
    /\ NotPresent \in PteType /\ EmptyTable \in [Idx -> PteType]
    /\ \A k \in Idx : EmptyTable[k] = NotPresent
    /\ NotPresent.page = None /\ NotPresent.flags = {}
<1>1. NotPresent \in PteType /\ NotPresent.page = None /\ NotPresent.flags = {}
  BY Sizes, Zenon DEF NotPresent, Pte, PteType
<1>. QED
  BY <1>1, Zenon DEF EmptyTable, Idx

LEMMA AddTableGraph ==
    ASSUME NEW ts, NEW rt, NEW n, NEW pos, Graph(ts, rt, n, pos), n # 0,
           NEW at \in DOMAIN ts, NEW k \in Idx, pos[at].level > 1, ~ToKernel(pos[at], k),
           ~DirectMap(pos[at], k), ts[at][k] = NotPresent,
           NEW tb, tb = AddTable(ts, at, k, n),
           NEW pb, pb = AddPos(ts, pos, n, Child(pos[at], k))
    PROVE  Graph(tb, rt, n - 1, pb)
<1>1. PICK c : c = Child(pos[at], k)
  BY Zenon
<1>2. /\ n \in Nat /\ n <= MaxPages /\ MaxPages \in Nat /\ n \notin DOMAIN ts
      /\ \A t \in DOMAIN ts : pos[t] \in Positions /\ pos[t].level \in 1..4
  BY GraphTyped, Zenon
<1>3. c \in Positions /\ c.level = pos[at].level - 1 /\ c # KernelPos
  BY <1>1, <1>2, ChildPlace, ChildNotKernel, Zenon
<1>4. c.level # 4 /\ c.level < 4
  BY <1>2, <1>3
<1>5. /\ DOMAIN tb = DOMAIN ts \cup {n} /\ tb[n] = EmptyTable
      /\ \A t \in DOMAIN ts :
             t # n /\ tb[t] = IF t = at THEN [ts[t] EXCEPT ![k] = Pte(n, TableFlags)] ELSE ts[t]
  BY <1>2, Zenon DEF AddTable
<1>6. /\ pb \in [DOMAIN tb -> Positions] /\ pb[n] = c
      /\ \A t \in DOMAIN ts : pb[t] = pos[t]
  BY <1>1, <1>2, <1>3, <1>5, Zenon DEF AddPos
<1>7. \A t \in DOMAIN ts : ts[t] \in [Idx -> PteType]
  BY Zenon DEF Graph
<1>8. /\ Pte(n, TableFlags) \in PteType /\ Pte(n, TableFlags).page = n
      /\ Pte(n, TableFlags).flags = TableFlags
  <2>1. n \in 0..BOOT_PDPT
    BY <1>2, Sizes
  <2>. QED
    BY <2>1, Zenon DEF Pte, PteType, TableFlags
<1>9. /\ \A t \in DOMAIN tb : tb[t] \in [Idx -> PteType]
      /\ tb[at][k] = Pte(n, TableFlags)
      /\ \A t \in DOMAIN ts, j \in Idx : (t # at \/ j # k) => tb[t][j] = ts[t][j]
  BY <1>5, <1>7, <1>8, EmptyTyped
<1>10. n - 1 \in 0..MaxPages /\ (n - 1) + 1 = n
  BY <1>2
<1>11. /\ DOMAIN tb \subseteq (((n - 1) + 1)..MaxPages) \cup {BOOT_PDPT} /\ BOOT_PDPT \in DOMAIN tb
  <2>1. DOMAIN ts \subseteq ((n + 1)..MaxPages) \cup {BOOT_PDPT} /\ BOOT_PDPT \in DOMAIN ts
    BY Zenon DEF Graph
  <2>2. (n + 1)..MaxPages \subseteq n..MaxPages /\ n \in n..MaxPages
    BY <1>2
  <2>. QED
    BY <1>5, <1>10, <2>1, <2>2, Zenon
<1>12. pb[BOOT_PDPT] = KernelPos
  BY <1>6, Zenon DEF Graph
<1>13. \A t, v \in DOMAIN tb : pb[t] = pb[v] => t = v
  <2>1. \A t \in DOMAIN ts : pos[t] # c
    BY <1>1, ChildFree, Zenon
  <2>2. \A t, v \in DOMAIN ts : pos[t] = pos[v] => t = v
    BY Zenon DEF Graph
  <2>. QED
    BY <1>5, <1>6, <2>1, <2>2
<1>14. /\ rt \in [Spaces -> 0..MaxPages]
       /\ \A s \in Spaces : rt[s] # None => rt[s] \in DOMAIN tb /\ pb[rt[s]] = RootPos(s)
  BY <1>5, <1>6, Zenon DEF Graph
<1>15. \A t \in DOMAIN tb : pb[t].level = 4 => \E s \in Spaces : rt[s] = t
  BY <1>4, <1>5, <1>6 DEF Graph
<1>16. ASSUME NEW t \in DOMAIN tb, NEW j \in Idx
       PROVE  EntryOK(tb, n - 1, pb, t, j)
  <2>1. CASE t = n
    <3>1. ~ToKernel(pb[t], j) /\ ~DirectMap(pb[t], j) /\ tb[t][j] = NotPresent
      BY <1>3, <1>4, <1>5, <1>6, <2>1, EmptyTyped, Zenon DEF ToKernel, DirectMap
    <3>. QED
      BY <3>1, Zenon DEF EntryOK
  <2>2. CASE t = at /\ j = k
    <3>1. /\ tb[t][j].page = n /\ tb[t][j].flags = TableFlags /\ pb[t] = pos[at] /\ n \in DOMAIN tb
          /\ pb[n] = Child(pb[t], j) /\ ~ToKernel(pb[t], j) /\ ~DirectMap(pb[t], j)
          /\ pb[t].level > 1
      BY <1>1, <1>5, <1>6, <1>8, <1>9, <2>2, Zenon
    <3>. QED
      BY <3>1, Zenon DEF EntryOK
  <2>3. CASE t \in DOMAIN ts /\ (t # at \/ j # k)
    <3>1. EntryOK(ts, n, pos, t, j)
      BY <2>3, Zenon DEF Graph
    <3>2. tb[t][j] = ts[t][j] /\ pb[t] = pos[t]
      BY <1>6, <1>9, <2>3, Zenon
    <3>3. ts[t][j].page \in DOMAIN ts =>
              ts[t][j].page \in DOMAIN tb /\ pb[ts[t][j].page] = pos[ts[t][j].page]
      BY <1>5, <1>6, Zenon
    <3>4. ts[t][j].page \in ((n + 1)..MaxPages) \ DOMAIN ts =>
              ts[t][j].page \in (((n - 1) + 1)..MaxPages) \ DOMAIN tb
      BY <1>2, <1>5, <1>10
    <3>. QED
      BY <3>1, <3>2, <3>3, <3>4, Zenon DEF EntryOK
  <2>. QED
    BY <1>5, <2>1, <2>2, <2>3, Zenon
<1>17. ASSUME NEW t \in DOMAIN tb
       PROVE  Linked(tb, pb, t)
  <2>1. CASE t = n
    <3>1. /\ pb[at].level > 1 /\ ~ToKernel(pb[at], k) /\ ~DirectMap(pb[at], k)
          /\ tb[at][k] = Pte(t, TableFlags) /\ at \in DOMAIN tb
      BY <1>5, <1>6, <1>9, <2>1, Zenon
    <3>. QED
      BY <3>1, Zenon DEF Linked
  <2>2. CASE t \in DOMAIN ts /\ (pos[t].level = 4 \/ t = BOOT_PDPT)
    BY <1>6, <2>2, Zenon DEF Linked
  <2>3. CASE t \in DOMAIN ts /\ pos[t].level # 4 /\ t # BOOT_PDPT
    <3>1. PICK p \in DOMAIN ts, j \in Idx :
              /\ pos[p].level > 1 /\ ~ToKernel(pos[p], j) /\ ~DirectMap(pos[p], j)
              /\ ts[p][j] = Pte(t, TableFlags)
      BY <2>3, Parent
    <3>2. p # at \/ j # k
      BY <3>1 DEF NotPresent, Pte, TableFlags
    <3>3. tb[p][j] = Pte(t, TableFlags) /\ pb[p] = pos[p] /\ p \in DOMAIN tb
      BY <1>5, <1>6, <1>9, <3>1, <3>2, Zenon
    <3>. QED
      BY <3>1, <3>3, Zenon DEF Linked
  <2>. QED
    BY <1>5, <2>1, <2>2, <2>3, Zenon
<1>. QED
  BY <1>6, <1>9, <1>10, <1>11, <1>12, <1>13, <1>14, <1>15, <1>16, <1>17, Zenon DEF Graph

\* A page in a free entry of the last level.
SetLeaf(ts, at, k, page) == [ts EXCEPT ![at][k] = Pte(page, {"V", "U"})]

LEMMA SetLeafTables ==
    ASSUME NEW ts, NEW rt, NEW n, NEW pos, Graph(ts, rt, n, pos),
           NEW at \in DOMAIN ts, NEW k \in Idx, NEW page \in ((n + 1)..MaxPages) \ DOMAIN ts,
           NEW tb, tb = SetLeaf(ts, at, k, page)
    PROVE  /\ DOMAIN tb = DOMAIN ts /\ \A t \in DOMAIN tb : tb[t] \in [Idx -> PteType]
           /\ tb[at][k] = Pte(page, {"V", "U"})
           /\ \A t \in DOMAIN ts, j \in Idx : (t # at \/ j # k) => tb[t][j] = ts[t][j]
<1>1. \A t \in DOMAIN ts : ts[t] \in [Idx -> PteType]
  BY Zenon DEF Graph
<1>2. /\ DOMAIN tb = DOMAIN ts /\ tb[at] = [ts[at] EXCEPT ![k] = Pte(page, {"V", "U"})]
      /\ \A t \in DOMAIN ts : t # at => tb[t] = ts[t]
  BY Zenon DEF SetLeaf
<1>3. Pte(page, {"V", "U"}) \in PteType
  <2>1. page \in 0..BOOT_PDPT
    BY GraphTyped, Sizes
  <2>. QED
    BY <2>1, Zenon DEF Pte, PteType
<1>. QED
  BY <1>1, <1>2, <1>3

LEMMA SetLeafGraph ==
    ASSUME NEW ts, NEW rt, NEW n, NEW pos, Graph(ts, rt, n, pos),
           NEW at \in DOMAIN ts, NEW k \in Idx, pos[at].level = 1, ts[at][k] = NotPresent,
           NEW page \in ((n + 1)..MaxPages) \ DOMAIN ts,
           NEW tb, tb = SetLeaf(ts, at, k, page)
    PROVE  Graph(tb, rt, n, pos)
<1>1. /\ DOMAIN tb = DOMAIN ts /\ \A t \in DOMAIN tb : tb[t] \in [Idx -> PteType]
      /\ tb[at][k] = Pte(page, {"V", "U"})
      /\ \A t \in DOMAIN ts, j \in Idx : (t # at \/ j # k) => tb[t][j] = ts[t][j]
  BY SetLeafTables
<1>2. ASSUME NEW t \in DOMAIN ts, NEW j \in Idx
      PROVE  EntryOK(tb, n, pos, t, j)
  <2>1. EntryOK(ts, n, pos, t, j)
    BY Zenon DEF Graph
  <2>2. CASE t = at /\ j = k
    <3>1. pos[t] # KernelPos
      BY <2>2, PlacesTyped
    <3>2. ~ToKernel(pos[t], j) /\ ~DirectMap(pos[t], j)
      BY <2>2, <3>1 DEF ToKernel, DirectMap
    <3>3. tb[t][j].page = page /\ tb[t][j].flags = {"V", "U"} /\ page \notin DOMAIN tb
      BY <1>1, <2>2 DEF Pte
    <3>. QED
      BY <1>1, <2>2, <3>2, <3>3, Zenon DEF EntryOK
  <2>3. CASE t # at \/ j # k
    BY <1>1, <2>1, <2>3, Zenon DEF EntryOK
  <2>. QED
    BY <2>2, <2>3, Zenon
<1>3. ASSUME NEW t \in DOMAIN ts
      PROVE  Linked(tb, pos, t)
  <2>1. CASE pos[t].level = 4 \/ t = BOOT_PDPT
    BY <2>1, Zenon DEF Linked
  <2>2. CASE pos[t].level # 4 /\ t # BOOT_PDPT
    <3>1. PICK p \in DOMAIN ts, j \in Idx :
              /\ pos[p].level > 1 /\ ~ToKernel(pos[p], j) /\ ~DirectMap(pos[p], j)
              /\ ts[p][j] = Pte(t, TableFlags)
      BY <2>2, Parent
    <3>2. p # at
      BY <3>1
    <3>. QED
      BY <1>1, <3>1, <3>2 DEF Linked
  <2>. QED
    BY <2>1, <2>2, Zenon
<1>4. /\ n \in 0..MaxPages
      /\ DOMAIN ts \subseteq ((n + 1)..MaxPages) \cup {BOOT_PDPT} /\ BOOT_PDPT \in DOMAIN ts
      /\ pos \in [DOMAIN ts -> Positions] /\ pos[BOOT_PDPT] = KernelPos
      /\ \A t, v \in DOMAIN ts : pos[t] = pos[v] => t = v
      /\ rt \in [Spaces -> 0..MaxPages]
      /\ \A s \in Spaces : rt[s] # None => rt[s] \in DOMAIN ts /\ pos[rt[s]] = RootPos(s)
      /\ \A t \in DOMAIN ts : pos[t].level = 4 => \E s \in Spaces : rt[s] = t
  BY Zenon DEF Graph
<1>. QED
  BY <1>1, <1>2, <1>3, <1>4, Zenon DEF Graph

\* The page of an area is taken from the allocator.
LEMMA TakePage ==
    ASSUME NEW ts, NEW rt, NEW n, NEW pos, Graph(ts, rt, n, pos), n # 0
    PROVE  Graph(ts, rt, n - 1, pos)
<1>1. n \in Nat /\ n <= MaxPages /\ MaxPages \in Nat
  BY GraphTyped, Zenon
<1>2. n - 1 \in 0..MaxPages /\ (n + 1)..MaxPages \subseteq ((n - 1) + 1)..MaxPages
  BY <1>1
<1>3. ASSUME NEW t \in DOMAIN ts, NEW k \in Idx
      PROVE  EntryOK(ts, n - 1, pos, t, k)
  <2>1. EntryOK(ts, n, pos, t, k)
    BY Zenon DEF Graph
  <2>2. ts[t][k].page \in ((n + 1)..MaxPages) \ DOMAIN ts =>
            ts[t][k].page \in (((n - 1) + 1)..MaxPages) \ DOMAIN ts
    BY <1>2, Zenon
  <2>. QED
    BY <2>1, <2>2, Zenon DEF EntryOK
<1>4. /\ DOMAIN ts \subseteq ((n + 1)..MaxPages) \cup {BOOT_PDPT} /\ BOOT_PDPT \in DOMAIN ts
      /\ \A t \in DOMAIN ts : ts[t] \in [Idx -> PteType]
      /\ pos \in [DOMAIN ts -> Positions] /\ pos[BOOT_PDPT] = KernelPos
      /\ \A t, v \in DOMAIN ts : pos[t] = pos[v] => t = v
      /\ rt \in [Spaces -> 0..MaxPages]
      /\ \A s \in Spaces : rt[s] # None => rt[s] \in DOMAIN ts /\ pos[rt[s]] = RootPos(s)
      /\ \A t \in DOMAIN ts : pos[t].level = 4 => \E s \in Spaces : rt[s] = t
      /\ \A t \in DOMAIN ts : Linked(ts, pos, t)
  BY Zenon DEF Graph
<1>5. DOMAIN ts \subseteq (((n - 1) + 1)..MaxPages) \cup {BOOT_PDPT}
  BY <1>2, <1>4, Zenon
<1>. QED
  BY <1>2, <1>3, <1>4, <1>5, Zenon DEF Graph

\* VmSpace::new: the top table of a space that has none.
RootTable == [EmptyTable EXCEPT ![KernelSlot] = Pte(BOOT_PDPT, {"V"})]

AddRoot(ts, n) == [t \in DOMAIN ts \cup {n} |-> IF t = n THEN RootTable ELSE ts[t]]

LEMMA RootTyped ==
    /\ RootTable \in [Idx -> PteType] /\ RootTable[KernelSlot] = Pte(BOOT_PDPT, {"V"})
    /\ \A k \in Idx : k # KernelSlot => RootTable[k] = NotPresent
<1>1. Pte(BOOT_PDPT, {"V"}) \in PteType
  BY Sizes DEF Pte, PteType
<1>. QED
  BY <1>1, EmptyTyped, Sizes, Zenon DEF RootTable

LEMMA AddRootGraph ==
    ASSUME NEW ts, NEW rt, NEW n, NEW pos, Graph(ts, rt, n, pos), n # 0,
           NEW s \in Spaces, rt[s] = None,
           NEW tb, tb = AddRoot(ts, n), NEW rb, rb = [rt EXCEPT ![s] = n],
           NEW pb, pb = AddPos(ts, pos, n, RootPos(s))
    PROVE  Graph(tb, rb, n - 1, pb)
<1>1. /\ n \in Nat /\ n <= MaxPages /\ MaxPages \in Nat
      /\ n \notin DOMAIN ts /\ None \notin DOMAIN ts
      /\ \A t \in DOMAIN ts : pos[t] \in Positions /\ pos[t].level \in 1..4
  BY GraphTyped, Zenon
<1>2. RootPos(s) \in Positions /\ RootPos(s).level = 4 /\ KernelPos.level = 3
  BY PlacesTyped, Zenon
<1>3. /\ DOMAIN tb = DOMAIN ts \cup {n} /\ tb[n] = RootTable
      /\ \A t \in DOMAIN ts : t # n /\ tb[t] = ts[t]
  BY <1>1, Zenon DEF AddRoot
<1>4. /\ pb \in [DOMAIN tb -> Positions] /\ pb[n] = RootPos(s)
      /\ \A t \in DOMAIN ts : pb[t] = pos[t]
  BY <1>1, <1>2, <1>3, Zenon DEF AddPos
<1>5. \A t \in DOMAIN tb : tb[t] \in [Idx -> PteType]
  BY <1>3, RootTyped, Zenon DEF Graph
<1>6. n - 1 \in 0..MaxPages /\ (n - 1) + 1 = n
  BY <1>1
<1>7. /\ DOMAIN tb \subseteq (((n - 1) + 1)..MaxPages) \cup {BOOT_PDPT} /\ BOOT_PDPT \in DOMAIN tb
  <2>1. DOMAIN ts \subseteq ((n + 1)..MaxPages) \cup {BOOT_PDPT} /\ BOOT_PDPT \in DOMAIN ts
    BY Zenon DEF Graph
  <2>2. (n + 1)..MaxPages \subseteq n..MaxPages /\ n \in n..MaxPages
    BY <1>1
  <2>. QED
    BY <1>3, <1>6, <2>1, <2>2, Zenon
<1>8. pb[BOOT_PDPT] = KernelPos
  BY <1>4, Zenon DEF Graph
<1>9. ASSUME NEW t \in DOMAIN ts
      PROVE  pos[t] # RootPos(s)
  <2>1. SUFFICES ASSUME pos[t] = RootPos(s) PROVE FALSE
    BY Zenon
  <2>2. PICK v \in Spaces : rt[v] = t
    BY <1>2, <2>1, Zenon DEF Graph
  <2>3. RootPos(v) = RootPos(s)
    BY <1>1, <2>1, <2>2, Zenon DEF Graph
  <2>. QED
    BY <1>1, <2>2, <2>3, PlacesTyped, Zenon
<1>10. \A t, v \in DOMAIN tb : pb[t] = pb[v] => t = v
  <2>1. \A t, v \in DOMAIN ts : pos[t] = pos[v] => t = v
    BY Zenon DEF Graph
  <2>. QED
    BY <1>3, <1>4, <1>9, <2>1
<1>11. /\ rb \in [Spaces -> 0..MaxPages] /\ rb[s] = n /\ \A v \in Spaces : v # s => rb[v] = rt[v]
  BY <1>1 DEF Graph
<1>12. \A v \in Spaces : rb[v] # None => rb[v] \in DOMAIN tb /\ pb[rb[v]] = RootPos(v)
  BY <1>3, <1>4, <1>11 DEF Graph
<1>13. ASSUME NEW t \in DOMAIN tb, pb[t].level = 4
       PROVE  \E v \in Spaces : rb[v] = t
  <2>1. CASE t = n
    BY <1>11, <2>1, Zenon
  <2>2. CASE t \in DOMAIN ts
    <3>1. PICK v \in Spaces : rt[v] = t
      BY <1>4, <1>13, <2>2, Zenon DEF Graph
    <3>. QED
      BY <1>1, <1>11, <2>2, <3>1, Zenon
  <2>. QED
    BY <1>3, <2>1, <2>2, Zenon
<1>14. ASSUME NEW t \in DOMAIN tb, NEW j \in Idx
       PROVE  EntryOK(tb, n - 1, pb, t, j)
  <2>1. CASE t = n
    <3>1. ~DirectMap(pb[t], j) /\ tb[t][j] = RootTable[j]
      BY <1>2, <1>3, <1>4, <2>1 DEF DirectMap
    <3>2. IF ToKernel(pb[t], j) THEN tb[t][j] = Pte(BOOT_PDPT, {"V"}) ELSE tb[t][j] = NotPresent
      BY <1>2, <1>4, <2>1, <3>1, RootTyped, Zenon DEF ToKernel
    <3>. QED
      BY <3>1, <3>2, Zenon DEF EntryOK
  <2>2. CASE t \in DOMAIN ts
    <3>1. EntryOK(ts, n, pos, t, j)
      BY <2>2, Zenon DEF Graph
    <3>2. tb[t][j] = ts[t][j] /\ pb[t] = pos[t]
      BY <1>3, <1>4, <2>2, Zenon
    <3>3. ts[t][j].page \in DOMAIN ts =>
              ts[t][j].page \in DOMAIN tb /\ pb[ts[t][j].page] = pos[ts[t][j].page]
      BY <1>3, <1>4, Zenon
    <3>4. ts[t][j].page \in ((n + 1)..MaxPages) \ DOMAIN ts =>
              ts[t][j].page \in (((n - 1) + 1)..MaxPages) \ DOMAIN tb
      BY <1>1, <1>3, <1>6
    <3>. QED
      BY <3>1, <3>2, <3>3, <3>4, Zenon DEF EntryOK
  <2>. QED
    BY <1>3, <2>1, <2>2, Zenon
<1>15. ASSUME NEW t \in DOMAIN tb
       PROVE  Linked(tb, pb, t)
  <2>1. CASE t = n
    BY <1>2, <1>4, <2>1, Zenon DEF Linked
  <2>2. CASE t \in DOMAIN ts
    <3>1. Linked(ts, pos, t)
      BY <2>2, Zenon DEF Graph
    <3>. QED
      BY <1>3, <1>4, <2>2, <3>1 DEF Linked
  <2>. QED
    BY <1>3, <2>1, <2>2, Zenon
<1>. QED
  BY <1>4, <1>5, <1>6, <1>7, <1>8, <1>10, <1>11, <1>12, <1>13, <1>14, <1>15, Zenon DEF Graph

-------------------------------------------------------------------------------
(* Translation                                                                *)

\* Translate with the tables ts and the top table root.
TranslateIn(ts, root, u) ==
    LET e4 == ts[root][pml4_index(u)]
        e3 == ts[e4.page][pdpt_index(u)]
        e2 == ts[e3.page][pdt_index(u)]
        e1 == ts[e2.page][pt_index(u)]
    IN  IF root # None /\ UserTable(e4) /\ UserTable(e3) /\ UserTable(e2) /\ UserTable(e1)
        THEN e1.page ELSE None

\* The table at the place that u leads to in space s has page x for u.
Maps(ts, pos, s, u, x) ==
    \E t \in DOMAIN ts : pos[t] = LeafPos(s, u) /\ ts[t][pt_index(u)].page = x

\* A table is found from the one above it, and leads to the one below.
LEMMA Above ==
    ASSUME NEW ts, NEW rt, NEW n, NEW pos, Graph(ts, rt, n, pos),
           NEW p \in Positions, p.level > 1, NEW k \in Idx, ~ToKernel(p, k),
           NEW t \in DOMAIN ts, pos[t] = Child(p, k)
    PROVE  \E v \in DOMAIN ts : pos[v] = p /\ ts[v][k] = Pte(t, TableFlags)
<1>1. p.level \in 1..4
  BY Zenon DEF Positions
<1>2. pos[t].level = p.level - 1 /\ pos[t] # KernelPos
  BY ChildPlace, ChildNotKernel, Zenon
<1>3. pos[t].level # 4 /\ t # BOOT_PDPT
  BY <1>1, <1>2 DEF Graph
<1>4. PICK v \in DOMAIN ts, j \in Idx :
          pos[v].level > 1 /\ ts[v][j] = Pte(t, TableFlags) /\ pos[t] = Child(pos[v], j)
  BY <1>3, Parent
<1>5. pos[v] \in Positions
  BY GraphTyped, Zenon
<1>6. pos[v] = p /\ j = k
  <2>1. Child(pos[v], j) = Child(p, k)
    BY <1>4, Zenon
  <2>. QED
    BY <1>4, <1>5, <2>1, ChildUnique, Zenon
<1>. QED
  BY <1>4, <1>6, Zenon

LEMMA Below ==
    ASSUME NEW ts, NEW rt, NEW n, NEW pos, Graph(ts, rt, n, pos),
           NEW v \in DOMAIN ts, NEW k \in Idx, pos[v].level > 1, UserTable(ts[v][k])
    PROVE  ts[v][k].page \in DOMAIN ts /\ pos[ts[v][k].page] = Child(pos[v], k)
<1>1. EntryOK(ts, n, pos, v, k)
  BY Zenon DEF Graph
<1>2. "V" \in ts[v][k].flags /\ "U" \in ts[v][k].flags /\ "HUGE" \notin ts[v][k].flags
  BY Zenon DEF UserTable
<1>3. /\ Pte(BOOT_PDPT, {"V"}).flags = {"V"} /\ Pte(None, {"V", "HUGE"}).flags = {"V", "HUGE"}
      /\ NotPresent.flags = {} /\ "U" \notin {"V"} /\ "HUGE" \in {"V", "HUGE"} /\ "V" \notin {}
  BY Zenon DEF Pte, NotPresent
<1>4. ~ToKernel(pos[v], k) /\ ~DirectMap(pos[v], k) /\ ts[v][k] # NotPresent
  BY <1>1, <1>2, <1>3, Zenon DEF EntryOK
<1>5. pos[v].level # 1
  OBVIOUS
<1>. QED
  BY <1>1, <1>4, <1>5, Zenon DEF EntryOK

LEMMA RootFound ==
    ASSUME NEW ts, NEW rt, NEW n, NEW pos, Graph(ts, rt, n, pos), NEW s \in Spaces,
           NEW v \in DOMAIN ts, pos[v] = RootPos(s)
    PROVE  v = rt[s] /\ rt[s] # None
<1>1. PICK z \in Spaces : rt[z] = v
  BY PlacesTyped DEF Graph
<1>2. None \notin DOMAIN ts
  BY GraphTyped, Zenon
<1>3. pos[v] = RootPos(z)
  BY <1>1, <1>2, Zenon DEF Graph
<1>. QED
  BY <1>1, <1>2, <1>3, PlacesTyped, Zenon

LEMMA UserEntries ==
    /\ \A t : UserTable(Pte(t, TableFlags)) /\ Pte(t, TableFlags).page = t
    /\ \A e : e.flags = {"V", "U"} => UserTable(e)
    /\ \A e : UserTable(e) => e # NotPresent
BY DEF UserTable, Pte, TableFlags, NotPresent

\* The places on the way to a user page.
LEMMA UserPath ==
    ASSUME NEW s \in Spaces, NEW u \in UserPages
    PROVE  \E p4, p3, p2 \in Positions :
               /\ p4 = RootPos(s) /\ p4.level = 4 /\ p3 = Child(p4, pml4_index(u)) /\ p3.level = 3
               /\ p2 = Child(p3, pdpt_index(u)) /\ p2.level = 2
               /\ LeafPos(s, u) = Child(p2, pdt_index(u)) /\ LeafPos(s, u).level = 1
               /\ ~ToKernel(p4, pml4_index(u)) /\ ~ToKernel(p3, pdpt_index(u))
               /\ ~ToKernel(p2, pdt_index(u))
<1>1. /\ pt_index(u) \in Idx /\ pdt_index(u) \in Idx /\ pdpt_index(u) \in Idx
      /\ pml4_index(u) \in Idx /\ pml4_index(u) # KernelSlot
  BY UserIndices, Zenon
<1>2. PICK p4 \in Positions : p4 = RootPos(s) /\ p4.level = 4
  BY PlacesTyped, Zenon
<1>3. PICK p3 \in Positions : p3 = Child(p4, pml4_index(u)) /\ p3.level = 3
  BY <1>1, <1>2, ChildPlace
<1>4. PICK p2 \in Positions : p2 = Child(p3, pdpt_index(u)) /\ p2.level = 2
  BY <1>1, <1>3, ChildPlace
<1>5. p3 = Pos(3, s, pml4_index(u), 0, 0)
  <2>1. p4.space = s /\ p4.i3 = 0 /\ p4.i2 = 0
    BY <1>2, Zenon DEF RootPos, Pos
  <2>2. 4 - 1 = 3 /\ 4 # 3 /\ 4 # 2
    OBVIOUS
  <2>. QED
    BY <1>2, <1>3, <2>1, <2>2, Zenon DEF Child, Pos
<1>6. p2 = Pos(2, s, pml4_index(u), pdpt_index(u), 0)
  <2>1. p3.space = s /\ p3.i4 = pml4_index(u) /\ p3.i2 = 0
    BY <1>5, Zenon DEF Pos
  <2>2. 3 - 1 = 2 /\ 3 # 4 /\ 3 # 2
    OBVIOUS
  <2>. QED
    BY <1>3, <1>4, <2>1, <2>2, Zenon DEF Child, Pos
<1>7. LeafPos(s, u) = Child(p2, pdt_index(u)) /\ LeafPos(s, u).level = 1
  BY <1>6, PosFields DEF Child, LeafPos
<1>8. /\ ~ToKernel(p4, pml4_index(u)) /\ ~ToKernel(p3, pdpt_index(u))
      /\ ~ToKernel(p2, pdt_index(u))
  BY <1>1, <1>3, <1>4 DEF ToKernel
<1>. QED
  BY <1>2, <1>3, <1>4, <1>7, <1>8, Zenon

\* What the MMU finds is what the table at the right place has.
LEMMA TranslateMaps ==
    ASSUME NEW ts, NEW rt, NEW n, NEW pos, Graph(ts, rt, n, pos), NEW s \in Spaces,
           NEW u \in UserPages, NEW x, x # None
    PROVE  TranslateIn(ts, rt[s], u) = x <=> Maps(ts, pos, s, u, x)
<1>1. PICK p4, p3, p2 \in Positions :
          /\ p4 = RootPos(s) /\ p4.level = 4 /\ p3 = Child(p4, pml4_index(u)) /\ p3.level = 3
          /\ p2 = Child(p3, pdpt_index(u)) /\ p2.level = 2
          /\ LeafPos(s, u) = Child(p2, pdt_index(u)) /\ LeafPos(s, u).level = 1
          /\ ~ToKernel(p4, pml4_index(u)) /\ ~ToKernel(p3, pdpt_index(u))
          /\ ~ToKernel(p2, pdt_index(u))
  BY UserPath, Zenon
<1>2. /\ pt_index(u) \in Idx /\ pdt_index(u) \in Idx /\ pdpt_index(u) \in Idx
      /\ pml4_index(u) \in Idx
  BY UserIndices, Zenon
<1>3. ASSUME Maps(ts, pos, s, u, x)
      PROVE  TranslateIn(ts, rt[s], u) = x
  <2>1. PICK t \in DOMAIN ts : pos[t] = LeafPos(s, u) /\ ts[t][pt_index(u)].page = x
    BY <1>3, Zenon DEF Maps
  <2>2. PICK v2 \in DOMAIN ts : pos[v2] = p2 /\ ts[v2][pdt_index(u)] = Pte(t, TableFlags)
    <3>1. p2.level > 1 /\ pos[t] = Child(p2, pdt_index(u))
      BY <1>1, <2>1
    <3>. QED
      BY <1>1, <1>2, <3>1, Above
  <2>3. PICK v3 \in DOMAIN ts : pos[v3] = p3 /\ ts[v3][pdpt_index(u)] = Pte(v2, TableFlags)
    <3>1. p3.level > 1 /\ pos[v2] = Child(p3, pdpt_index(u))
      BY <1>1, <2>2
    <3>. QED
      BY <1>1, <1>2, <3>1, Above
  <2>4. PICK v4 \in DOMAIN ts : pos[v4] = p4 /\ ts[v4][pml4_index(u)] = Pte(v3, TableFlags)
    <3>1. p4.level > 1 /\ pos[v3] = Child(p4, pml4_index(u))
      BY <1>1, <2>3
    <3>. QED
      BY <1>1, <1>2, <3>1, Above
  <2>5. v4 = rt[s] /\ rt[s] # None
    BY <1>1, <2>4, RootFound
  <2>6. UserTable(ts[t][pt_index(u)])
    <3>1. EntryOK(ts, n, pos, t, pt_index(u))
      BY <1>2, Zenon DEF Graph
    <3>2. pos[t].level = 1 /\ pos[t] # KernelPos
      BY <1>1, <2>1, PlacesTyped
    <3>3. ~ToKernel(pos[t], pt_index(u)) /\ ~DirectMap(pos[t], pt_index(u)) /\ ~(pos[t].level > 1)
      BY <3>2 DEF ToKernel, DirectMap
    <3>4. ts[t][pt_index(u)] # NotPresent
      BY <2>1, EmptyTyped, Zenon
    <3>5. ts[t][pt_index(u)].flags = {"V", "U"}
      BY <3>1, <3>3, <3>4, Zenon DEF EntryOK
    <3>. QED
      BY <3>5, UserEntries, Zenon
  <2>7. /\ UserTable(ts[rt[s]][pml4_index(u)]) /\ ts[rt[s]][pml4_index(u)].page = v3
        /\ UserTable(ts[v3][pdpt_index(u)]) /\ ts[v3][pdpt_index(u)].page = v2
        /\ UserTable(ts[v2][pdt_index(u)]) /\ ts[v2][pdt_index(u)].page = t
    BY <2>2, <2>3, <2>4, <2>5, UserEntries, Zenon
  <2>. QED
    BY <2>1, <2>5, <2>6, <2>7, Zenon DEF TranslateIn
<1>4. ASSUME TranslateIn(ts, rt[s], u) = x
      PROVE  Maps(ts, pos, s, u, x)
  <2>1. PICK v3 : v3 = ts[rt[s]][pml4_index(u)].page
    BY Zenon
  <2>2. PICK v2 : v2 = ts[v3][pdpt_index(u)].page
    BY Zenon
  <2>3. PICK t : t = ts[v2][pdt_index(u)].page
    BY Zenon
  <2>4. /\ rt[s] # None /\ UserTable(ts[rt[s]][pml4_index(u)])
        /\ UserTable(ts[v3][pdpt_index(u)]) /\ UserTable(ts[v2][pdt_index(u)])
        /\ ts[t][pt_index(u)].page = x
    BY <1>4, <2>1, <2>2, <2>3, Zenon DEF TranslateIn
  <2>5. PICK v4 \in DOMAIN ts : v4 = rt[s] /\ pos[v4] = p4
    BY <1>1, <2>4, Zenon DEF Graph
  <2>6. p4.level > 1 /\ p3.level > 1 /\ p2.level > 1
    BY <1>1
  <2>7. v3 \in DOMAIN ts /\ pos[v3] = p3
    <3>1. UserTable(ts[v4][pml4_index(u)]) /\ v3 = ts[v4][pml4_index(u)].page /\ pos[v4].level > 1
      BY <2>1, <2>4, <2>5, <2>6, Zenon
    <3>2. v3 \in DOMAIN ts /\ pos[v3] = Child(pos[v4], pml4_index(u))
      BY <1>2, <3>1, Below
    <3>. QED
      BY <1>1, <2>5, <3>2, Zenon
  <2>8. v2 \in DOMAIN ts /\ pos[v2] = p2
    <3>1. UserTable(ts[v3][pdpt_index(u)]) /\ v2 = ts[v3][pdpt_index(u)].page /\ pos[v3].level > 1
      BY <2>2, <2>4, <2>6, <2>7, Zenon
    <3>2. v2 \in DOMAIN ts /\ pos[v2] = Child(pos[v3], pdpt_index(u))
      BY <1>2, <2>7, <3>1, Below
    <3>. QED
      BY <1>1, <2>7, <3>2, Zenon
  <2>9. t \in DOMAIN ts /\ pos[t] = LeafPos(s, u)
    <3>1. UserTable(ts[v2][pdt_index(u)]) /\ t = ts[v2][pdt_index(u)].page /\ pos[v2].level > 1
      BY <2>3, <2>4, <2>6, <2>8, Zenon
    <3>2. t \in DOMAIN ts /\ pos[t] = Child(pos[v2], pdt_index(u))
      BY <1>2, <2>8, <3>1, Below
    <3>. QED
      BY <1>1, <2>8, <3>2, Zenon
  <2>. QED
    BY <2>4, <2>9, Zenon DEF Maps
<1>. QED
  BY <1>3, <1>4, Zenon

\* No two user pages of all spaces are in the same entry.
LEMMA LeafUnique ==
    ASSUME NEW s \in Spaces, NEW r \in Spaces, NEW u \in UserPages, NEW v \in UserPages,
           LeafPos(s, u) = LeafPos(r, v), pt_index(u) = pt_index(v)
    PROVE  s = r /\ u = v
<1>1. \A z \in Spaces, w \in UserPages :
          /\ LeafPos(z, w).space = z /\ LeafPos(z, w).i4 = pml4_index(w)
          /\ LeafPos(z, w).i3 = pdpt_index(w) /\ LeafPos(z, w).i2 = pdt_index(w)
  BY Zenon DEF LeafPos, Pos
<1>2. /\ s = r /\ pml4_index(u) = pml4_index(v) /\ pdpt_index(u) = pdpt_index(v)
      /\ pdt_index(u) = pdt_index(v)
  BY <1>1
<1>. QED
  BY <1>2, IndicesUnique, Zenon

\* Nothing user-visible changes.
SameMaps(ts, pos, tb, pb) ==
    \A s \in Spaces, u \in UserPages : \A x :
        x # None => (Maps(tb, pb, s, u, x) <=> Maps(ts, pos, s, u, x))

LEMMA AddTableMaps ==
    ASSUME NEW ts, NEW rt, NEW n, NEW pos, Graph(ts, rt, n, pos),
           NEW at \in DOMAIN ts, NEW k \in Idx, pos[at].level > 1,
           NEW tb, tb = AddTable(ts, at, k, n),
           NEW p, NEW pb, pb = AddPos(ts, pos, n, p)
    PROVE  SameMaps(ts, pos, tb, pb)
<1>. SUFFICES ASSUME NEW s \in Spaces, NEW u \in UserPages, NEW x, x # None
              PROVE  Maps(tb, pb, s, u, x) <=> Maps(ts, pos, s, u, x)
  BY Zenon DEF SameMaps
<1>1. n \notin DOMAIN ts
  BY GraphTyped
<1>2. /\ DOMAIN tb = DOMAIN ts \cup {n} /\ tb[n] = EmptyTable
      /\ \A t \in DOMAIN ts : t # at => tb[t] = ts[t]
  BY <1>1, Zenon DEF AddTable
<1>3. \A t \in DOMAIN ts : pb[t] = pos[t]
  BY <1>1, Zenon DEF AddPos
<1>4. tb[n][pt_index(u)].page = None
  BY <1>2, EmptyTyped, UserIndices, Zenon
<1>5. pos[at] # LeafPos(s, u)
  BY PosFields DEF LeafPos
<1>. QED
  BY <1>2, <1>3, <1>4, <1>5, Zenon DEF Maps

LEMMA SetLeafMaps ==
    ASSUME NEW ts, NEW rt, NEW n, NEW pos, Graph(ts, rt, n, pos),
           NEW r \in Spaces, NEW v \in UserPages,
           NEW at \in DOMAIN ts, pos[at] = LeafPos(r, v),
           NEW page \in ((n + 1)..MaxPages) \ DOMAIN ts,
           NEW tb, tb = SetLeaf(ts, at, pt_index(v), page),
           NEW s \in Spaces, NEW u \in UserPages, NEW x
    PROVE  Maps(tb, pos, s, u, x) <=>
               IF s = r /\ u = v THEN x = page ELSE Maps(ts, pos, s, u, x)
<1>1. pt_index(v) \in Idx /\ pt_index(u) \in Idx
  BY UserIndices, Zenon
<1>2. /\ DOMAIN tb = DOMAIN ts
      /\ tb[at][pt_index(v)] = Pte(page, {"V", "U"})
      /\ \A t \in DOMAIN ts, j \in Idx : (t # at \/ j # pt_index(v)) => tb[t][j] = ts[t][j]
  BY <1>1, SetLeafTables
<1>3. tb[at][pt_index(v)].page = page
  BY <1>2 DEF Pte
<1>4. \A t \in DOMAIN ts : pos[t] = LeafPos(r, v) => t = at
  BY Zenon DEF Graph
<1>5. CASE s = r /\ u = v
  BY <1>2, <1>3, <1>4, <1>5, Zenon DEF Maps
<1>6. CASE ~(s = r /\ u = v)
  <2>1. ASSUME NEW t \in DOMAIN ts, pos[t] = LeafPos(s, u)
        PROVE  tb[t][pt_index(u)] = ts[t][pt_index(u)]
    <3>1. t # at \/ pt_index(u) # pt_index(v)
      BY <1>6, <2>1, LeafUnique, Zenon
    <3>. QED
      BY <1>1, <1>2, <3>1, Zenon
  <2>. QED
    BY <1>2, <1>6, <2>1, Zenon DEF Maps
<1>. QED
  BY <1>5, <1>6, Zenon

-------------------------------------------------------------------------------
(* arch::VmSpace::map                                                         *)

\* The tables tb come from ts by steps that keep the tree and what it maps; they may have
\* taken some of the n pages left.
Grown(ts, pos, n, rt, tb, pb, m) ==
    /\ Graph(tb, rt, m, pb) /\ m \in 0..n
    /\ DOMAIN tb \subseteq (DOMAIN ts \cup (1..n))
    /\ SameMaps(ts, pos, tb, pb)

LEMMA GrownStays ==
    ASSUME NEW ts, NEW rt, NEW n, NEW pos, Graph(ts, rt, n, pos)
    PROVE  Grown(ts, pos, n, rt, ts, pos, n)
<1>1. n \in 0..n
  BY GraphTyped
<1>. QED
  BY <1>1, Zenon DEF Grown, SameMaps

LEMMA GrownTwice ==
    ASSUME NEW ts, NEW pos, NEW n \in Nat, NEW rt, NEW tb, NEW pb, NEW m,
           Grown(ts, pos, n, rt, tb, pb, m),
           NEW tc, NEW pc, NEW l, Grown(tb, pb, m, rt, tc, pc, l)
    PROVE  Grown(ts, pos, n, rt, tc, pc, l)
<1>1. m \in 0..n /\ l \in 0..m
  BY Zenon DEF Grown
<1>2. l \in 0..n /\ 1..m \subseteq 1..n
  BY <1>1
<1>3. DOMAIN tc \subseteq (DOMAIN ts \cup (1..n))
  BY <1>2, Zenon DEF Grown
<1>4. SameMaps(ts, pos, tc, pc)
  BY Zenon DEF Grown, SameMaps
<1>. QED
  BY <1>2, <1>3, <1>4, Zenon DEF Grown

\* Where entry k leads.
Step(p, k) == IF ToKernel(p, k) THEN KernelPos ELSE Child(p, k)

\* The outcome of a walk from ts that should have come to place p.
WalkDone(ts, pos, n, rt, w, p) ==
    \E tb, m, v, e, pb :
        /\ w = Walk(tb, m, v, e) /\ Grown(ts, pos, n, rt, tb, pb, m)
        /\ e = "Ok" => v \in DOMAIN tb /\ pb[v] = p

LEMMA WalkFields ==
    ASSUME NEW ts, NEW n, NEW v, NEW e, NEW w, w = Walk(ts, n, v, e)
    PROVE  /\ w.tables = ts /\ w.left = n /\ w.at = v /\ w.error = e
BY Zenon DEF Walk

LEMMA EnsureNext ==
    ASSUME NEW ts, NEW rt, NEW n, NEW pos, Graph(ts, rt, n, pos),
           NEW at \in DOMAIN ts, pos[at].level > 1, NEW k \in Idx,
           NEW w, w = Walk(ts, n, at, "Ok")
    PROVE  WalkDone(ts, pos, n, rt, ensure_next_table(w, k), Step(pos[at], k))
<1>1. w.tables = ts /\ w.left = n /\ w.at = at /\ w.error = "Ok"
  BY WalkFields
<1>2. PICK entry : entry = ts[at][k]
  BY Zenon
<1>3. PICK r : r = ensure_next_table(w, k)
  BY Zenon
<1>4. Grown(ts, pos, n, rt, ts, pos, n)
  BY GrownStays, Zenon
<1>5. EntryOK(ts, n, pos, at, k)
  BY Zenon DEF Graph
<1>6. CASE "V" \in entry.flags /\ "HUGE" \in entry.flags
  <2>1. r = Walk(ts, n, at, "UNSUPPORTED")
    <3>1. r = [w EXCEPT !.error = "UNSUPPORTED"]
      BY <1>1, <1>2, <1>3, <1>6, Zenon DEF ensure_next_table
    <3>. QED
      BY <3>1 DEF Walk
  <2>2. "UNSUPPORTED" # "Ok"
    BY Zenon
  <2>. QED
    BY <1>3, <1>4, <2>1, <2>2 DEF WalkDone
<1>7. CASE "V" \in entry.flags /\ "HUGE" \notin entry.flags
  <2>1. r = Walk(ts, n, entry.page, "Ok")
    <3>1. r = [w EXCEPT !.at = entry.page]
      BY <1>1, <1>2, <1>3, <1>7, Zenon DEF ensure_next_table
    <3>. QED
      BY <3>1, Zenon DEF Walk
  <2>2. entry.page \in DOMAIN ts /\ pos[entry.page] = Step(pos[at], k)
    <3>1. CASE ToKernel(pos[at], k)
      <4>1. entry.page = BOOT_PDPT
        BY <1>2, <1>5, <3>1 DEF EntryOK, Pte
      <4>. QED
        BY <3>1, <4>1, Zenon DEF Graph, Step
    <3>2. CASE ~ToKernel(pos[at], k)
      <4>1. Pte(None, {"V", "HUGE"}).flags = {"V", "HUGE"} /\ "HUGE" \in {"V", "HUGE"}
        BY Zenon DEF Pte
      <4>2. ~DirectMap(pos[at], k)
        BY <1>2, <1>5, <1>7, <4>1, Zenon DEF EntryOK
      <4>3. entry # NotPresent /\ pos[at].level # 1
        BY <1>7, EmptyTyped
      <4>4. entry.page \in DOMAIN ts /\ pos[entry.page] = Child(pos[at], k)
        BY <1>2, <1>5, <3>2, <4>2, <4>3, Zenon DEF EntryOK
      <4>. QED
        BY <3>2, <4>4, Zenon DEF Step
    <3>. QED
      BY <3>1, <3>2, Zenon
  <2>. QED
    BY <1>3, <1>4, <2>1, <2>2, Zenon DEF WalkDone
<1>8. CASE "V" \notin entry.flags /\ n = 0
  <2>1. r = Walk(ts, n, at, "OUT_OF_MEMORY")
    <3>1. r = [w EXCEPT !.error = "OUT_OF_MEMORY"]
      BY <1>1, <1>2, <1>3, <1>8, Zenon DEF ensure_next_table
    <3>. QED
      BY <3>1 DEF Walk
  <2>2. "OUT_OF_MEMORY" # "Ok"
    BY Zenon
  <2>. QED
    BY <1>3, <1>4, <2>1, <2>2 DEF WalkDone
<1>9. CASE "V" \notin entry.flags /\ n # 0
  <2>1. PICK tb : tb = AddTable(ts, at, k, n)
    BY Zenon
  <2>2. PICK pb : pb = AddPos(ts, pos, n, Child(pos[at], k))
    BY Zenon
  <2>3. r = Walk(tb, n - 1, n, "Ok")
    BY <1>1, <1>2, <1>3, <1>9, <2>1, Zenon DEF ensure_next_table, AddTable
  <2>4. ~ToKernel(pos[at], k) /\ ~DirectMap(pos[at], k) /\ ts[at][k] = NotPresent
    <3>1. /\ Pte(BOOT_PDPT, {"V"}).flags = {"V"} /\ "V" \in {"V"} /\ "V" \in TableFlags
          /\ Pte(None, {"V", "HUGE"}).flags = {"V", "HUGE"} /\ "V" \in {"V", "HUGE"}
          /\ "V" \in {"V", "U"}
      BY Zenon DEF Pte, TableFlags
    <3>. QED
      BY <1>2, <1>5, <1>9, <3>1, Zenon DEF EntryOK
  <2>5. Graph(tb, rt, n - 1, pb)
    BY <1>9, <2>1, <2>2, <2>4, AddTableGraph, Zenon
  <2>6. SameMaps(ts, pos, tb, pb)
    BY <2>1, <2>2, AddTableMaps, ZenonT(60)
  <2>7. n \in Nat /\ n - 1 \in 0..n /\ n \in 1..n
    BY <1>9, GraphTyped
  <2>8. DOMAIN tb = DOMAIN ts \cup {n} /\ n \in DOMAIN tb
    BY <2>1, Zenon DEF AddTable
  <2>9. pb[n] = Child(pos[at], k)
    BY <2>2, Zenon DEF AddPos
  <2>10. Grown(ts, pos, n, rt, tb, pb, n - 1)
    BY <2>5, <2>6, <2>7, <2>8, Zenon DEF Grown
  <2>11. pb[n] = Step(pos[at], k)
    BY <2>4, <2>9, Zenon DEF Step
  <2>. QED
    BY <1>3, <2>3, <2>8, <2>10, <2>11, Zenon DEF WalkDone
<1>. QED
  BY <1>6, <1>7, <1>8, <1>9, Zenon

\* A level further.
LEMMA EnsureAfter ==
    ASSUME NEW ts, NEW rt, NEW n \in Nat, NEW pos, NEW w, NEW p \in Positions, p.level > 1,
           NEW k \in Idx, WalkDone(ts, pos, n, rt, w, p)
    PROVE  WalkDone(ts, pos, n, rt, ensure_next_table(w, k), Step(p, k))
<1>1. PICK tb, m, v, e, pb :
          /\ w = Walk(tb, m, v, e) /\ Grown(ts, pos, n, rt, tb, pb, m)
          /\ e = "Ok" => v \in DOMAIN tb /\ pb[v] = p
  BY Zenon DEF WalkDone
<1>2. CASE e # "Ok"
  <2>1. ensure_next_table(w, k) = w
    BY <1>1, <1>2, WalkFields DEF ensure_next_table
  <2>. QED
    BY <1>1, <1>2, <2>1 DEF WalkDone
<1>3. CASE e = "Ok"
  <2>1. Graph(tb, rt, m, pb) /\ v \in DOMAIN tb /\ pb[v] = p /\ w = Walk(tb, m, v, "Ok")
    BY <1>1, <1>3, Zenon DEF Grown
  <2>2. WalkDone(tb, pb, m, rt, ensure_next_table(w, k), Step(p, k))
    BY <2>1, EnsureNext, Zenon
  <2>3. PICK tc, l, z, f, pc :
          /\ ensure_next_table(w, k) = Walk(tc, l, z, f) /\ Grown(tb, pb, m, rt, tc, pc, l)
          /\ f = "Ok" => z \in DOMAIN tc /\ pc[z] = Step(p, k)
    BY <2>2, Zenon DEF WalkDone
  <2>4. Grown(ts, pos, n, rt, tc, pc, l)
    BY <1>1, <2>3, GrownTwice, Zenon
  <2>. QED
    BY <2>3, <2>4, Zenon DEF WalkDone
<1>. QED
  BY <1>2, <1>3, Zenon

LEMMA StepPlace ==
    ASSUME NEW p \in Positions, p.level > 1, NEW k \in Idx
    PROVE  Step(p, k) \in Positions /\ Step(p, k).level = p.level - 1
<1>1. Child(p, k) \in Positions /\ Child(p, k).level = p.level - 1
  BY ChildPlace, Zenon
<1>2. ToKernel(p, k) => p.level - 1 = 3
  BY DEF ToKernel
<1>. QED
  BY <1>1, <1>2, PlacesTyped, Zenon DEF Step

\* What a call of ArchMap(s, u, page, n) comes to.  An error leaves what is mapped alone.
Mapped(n, pos, s, u, page, w) ==
    \E tb, m, v, e, pb :
        /\ w = Walk(tb, m, v, e)
        /\ Graph(tb, pml4, m, pb) /\ m \in 0..n
        /\ DOMAIN tb \subseteq (DOMAIN tables \cup (1..n))
        /\ e # "Ok" => SameMaps(tables, pos, tb, pb)
        /\ e = "Ok" => u < KernelBase
        /\ e = "Ok" /\ u \in UserPages =>
            /\ \A x : x # None => ~Maps(tables, pos, s, u, x)
            /\ \A z \in Spaces, o \in UserPages : \A x : x # None =>
                (Maps(tb, pb, z, o, x) <=>
                    IF z = s /\ o = u THEN x = page ELSE Maps(tables, pos, z, o, x))

LEMMA ArchMapped ==
    ASSUME NEW n, NEW pos, Graph(tables, pml4, n, pos), NEW s \in Spaces, pml4[s] # None,
           NEW u \in Nat, NEW page \in ((n + 1)..MaxPages) \ DOMAIN tables,
           NEW w, w = ArchMap(s, u, page, n)
    PROVE  Mapped(n, pos, s, u, page, w)
<1>1. n \in Nat /\ n <= MaxPages /\ MaxPages \in Nat
  BY GraphTyped, Zenon
<1>2. Grown(tables, pos, n, pml4, tables, pos, n)
  BY GrownStays, Zenon
<1>3. CASE u >= KernelBase
  <2>1. w = Walk(tables, n, pml4[s], "NOT_ALLOWED")
    BY <1>3, Zenon DEF ArchMap
  <2>2. "NOT_ALLOWED" # "Ok"
    BY Zenon
  <2>. QED
    BY <1>2, <2>1, <2>2 DEF Mapped, Grown
<1>4. CASE ~(u >= KernelBase)
  <2>1. u < KernelBase
    BY <1>4, VmSpaceAssumption
  <2>2. PICK i4 \in Idx, i3 \in Idx, i2 \in Idx, i1 \in Idx :
            /\ i4 = pml4_index(u) /\ i3 = pdpt_index(u) /\ i2 = pdt_index(u) /\ i1 = pt_index(u)
    BY AnyIndices, Zenon
  <2>3. PICK w4 : w4 = Walk(tables, n, pml4[s], "Ok")
    BY Zenon
  <2>4. PICK w3 : w3 = ensure_next_table(w4, i4)
    BY Zenon
  <2>5. PICK w2 : w2 = ensure_next_table(w3, i3)
    BY Zenon
  <2>6. PICK w1 : w1 = ensure_next_table(w2, i2)
    BY Zenon
  <2>7. w = IF w1.error = "Ok" THEN SetEntry(w1, i1, page) ELSE w1
    BY <1>4, <2>2, <2>3, <2>4, <2>5, <2>6, Zenon DEF ArchMap
  <2>8. PICK p4 \in Positions : p4 = RootPos(s) /\ p4.level = 4
    BY PlacesTyped, Zenon
  <2>9. PICK p3 \in Positions : p3 = Step(p4, i4) /\ p3.level = 3
    BY <2>8, StepPlace
  <2>10. PICK p2 \in Positions : p2 = Step(p3, i3) /\ p2.level = 2
    BY <2>9, StepPlace
  <2>11. PICK p1 \in Positions : p1 = Step(p2, i2) /\ p1.level = 1
    BY <2>10, StepPlace
  <2>12. WalkDone(tables, pos, n, pml4, w4, p4)
    <3>1. pml4[s] \in DOMAIN tables /\ pos[pml4[s]] = p4
      BY <2>8, Zenon DEF Graph
    <3>. QED
      BY <1>2, <2>3, <3>1, Zenon DEF WalkDone
  <2>13. WalkDone(tables, pos, n, pml4, w3, p3)
    <3>1. p4.level > 1
      BY <2>8
    <3>. QED
      BY <1>1, <2>4, <2>9, <2>12, <3>1, EnsureAfter, Zenon
  <2>14. WalkDone(tables, pos, n, pml4, w2, p2)
    <3>1. p3.level > 1
      BY <2>9
    <3>. QED
      BY <1>1, <2>5, <2>10, <2>13, <3>1, EnsureAfter, Zenon
  <2>15. WalkDone(tables, pos, n, pml4, w1, p1)
    <3>1. p2.level > 1
      BY <2>10
    <3>. QED
      BY <1>1, <2>6, <2>11, <2>14, <3>1, EnsureAfter, Zenon
  <2>16. PICK tb, m, v, e, pb :
            /\ w1 = Walk(tb, m, v, e) /\ Grown(tables, pos, n, pml4, tb, pb, m)
            /\ e = "Ok" => v \in DOMAIN tb /\ pb[v] = p1
    BY <2>15, Zenon DEF WalkDone
  <2>17. w1.tables = tb /\ w1.at = v /\ w1.error = e
    BY <2>16, WalkFields
  <2>18. /\ Graph(tb, pml4, m, pb) /\ m \in 0..n
         /\ DOMAIN tb \subseteq (DOMAIN tables \cup (1..n)) /\ SameMaps(tables, pos, tb, pb)
    BY <2>16, Zenon DEF Grown
  <2>19. CASE e # "Ok"
    <3>1. w = Walk(tb, m, v, e)
      BY <2>7, <2>16, <2>17, <2>19, Zenon
    <3>. QED
      BY <2>18, <2>19, <3>1 DEF Mapped
  <2>20. CASE e = "Ok" /\ "V" \in tb[v][i1].flags
    <3>1. w = [w1 EXCEPT !.error = "ALREADY_EXISTS"]
      BY <2>7, <2>17, <2>20, Zenon DEF SetEntry
    <3>2. w = Walk(tb, m, v, "ALREADY_EXISTS") /\ "ALREADY_EXISTS" # "Ok"
      BY <2>16, <3>1, Zenon DEF Walk
    <3>. QED
      BY <2>18, <3>2 DEF Mapped
  <2>21. CASE e = "Ok" /\ "V" \notin tb[v][i1].flags
    <3>1. PICK tc : tc = SetLeaf(tb, v, i1, page)
      BY Zenon
    <3>2. w = [w1 EXCEPT !.tables[w1.at][i1] = Pte(page, {"V", "U"})]
      BY <2>7, <2>17, <2>21, Zenon DEF SetEntry
    <3>3. w = Walk(tc, m, v, "Ok")
      <4>1. w = [w1 EXCEPT !.tables = [w1.tables EXCEPT ![v][i1] = Pte(page, {"V", "U"})]]
        BY <2>17, <3>2, Zenon
      <4>2. w = [w1 EXCEPT !.tables = tc]
        BY <2>17, <3>1, <4>1, Zenon DEF SetLeaf
      <4>. QED
        BY <2>16, <2>21, <4>2, Zenon DEF Walk
    <3>4. v \in DOMAIN tb /\ pb[v] = p1 /\ pb[v].level = 1 /\ ~(pb[v].level > 1)
      BY <2>11, <2>16, <2>21
    <3>5. page \in ((m + 1)..MaxPages) \ DOMAIN tb
      BY <1>1, <2>18
    <3>6. tb[v][i1] = NotPresent
      <4>1. EntryOK(tb, m, pb, v, i1)
        BY <2>18, <3>4, Zenon DEF Graph
      <4>2. ~ToKernel(pb[v], i1) /\ ~DirectMap(pb[v], i1)
        BY <3>4, PlacesTyped DEF ToKernel, DirectMap
      <4>3. "V" \in {"V", "U"}
        BY Zenon
      <4>. QED
        BY <2>21, <3>4, <4>1, <4>2, <4>3, Zenon DEF EntryOK
    <3>7. Graph(tc, pml4, m, pb)
      BY <2>18, <3>1, <3>4, <3>5, <3>6, SetLeafGraph, Zenon
    <3>8. DOMAIN tc = DOMAIN tb
      BY <3>1, Zenon DEF SetLeaf
    <3>9. ASSUME u \in UserPages
          PROVE  /\ \A x : x # None => ~Maps(tables, pos, s, u, x)
                 /\ \A z \in Spaces, o \in UserPages : \A x : x # None =>
                     (Maps(tc, pb, z, o, x) <=>
                         IF z = s /\ o = u THEN x = page ELSE Maps(tables, pos, z, o, x))
      <4>1. pb[v] = LeafPos(s, u)
        <5>1. PICK q4, q3, q2 \in Positions :
                 /\ q4 = RootPos(s) /\ q4.level = 4 /\ q3 = Child(q4, pml4_index(u)) /\ q3.level = 3
                 /\ q2 = Child(q3, pdpt_index(u)) /\ q2.level = 2
                 /\ LeafPos(s, u) = Child(q2, pdt_index(u)) /\ LeafPos(s, u).level = 1
                 /\ ~ToKernel(q4, pml4_index(u)) /\ ~ToKernel(q3, pdpt_index(u))
                 /\ ~ToKernel(q2, pdt_index(u))
          BY <3>9, UserPath, Zenon
        <5>2. p4 = q4
          BY <2>8, <5>1, Zenon
        <5>3. p3 = q3
          BY <2>2, <2>9, <5>1, <5>2, Zenon DEF Step
        <5>4. p2 = q2
          BY <2>2, <2>10, <5>1, <5>3, Zenon DEF Step
        <5>5. p1 = LeafPos(s, u)
          BY <2>2, <2>11, <5>1, <5>4, Zenon DEF Step
        <5>. QED
          BY <3>4, <5>5, ZenonT(60)
      <4>2. ASSUME NEW x, x # None, Maps(tables, pos, s, u, x)
            PROVE  FALSE
        <5>1. Maps(tb, pb, s, u, x)
          BY <2>18, <3>9, <4>2, Zenon DEF SameMaps
        <5>2. PICK t \in DOMAIN tb : pb[t] = LeafPos(s, u) /\ tb[t][pt_index(u)].page = x
          BY <5>1, Zenon DEF Maps
        <5>3. t = v
          BY <2>18, <3>4, <4>1, <5>2, ZenonT(60) DEF Graph
        <5>4. tb[v][i1].page = None
          BY <3>6, EmptyTyped, Zenon
        <5>. QED
          BY <2>2, <4>2, <5>2, <5>3, <5>4, Zenon
      <4>3. ASSUME NEW z \in Spaces, NEW o \in UserPages, NEW x, x # None
            PROVE  Maps(tc, pb, z, o, x) <=>
                       IF z = s /\ o = u THEN x = page ELSE Maps(tables, pos, z, o, x)
        <5>1. Maps(tc, pb, z, o, x) <=> IF z = s /\ o = u THEN x = page ELSE Maps(tb, pb, z, o, x)
          <6>1. tc = SetLeaf(tb, v, pt_index(u), page)
            BY <2>2, <3>1, Zenon
          <6>2. Graph(tb, pml4, m, pb)
            BY <2>18, Zenon
          <6>3. v \in DOMAIN tb
            BY <3>4, Zenon
          <6>. QED
            BY ONLY s \in Spaces, z \in Spaces, o \in UserPages, <3>5, <3>9, <4>1, <6>1, <6>2, <6>3,
                    SetLeafMaps
        <5>2. Maps(tb, pb, z, o, x) <=> Maps(tables, pos, z, o, x)
          BY <2>18, <4>3, Zenon DEF SameMaps
        <5>. QED
          BY <5>1, <5>2, Zenon
      <4>. QED
        BY <4>2, <4>3, Zenon
    <3>10. DOMAIN tc \subseteq (DOMAIN tables \cup (1..n))
      BY <2>18, <3>8, Zenon
    <3>. QED
      BY <2>1, <2>18, <3>3, <3>7, <3>9, <3>10, Zenon DEF Mapped
  <2>. QED
    BY <2>19, <2>20, <2>21, Zenon
<1>. QED
  BY <1>3, <1>4, Zenon

-------------------------------------------------------------------------------
(* What a step does to the tables and to what they translate                  *)

\* The tables and what is left of the pages, whatever the places are.
Tree(ts, rt, n) == \E pos : Graph(ts, rt, n, pos)

\* Every user page of every space is translated as before.
SameTranslation(ts, rt, tb, rb) ==
    \A s \in Spaces, u \in UserPages : TranslateIn(tb, rb[s], u) = TranslateIn(ts, rt[s], u)

LEMMA TranslateSame ==
    ASSUME NEW ts, NEW rt, NEW n, NEW pos, Graph(ts, rt, n, pos),
           NEW tb, NEW rb, NEW m, NEW pb, Graph(tb, rb, m, pb),
           NEW s \in Spaces, NEW u \in UserPages,
           \A x : x # None => (Maps(tb, pb, s, u, x) <=> Maps(ts, pos, s, u, x))
    PROVE  TranslateIn(tb, rb[s], u) = TranslateIn(ts, rt[s], u)
<1>1. PICK x : x = TranslateIn(ts, rt[s], u)
  BY Zenon
<1>2. PICK y : y = TranslateIn(tb, rb[s], u)
  BY Zenon
<1>3. x # None => Maps(ts, pos, s, u, x)
  BY <1>1, TranslateMaps
<1>4. y # None => Maps(tb, pb, s, u, y)
  BY <1>2, TranslateMaps
<1>5. x # None => y = x
  BY <1>2, <1>3, TranslateMaps
<1>6. y # None => x = y
  BY <1>1, <1>4, TranslateMaps
<1>. QED
  BY <1>1, <1>2, <1>5, <1>6

\* VmSpace::new
LEMMA AddRootMaps ==
    ASSUME NEW ts, NEW rt, NEW n, NEW pos, Graph(ts, rt, n, pos), NEW r \in Spaces,
           NEW tb, tb = AddRoot(ts, n), NEW pb, pb = AddPos(ts, pos, n, RootPos(r))
    PROVE  SameMaps(ts, pos, tb, pb)
<1>. SUFFICES ASSUME NEW s \in Spaces, NEW u \in UserPages, NEW x, x # None
              PROVE  Maps(tb, pb, s, u, x) <=> Maps(ts, pos, s, u, x)
  BY Zenon DEF SameMaps
<1>1. n \notin DOMAIN ts
  BY GraphTyped, Zenon
<1>2. DOMAIN tb = DOMAIN ts \cup {n} /\ \A t \in DOMAIN ts : tb[t] = ts[t]
  BY <1>1, Zenon DEF AddRoot
<1>3. pb[n] = RootPos(r) /\ \A t \in DOMAIN ts : pb[t] = pos[t]
  BY <1>1, Zenon DEF AddPos
<1>4. RootPos(r) # LeafPos(s, u)
  <2>1. RootPos(r).level = 4 /\ LeafPos(s, u).level = 1
    BY DEF RootPos, LeafPos, Pos
  <2>. QED
    BY <2>1
<1>. QED
  BY <1>2, <1>3, <1>4, Zenon DEF Maps

LEMMA NewTables ==
    ASSUME Tree(tables, pml4, left), NEW s \in Spaces, New(s)
    PROVE  /\ Tree(tables', pml4', left') /\ SameTranslation(tables, pml4, tables', pml4')
           /\ left' = left - 1 /\ DOMAIN tables' = DOMAIN tables \cup {left}
<1>1. PICK pos : Graph(tables, pml4, left, pos)
  BY Zenon DEF Tree
<1>2. PICK pb : pb = AddPos(tables, pos, left, RootPos(s))
  BY Zenon
<1>3. left \in Nat
  BY <1>1, GraphTyped, Zenon
<1>4. /\ pml4[s] = None /\ left # 0 /\ left' = left - 1 /\ pml4' = [pml4 EXCEPT ![s] = left]
      /\ tables' = AddRoot(tables, left)
  BY <1>3 DEF New, AddRoot, RootTable
<1>5. Graph(tables', pml4', left', pb)
  BY <1>1, <1>2, <1>4, AddRootGraph, Zenon
<1>6. SameMaps(tables, pos, tables', pb)
  BY <1>1, <1>2, <1>4, AddRootMaps, Zenon
<1>7. ASSUME NEW z \in Spaces, NEW u \in UserPages
      PROVE  TranslateIn(tables', pml4'[z], u) = TranslateIn(tables, pml4[z], u)
  <2>1. \A x : x # None => (Maps(tables', pb, z, u, x) <=> Maps(tables, pos, z, u, x))
    BY <1>6, Zenon DEF SameMaps
  <2>. QED
    BY ONLY <1>1, <1>5, <1>7, <2>1, TranslateSame
<1>8. DOMAIN tables' = DOMAIN tables \cup {left}
  BY <1>4, Zenon DEF AddRoot
<1>. QED
  BY <1>4, <1>5, <1>7, <1>8, Zenon DEF Tree, SameTranslation

\* What a call of ArchMap(s, u, page, n) comes to, in terms of what is translated.
Translates(n, s, u, page, w) ==
    \E tb, m, v, e :
        /\ w = Walk(tb, m, v, e)
        /\ Tree(tb, pml4, m) /\ m \in 0..n
        /\ DOMAIN tb \subseteq (DOMAIN tables \cup (1..n))
        /\ e # "Ok" => SameTranslation(tables, pml4, tb, pml4)
        /\ e = "Ok" => u < KernelBase
        /\ e = "Ok" /\ u \in UserPages =>
            /\ TranslateIn(tables, pml4[s], u) = None
            /\ \A z \in Spaces, o \in UserPages :
                TranslateIn(tb, pml4[z], o) =
                    IF z = s /\ o = u THEN page ELSE TranslateIn(tables, pml4[z], o)

LEMMA ArchTranslates ==
    ASSUME NEW n, Tree(tables, pml4, n), NEW s \in Spaces, pml4[s] # None,
           NEW u \in Nat, NEW page \in ((n + 1)..MaxPages) \ DOMAIN tables,
           NEW w, w = ArchMap(s, u, page, n)
    PROVE  Translates(n, s, u, page, w)
<1>1. PICK pos : Graph(tables, pml4, n, pos)
  BY Zenon DEF Tree
<1>2. page # None
  BY <1>1, GraphTyped DEF None
<1>3. Mapped(n, pos, s, u, page, w)
  BY <1>1, ArchMapped, Zenon
<1>4. PICK tb, m, v, e, pb :
        /\ w = Walk(tb, m, v, e)
        /\ Graph(tb, pml4, m, pb) /\ m \in 0..n
        /\ DOMAIN tb \subseteq (DOMAIN tables \cup (1..n))
        /\ e # "Ok" => SameMaps(tables, pos, tb, pb)
        /\ e = "Ok" => u < KernelBase
        /\ e = "Ok" /\ u \in UserPages =>
            /\ \A x : x # None => ~Maps(tables, pos, s, u, x)
            /\ \A z \in Spaces, o \in UserPages : \A x : x # None =>
                (Maps(tb, pb, z, o, x) <=>
                    IF z = s /\ o = u THEN x = page ELSE Maps(tables, pos, z, o, x))
  BY <1>3, Zenon DEF Mapped
<1>5. ASSUME e # "Ok", NEW z \in Spaces, NEW o \in UserPages
      PROVE  TranslateIn(tb, pml4[z], o) = TranslateIn(tables, pml4[z], o)
  <2>1. \A x : x # None => (Maps(tb, pb, z, o, x) <=> Maps(tables, pos, z, o, x))
    BY <1>4, <1>5, Zenon DEF SameMaps
  <2>. QED
    BY ONLY <1>1, <1>4, <1>5, <2>1, TranslateSame
<1>6. ASSUME e = "Ok", u \in UserPages
      PROVE  TranslateIn(tables, pml4[s], u) = None
  <2>1. PICK x : x = TranslateIn(tables, pml4[s], u)
    OBVIOUS
  <2>2. x # None => Maps(tables, pos, s, u, x)
    BY <1>1, <1>6, <2>1, TranslateMaps
  <2>. QED
    BY <1>4, <1>6, <2>1, <2>2, Zenon
<1>7. ASSUME e = "Ok", u \in UserPages, NEW z \in Spaces, NEW o \in UserPages
      PROVE  TranslateIn(tb, pml4[z], o) =
                 IF z = s /\ o = u THEN page ELSE TranslateIn(tables, pml4[z], o)
  <2>1. CASE z = s /\ o = u
    <3>1. Maps(tb, pb, z, o, page)
      BY <1>2, <1>4, <1>7, <2>1, Zenon
    <3>2. TranslateIn(tb, pml4[z], o) = page
      BY ONLY <1>2, <1>4, <1>7, <3>1, TranslateMaps
    <3>. QED
      BY <2>1, <3>2
  <2>2. CASE ~(z = s /\ o = u)
    <3>1. \A x : x # None => (Maps(tb, pb, z, o, x) <=> Maps(tables, pos, z, o, x))
      BY <1>4, <1>7, <2>2, Zenon
    <3>2. TranslateIn(tb, pml4[z], o) = TranslateIn(tables, pml4[z], o)
      BY ONLY <1>1, <1>4, <1>7, <3>1, TranslateSame
    <3>. QED
      BY <2>2, <3>2
  <2>. QED
    BY <2>1, <2>2
<1>8. Tree(tb, pml4, m)
  BY <1>4, Zenon DEF Tree
<1>9. e # "Ok" => SameTranslation(tables, pml4, tb, pml4)
  BY <1>5 DEF SameTranslation
<1>. QED
  BY <1>4, <1>6, <1>7, <1>8, <1>9 DEF Translates

===============================================================================
