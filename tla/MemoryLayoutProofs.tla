------------------------- MODULE MemoryLayoutProofs --------------------------
(***************************************************************************)
(* Proofs about what is laid out in memory, and where: PhysMemory, the     *)
(* regions of physical memory that the kernel makes out of the memory map, *)
(* and InitialStack, the stack that a process starts with.                 *)
(*                                                                         *)
(* Proofs about PhysMemory, for every memory map, page size and capacity:  *)
(* bubble_sort sorts, memory::init() gives all the usable memory to the    *)
(* page allocator and nothing else, and the page allocator implements      *)
(* PageSource.                                                             *)
(*                                                                         *)
(* Proofs about InitialStack, for every argument vector, environment and   *)
(* stack size: the stack that is built is exact, and the writer never      *)
(* fails once the estimate has accepted the arguments.                     *)
(*                                                                         *)
(* The inductive invariant says what the buffer holds, item by item, as a  *)
(* function of how far build_initial_stack has come.                       *)
(***************************************************************************)
EXTENDS PhysMemory, InitialStack, TLAPS

-------------------------------------------------------------------------------
(* Facts about numbers and ranges.                                            *)

LEMMA NextIn ==
    ASSUME NEW n \in Nat, NEW v \in 1..n
    PROVE  v + 1 \in 1..(n + 1) /\ v \in Int /\ ~(v < v) /\ \A q \in 1..(v - 1) : q \in 1..n
OBVIOUS

LEMMA LessThanNext ==
    ASSUME NEW v \in Int
    PROVE  v < v + 1 /\ ~(v < v) /\ v + 1 # v
OBVIOUS

LEMMA Ordered ==
    ASSUME NEW b \in Nat, NEW x \in 0..b, NEW y \in 0..b
    PROVE  /\ x \in Nat /\ y \in Nat /\ x + y \in Nat
           /\ x + y > b <=> ~(x + y <= b)
           /\ x < y <=> ~(y <= x)
           /\ x >= y <=> y <= x
OBVIOUS

LEMMA NotAbove ==
    ASSUME NEW b \in Nat, NEW x \in 0..b, NEW y \in 0..b, x < y
    PROVE  x <= y /\ y <= y
OBVIOUS

LEMMA NotLast ==
    ASSUME NEW n \in Nat, NEW v \in 1..(n + 1), v <= n
    PROVE  v \in 1..n
OBVIOUS

\* The first v of n ranges end below d when the first v - 1 end below c.
LEMMA EndsPassed ==
    ASSUME NEW n \in Nat, NEW v \in 1..n, NEW R, NEW b \in Nat, NEW c \in 0..b, NEW d \in 0..b,
           \A q \in 1..n : R[q].end \in 0..b,
           c <= d, R[v].end <= d, \A q \in 1..(v - 1) : R[q].end <= c
    PROVE  \A q \in 1..((v + 1) - 1) : R[q].end <= d
OBVIOUS

\* No sorted range reaches into the gap between c and e, if those before v end below c and
\* the others start above e.
LEMMA GapFree ==
    ASSUME NEW n \in Nat, NEW v \in 1..(n + 1), NEW R, NEW b \in Nat, NEW e \in 0..b, NEW c,
           \A q \in 1..n : R[q].start \in 0..b,
           \A p, q \in 1..n : p < q => R[p].start <= R[q].start,
           \A q \in 1..(v - 1) : R[q].end <= c,
           v <= n => e <= R[v].start
    PROVE  \A q \in 1..n : e <= R[q].start \/ R[q].end <= c
<1>1. ASSUME NEW q \in 1..n, q \notin 1..(v - 1) PROVE e <= R[q].start
  <2>1. v <= n /\ (v = q \/ v < q) /\ v \in 1..n
    BY <1>1
  <2>2. R[v].start <= R[q].start \/ v = q
    BY <2>1, Zenon
  <2> QED BY <2>1, <2>2
<1> QED BY <1>1, Zenon

LEMMA Appended ==
    ASSUME NEW S, NEW q \in Seq(S), NEW x \in S
    PROVE  /\ Len(q) \in Nat /\ DOMAIN q = 1..Len(q)
           /\ DOMAIN Append(q, x) = 1..(Len(q) + 1) /\ Append(q, x)[Len(q) + 1] = x
           /\ Len(Append(q, x)) = Len(q) + 1
           /\ \A w \in 1..Len(q) : Append(q, x)[w] = q[w]
OBVIOUS

-------------------------------------------------------------------------------
(* InitialStack                                                               *)

\* The number of words, of bytes in them, and where item y lies.
NW == 19 + Strings
Place(y) ==
    IF y <= NW THEN 8 * (y - 1)
    ELSE IF y <= NW + Strings + 1 THEN 8 * NW + args.ends[y - NW - 1]
    ELSE IF y = NW + Strings + 2 THEN 8 * NW + args.ends[Strings] + 16
    ELSE align_up16(8 * NW + args.ends[Strings] + 16)

Value(y) ==
    IF y = 1 THEN args.argc
    ELSE IF y <= args.argc + 1 THEN layout.argv_base + args.ends[y - 2]
    ELSE IF y = args.argc + 2 THEN 0
    ELSE IF y <= Strings + 2 THEN layout.env_base + (args.ends[y - 3] - args.ends[args.argc])
    ELSE IF y = Strings + 3 THEN 0
    ELSE IF y <= NW THEN Auxv[y - Strings - 3]
    ELSE IF y <= NW + Strings + 1 THEN y - NW
    ELSE 0

Item(y) == [at |-> Place(y), len |-> Place(y + 1) - Place(y), value |-> Value(y)]
Items(n) == [y \in 1..n |-> Item(y)]

\* The first n items have been written.
Written(n) ==
    /\ n \in Nat
    /\ buf = Items(n)
    /\ length = Place(n + 1)
    /\ remaining = StackSize - length

Total == align_up16(8 * NW + args.ends[Strings] + 16)
LayoutExact ==
    /\ Total <= StackSize
    /\ layout = [sp           |-> StackBase + StackSize - Total,
                 argv_base    |-> StackBase + StackSize - Total + 8 * NW,
                 env_base     |-> StackBase + StackSize - Total + (8 * NW + args.ends[args.argc]),
                 random_uaddr |-> StackBase + StackSize - Total + (8 * NW + args.ends[Strings])]

Labels ==
    {"estimate", "estimate_argv", "estimate_env", "argc", "argv", "envp", "auxv",
     "strings", "align", "finish", "built", "failed"}
Estimating == {"estimate", "estimate_argv", "estimate_env"}

IInv ==
    /\ StackArgsOK(args) /\ at \in Labels /\ k \in Nat
    /\ at \in Estimating => Written(0) /\ layout = NoLayout
    /\ at = "estimate" => k = 0
    /\ at = "estimate_argv" => k <= args.argc /\ offset = 8 * NW + args.ends[k]
    /\ at = "estimate_env" =>
           /\ k <= Strings /\ offset = 8 * NW + args.ends[k]
           /\ env_offset = 8 * NW + args.ends[args.argc]
    /\ at \notin Estimating \cup {"failed"} => LayoutExact
    /\ at = "argc" => Written(0)
    /\ at = "argv" =>
           Written(1 + k) /\ k <= args.argc /\ uaddr = layout.argv_base + args.ends[k]
    /\ at = "envp" =>
           /\ Written(2 + k) /\ k <= Strings /\ args.argc <= k
           /\ uaddr = layout.env_base + (args.ends[k] - args.ends[args.argc])
    /\ at = "auxv" => Written(3 + Strings + k) /\ k <= 16
    /\ at = "strings" => Written(NW + k) /\ k <= Strings
    /\ at = "align" => Written(NW + Strings + 1)
    /\ at \in {"finish", "built"} => Written(NW + Strings + 2)
    /\ at = "failed" => layout = NoLayout \/ error = "VmAreaWrite"

-------------------------------------------------------------------------------
(* The words and bytes counted                                                *)

\* Steps that leave the arguments and the layout alone leave the items to write alone.
LEMMA SameItems ==
  ASSUME args' = args, layout' = layout, NEW m
  PROVE  Items(m)' = Items(m) /\ Place(m + 1)' = Place(m + 1)
  BY DEF Items, Item, Place, Value, NW, Strings, Auxv

LEMMA AuxvLength == Len(Auxv) = 16 /\ \A x \in 1..16 : x \in DOMAIN Auxv
  BY DEF Auxv

LEMMA Counts ==
  ASSUME StackArgsOK(args)
  PROVE  /\ Strings \in Nat /\ NW \in Nat /\ NW = 19 + Strings
         /\ args.argc \in Nat /\ args.argc <= Strings
         /\ argv_offset = 8 * NW
         /\ NumWords = NW
  <1>1. args.argc \in Nat /\ args.envc \in Nat
    BY Zenon DEF StackArgsOK
  <1>2. argv_offset = 8 * NW
    BY <1>1 DEF Strings, NW, argv_offset, Word, AUXV_COUNT
  <1>3. NumWords = NW
    BY <1>1, AuxvLength DEF Strings, NW, NumWords
  <1>. QED BY <1>1, <1>2, <1>3 DEF Strings, NW

\* The lengths of the strings are natural, and their ends in order.
LEMMA EndsType ==
  ASSUME StackArgsOK(args)
  PROVE  /\ args.ends[0] = 0
         /\ \A x \in 0..Strings : args.ends[x] \in Nat
         /\ \A x, y \in 0..Strings : x <= y => args.ends[x] <= args.ends[y]
  BY Zenon DEF StackArgsOK, Strings

LEMMA AlignUp ==
  ASSUME NEW v \in Nat
  PROVE  /\ align_up16(v) \in Nat /\ v <= align_up16(v)
         /\ align_up16(v) % 16 = 0
  BY DEF align_up16

\* Item y lies in order and inside the total.
LEMMA Places ==
  ASSUME StackArgsOK(args)
  PROVE  /\ \A y \in 1..(NW + Strings + 3) : Place(y) \in Nat /\ Place(y) <= Total
         /\ \A y \in 1..(NW + Strings + 2) : Place(y) <= Place(y + 1)
         /\ Place(1) = 0 /\ Place(NW + Strings + 3) = Total
         /\ \A y \in 1..(NW + Strings + 2) : Place(y + 1) <= Place(NW + Strings + 3)
  <1>. DEFINE e == args.ends[Strings]
  <1>1. e \in Nat /\ \A x \in 0..Strings : args.ends[x] \in Nat /\ args.ends[x] <= e
    BY Counts, EndsType
  <1>2. 8 * NW + e + 16 \in Nat
    BY <1>1, Counts
  <1>3. Total \in Nat /\ 8 * NW + e + 16 <= Total
    BY <1>2, AlignUp, Zenon DEF Total
  <1>4. ASSUME NEW y \in 1..(NW + Strings + 3)
        PROVE  Place(y) \in Nat /\ Place(y) <= Total
    <2>1. CASE y <= NW
      BY <2>1, <1>1, <1>3, Counts DEF Place
    <2>2. CASE y > NW /\ y <= NW + Strings + 1
      <3>1. y - NW - 1 \in 0..Strings
        BY <2>2, Counts
      <3>2. Place(y) = 8 * NW + args.ends[y - NW - 1]
        BY <2>2, Counts DEF Place
      <3>. QED BY <3>1, <3>2, <1>1, <1>3, Counts
    <2>3. CASE y > NW + Strings + 1
      BY <2>3, <1>1, <1>3, Counts DEF Place, Total
    <2>. QED BY <2>1, <2>2, <2>3, Counts
  <1>5. ASSUME NEW y \in 1..(NW + Strings + 2)
        PROVE  Place(y) <= Place(y + 1)
    <2>1. CASE y < NW
      BY <2>1, Counts DEF Place
    <2>2. CASE y = NW
      BY <2>2, <1>1, Counts, EndsType DEF Place
    <2>3. CASE y > NW /\ y <= NW + Strings
      <3>1. y - NW - 1 \in 0..Strings /\ y + 1 - NW - 1 \in 0..Strings
        BY <2>3, Counts
      <3>2. Place(y) = 8 * NW + args.ends[y - NW - 1]
        BY <2>3, Counts DEF Place
      <3>3. Place(y + 1) = 8 * NW + args.ends[y + 1 - NW - 1]
        BY <2>3, Counts DEF Place
      <3>4. args.ends[y - NW - 1] <= args.ends[y + 1 - NW - 1]
        BY <3>1, EndsType, Counts
      <3>. QED BY <3>1, <3>2, <3>3, <3>4, <1>1, Counts
    <2>4. CASE y = NW + Strings + 1
      BY <2>4, <1>1, Counts DEF Place
    <2>5. CASE y = NW + Strings + 2
      BY <2>5, <1>1, <1>3, Counts DEF Place, Total
    <2>. QED BY <2>1, <2>2, <2>3, <2>4, <2>5, Counts
  <1>6. Place(1) = 0 /\ Place(NW + Strings + 3) = Total
    BY Counts DEF Place, Total
  <1>. QED BY <1>4, <1>5, <1>6, Counts

-------------------------------------------------------------------------------
(* Writing one item                                                           *)

LEMMA Extend ==
  ASSUME NEW n \in Nat, Written(n), args' = args, layout' = layout,
         Place(n + 1) \in Int, Place(n + 2) \in Int, StackSize \in Int,
         buf' = Append(buf, Item(n + 1)),
         length' = length + (Place(n + 2) - Place(n + 1)),
         remaining' = remaining - (Place(n + 2) - Place(n + 1))
  PROVE  Written(n + 1)'
  <1>1. buf' = Items(n + 1)
    <2>1. buf = Items(n)
      BY Zenon DEF Written
    <2> QED
      BY ONLY n \in Nat, buf' = Append(buf, Item(n + 1)), <2>1 DEF Items
  <1>2. Items(n + 1)' = Items(n + 1) /\ Place(n + 2)' = Place(n + 2)
    BY DEF Items, Item, Place, Value, NW, Strings, Auxv
  <1>3. length' = Place(n + 2) /\ remaining' = StackSize - length'
    BY DEF Written
  <1>4. n + 1 \in Nat /\ Place(n + 1 + 1)' = Place(n + 2)'
    <2>1. n + 1 \in Nat /\ n + 1 + 1 = n + 2
      OBVIOUS
    <2>. QED BY <2>1, Zenon
  <1>. QED BY <1>1, <1>2, <1>3, <1>4, Zenon DEF Written

\* A write of the next item succeeds.
LEMMA WriteOne ==
  ASSUME StackArgsOK(args), LayoutExact,
         NEW n \in Nat, n <= NW + Strings + 1, Written(n),
         NEW size, NEW v, NEW label, NEW x, NEW u,
         size = Place(n + 2) - Place(n + 1), v = Value(n + 1),
         write_bytes(size, v, label, x, u)
  PROVE  /\ Written(n + 1)'
         /\ at' = label /\ k' = x /\ uaddr' = u
         /\ args' = args /\ layout' = layout /\ error' = error
  <1>1. n + 1 \in 1..(NW + Strings + 2) /\ n + 2 \in 1..(NW + Strings + 3) /\ n + 1 + 1 = n + 2
    BY Counts
  <1>2. /\ Place(n + 1) \in Nat /\ Place(n + 2) \in Nat
        /\ Place(n + 1) <= Place(n + 2) /\ Place(n + 2) <= Total
    <2>1. n + 1 \in 1..(NW + Strings + 3)
      BY <1>1, Counts
    <2>. QED BY <1>1, <2>1, Places, Zenon
  <1>3. Total \in Nat /\ Total <= StackSize /\ StackSize \in Nat
    BY Places, Counts, StackAssumption DEF LayoutExact
  <1>4. length = Place(n + 1) /\ remaining = StackSize - length
    BY Zenon DEF Written
  <1>5. remaining >= size
    BY <1>2, <1>3, <1>4
  <1>6. ~(remaining < size)
    BY <1>5, <1>2, <1>3, <1>4
  <1>7. /\ buf' = Append(buf, [at |-> length, len |-> size, value |-> v])
        /\ length' = length + size /\ remaining' = remaining - size
        /\ at' = label /\ k' = x /\ uaddr' = u
        /\ args' = args /\ layout' = layout /\ error' = error
    BY <1>6, Zenon DEF write_bytes
  <1>8. [at |-> length, len |-> size, value |-> v] = Item(n + 1)
    BY <1>1, <1>4, Zenon DEF Item
  <1>9. Written(n + 1)'
    BY <1>2, <1>3, <1>7, <1>8, Extend
  <1>. QED BY <1>7, <1>9, Zenon

\* A write of the next word succeeds: the buffer holds words only.
LEMMA WriteWord ==
  ASSUME StackArgsOK(args), LayoutExact,
         NEW n \in Nat, n < NW, Written(n),
         NEW v, NEW label, NEW x, NEW u, v = Value(n + 1),
         write_usize(v, label, x, u)
  PROVE  /\ Written(n + 1)'
         /\ at' = label /\ k' = x /\ uaddr' = u
         /\ args' = args /\ layout' = layout /\ error' = error
  <1>1. Place(n + 1) = 8 * n
    BY Counts DEF Place
  <1>2. Place(n + 2) = 8 * (n + 1)
    <2>1. CASE n + 2 <= NW
      BY <2>1, Counts DEF Place
    <2>2. CASE n + 1 = NW
      BY <2>2, Counts, EndsType DEF Place
    <2>. QED BY <2>1, <2>2, Counts
  <1>3. length % 8 = 0
    BY <1>1 DEF Written
  <1>4. write_bytes(8, v, label, x, u)
    BY <1>3, Zenon DEF write_usize, Word
  <1>5. 8 = Place(n + 2) - Place(n + 1)
    BY <1>1, <1>2
  <1>6. n <= NW + Strings + 1
    BY Counts
  <1>. QED BY <1>4, <1>5, <1>6, WriteOne, Zenon

-------------------------------------------------------------------------------
(* The invariant is inductive                                                 *)

LEMMA Kept ==
  ASSUME args' = args, layout' = layout
  PROVE  /\ StackArgsOK(args)' <=> StackArgsOK(args)
         /\ LayoutExact' <=> LayoutExact
         /\ NW' = NW /\ Strings' = Strings /\ args.argc' = args.argc
  BY DEF StackArgsOK, LayoutExact, Total, NW, Strings, align_up16

\* An error found while estimating.
LEMMA EstimateFails ==
  ASSUME IInv, at \in Estimating, NEW e, Fail(e)
  PROVE  IInv'
  <1>1. /\ args' = args /\ layout' = layout /\ at' = "failed" /\ k' = k
    BY Zenon DEF Fail
  <1>2. layout' = NoLayout
    BY <1>1, Zenon DEF IInv
  <1>3. StackArgsOK(args)' /\ k' \in Nat
    BY <1>1, Kept, Zenon DEF IInv
  <1>. QED BY <1>1, <1>2, <1>3, Zenon DEF IInv, Labels, Estimating, NoLayout

LEMMA EstimatePreserves ==
  ASSUME IInv,
         \/ EstimateWords \/ EstimateEnv \/ EstimateDone
         \/ EstimateString("estimate_argv", args.argc)
         \/ EstimateString("estimate_env", Strings)
  PROVE  IInv'
  <1>0. /\ StackArgsOK(args) /\ k \in Nat
        /\ Strings \in Nat /\ args.argc \in Nat /\ args.argc <= Strings /\ NW \in Nat
    BY Counts, Zenon DEF IInv
  <1>1. CASE EstimateWords
    <2>1. /\ args' = args /\ layout' = layout /\ at' = "estimate_argv" /\ k' = 0
          /\ offset' = 8 * NW + args.ends[0] /\ UNCHANGED writer /\ k = 0
      BY <1>1, <1>0, Counts, EndsType DEF EstimateWords, IInv
    <2>2. Written(0)' /\ layout' = NoLayout
      BY <1>1, <2>1, Kept DEF IInv, EstimateWords, Estimating, Written, writer, Items, Place, NoLayout
    <2>3. StackArgsOK(args)' /\ NW' = NW /\ Strings' = Strings
      BY <2>1, <1>0, Kept, Zenon
    <2>. QED BY <2>1, <2>2, <2>3, <1>0 DEF IInv, Labels, Estimating
  <1>2. CASE EstimateEnv
    <2>1. /\ args' = args /\ layout' = layout /\ at' = "estimate_env" /\ k' = k
          /\ k = args.argc /\ offset' = 8 * NW + args.ends[k]
          /\ env_offset' = 8 * NW + args.ends[args.argc] /\ UNCHANGED writer
      BY <1>2, Zenon DEF EstimateEnv, IInv
    <2>2. Written(0)' /\ layout' = NoLayout
      BY <1>2, <2>1, Kept DEF IInv, EstimateEnv, Estimating, Written, writer, Items, Place, NoLayout
    <2>3. StackArgsOK(args)' /\ NW' = NW /\ Strings' = Strings
      BY <2>1, <1>0, Kept, Zenon
    <2>. QED BY <2>1, <2>2, <2>3, <1>0, Zenon DEF IInv, Labels, Estimating
  <1>3. CASE EstimateDone
    <2>1. CASE Fail("StackTooSmall")
      BY <1>3, <2>1, EstimateFails, Zenon DEF EstimateDone, Estimating
    <2>2. CASE ~Fail("StackTooSmall")
      <3>1. /\ at = "estimate_env" /\ k = Strings
            /\ offset = 8 * NW + args.ends[Strings]
            /\ env_offset = 8 * NW + args.ends[args.argc]
            /\ Written(0) /\ argv_offset = 8 * NW
        BY <1>3, <1>0, Counts, Zenon DEF EstimateDone, IInv, Estimating
      <3>2. align_up16(offset + RandomLen) = Total
        BY <3>1, Zenon DEF Total, RandomLen
      <3>3. /\ args' = args /\ at' = "argc" /\ k' = 0 /\ UNCHANGED writer
            /\ Total <= StackSize
            /\ layout' = [sp |-> StackBase + StackSize - Total,
                          argv_base |-> StackBase + StackSize - Total + argv_offset,
                          env_base |-> StackBase + StackSize - Total + env_offset,
                          random_uaddr |-> StackBase + StackSize - Total + offset]
        BY <1>3, <2>2, <3>2, Zenon DEF EstimateDone
      <3>4. Total' = Total /\ NW' = NW /\ Strings' = Strings
        BY <3>3, Zenon DEF Total, NW, Strings, align_up16
      <3>5. LayoutExact'
        BY <3>1, <3>3, <3>4, Zenon DEF LayoutExact
      <3>6. Written(0)'
        BY <3>1, <3>3 DEF Written, writer, Items, Place, NW, Strings
      <3>7. StackArgsOK(args)'
        BY <3>3, <1>0, Zenon DEF StackArgsOK
      <3>. QED BY <3>3, <3>5, <3>6, <3>7, Zenon DEF IInv, Labels, Estimating
    <2>. QED BY <2>1, <2>2, Zenon
  <1>4. ASSUME NEW loop \in {"estimate_argv", "estimate_env"}, NEW last \in 0..Strings,
               EstimateString(loop, last),
               loop = "estimate_argv" => last = args.argc
        PROVE  IInv'
    <2>1. CASE Fail("NotNulTerminated")
      BY <1>4, <2>1, EstimateFails, Zenon DEF EstimateString, Estimating
    <2>2. CASE ~Fail("NotNulTerminated")
      <3>1. /\ at = loop /\ at' = at /\ k < last /\ k' = k + 1 /\ args' = args
            /\ layout' = layout /\ UNCHANGED writer /\ env_offset' = env_offset
            /\ offset' = offset + Len1(k + 1)
        BY <1>4, <2>2, Zenon DEF EstimateString
      <3>2. offset = 8 * NW + args.ends[k]
        BY <1>4, <3>1, Zenon DEF IInv
      <3>3. k + 1 - 1 = k /\ k \in 0..Strings /\ k + 1 \in 0..Strings
        BY <1>0, <1>4, <3>1
      <3>4. args.ends[k] \in Nat /\ args.ends[k + 1] \in Nat
        BY <3>3, <1>0, EndsType, Zenon
      <3>5. offset' = 8 * NW + args.ends[k + 1]
        BY <1>0, <3>1, <3>2, <3>3, <3>4 DEF Len1
      <3>6. Written(0)' /\ layout' = NoLayout
        BY <1>4, <3>1, Kept DEF IInv, Estimating, Written, writer, Items, Place, NoLayout
      <3>7. StackArgsOK(args)' /\ NW' = NW /\ Strings' = Strings /\ args.argc' = args.argc
        BY <3>1, <1>0, Kept, Zenon
      <3>8. k' <= Strings /\ k' \in Nat /\ (at = "estimate_argv" => k' <= args.argc)
        BY <1>0, <1>4, <3>1
      <3>9. at = "estimate_env" => env_offset' = 8 * NW + args.ends[args.argc]
        BY <3>1, Zenon DEF IInv
      <3>. QED BY <1>4, <3>1, <3>5, <3>6, <3>7, <3>8, <3>9, Zenon DEF IInv, Labels, Estimating
    <2>. QED BY <2>1, <2>2, Zenon
  <1>5. CASE EstimateString("estimate_argv", args.argc)
    BY <1>0, <1>4, <1>5
  <1>6. CASE EstimateString("estimate_env", Strings)
    BY <1>0, <1>4, <1>6
  <1>. QED BY <1>1, <1>2, <1>3, <1>5, <1>6, Zenon

LEMMA WritePreserves ==
  ASSUME IInv,
         \/ WriteArgc \/ WriteArgvNull \/ WriteEnvpNull \/ WriteAuxv \/ AuxvDone
         \/ WritePointer("argv", args.argc) \/ WritePointer("envp", Strings)
         \/ WriteString \/ WriteRandom \/ WritePadding
  PROVE  IInv'
  <1>0. /\ StackArgsOK(args) /\ k \in Nat
        /\ Strings \in Nat /\ args.argc \in Nat /\ args.argc <= Strings
        /\ NW \in Nat /\ NW = 19 + Strings
    BY Counts, Zenon DEF IInv
  <1>1. LayoutExact
    BY Zenon DEF IInv, Estimating, WriteArgc, WriteArgvNull, WriteEnvpNull, WriteAuxv, AuxvDone,
           WritePointer, WriteString, WriteRandom, WritePadding
  <1>2. ASSUME args' = args, layout' = layout
        PROVE  /\ StackArgsOK(args)' /\ LayoutExact'
               /\ NW' = NW /\ Strings' = Strings /\ args.argc' = args.argc
    BY <1>0, <1>1, <1>2, Kept, Zenon
  <1>base. layout.argv_base \in Int
    <2>1. Place(NW + Strings + 3) = Total /\ Place(NW + Strings + 3) \in Nat
      BY <1>0, Places
    <2>2. Total \in Nat
      BY <2>1, Zenon
    <2>3. layout.argv_base = StackBase + StackSize - Total + 8 * NW
      BY <1>1, Zenon DEF LayoutExact
    <2>. QED BY <1>0, <2>2, <2>3, StackAssumption
  <1>3. CASE WriteArgc
    <2>1. Written(0) /\ args.argc = Value(0 + 1) /\ 0 \in Nat /\ 0 < NW
      BY <1>0, <1>3 DEF IInv, WriteArgc, Value
    <2>2. /\ Written(0 + 1)' /\ at' = "argv" /\ k' = 0 /\ uaddr' = layout.argv_base
          /\ args' = args /\ layout' = layout
      BY <1>0, <1>1, <1>3, <2>1, WriteWord, Zenon DEF WriteArgc
    <2>3. Written(1 + k)' /\ layout.argv_base = layout.argv_base + args.ends[0]
      <3>1. 1 + k' = 0 + 1
        BY <2>2
      <3>. QED BY <2>2, <3>1, <1>base, <1>0, EndsType
    <2>. QED BY <2>2, <2>3, <1>2, <1>0 DEF IInv, Labels, Estimating
  <1>4. CASE WritePointer("argv", args.argc)
    <2>0. PICK n \in Nat : n = 1 + k
      BY <1>0
    <2>1. /\ Written(n) /\ uaddr = Value(n + 1) /\ n \in Nat /\ n < NW
          /\ uaddr = layout.argv_base + args.ends[k] /\ k < args.argc
      BY <1>0, <2>0, <1>4 DEF IInv, WritePointer, Value
    <2>2. /\ Written(n + 1)' /\ at' = "argv" /\ k' = k + 1 /\ uaddr' = uaddr + Len1(k + 1)
          /\ args' = args /\ layout' = layout
      BY <1>0, <2>0, <1>1, <1>4, <2>1, WriteWord, Zenon DEF WritePointer
    <2>3. Written(1 + k)'
      <3>1. 1 + k' = n + 1
        BY <2>2, <1>0, <2>0
      <3>. QED BY <2>2, <3>1, Zenon
    <2>4. uaddr' = layout.argv_base + args.ends[k + 1]
      <3>1. args.ends[k] \in Nat /\ args.ends[k + 1] \in Nat /\ k + 1 - 1 = k
        BY <1>0, <2>0, <2>1, EndsType
      <3>2. Len1(k + 1) = args.ends[k + 1] - args.ends[k]
        BY <1>0, <3>1 DEF Len1
      <3>. QED BY <2>1, <2>2, <1>base, <3>1, <3>2
    <2>5. k' \in Nat /\ k' <= args.argc
      BY <1>0, <2>0, <2>1, <2>2
    <2>. QED BY <2>2, <2>3, <2>4, <2>5, <1>2, <1>0, <2>0, Zenon DEF IInv, Labels, Estimating
  <1>5. CASE WriteArgvNull
    <2>0. PICK n \in Nat : n = 1 + k
      BY <1>0
    <2>1. /\ Written(n) /\ 0 = Value(n + 1) /\ n \in Nat /\ n < NW
          /\ k = args.argc
      BY <1>0, <2>0, <1>5 DEF IInv, WriteArgvNull, Value
    <2>2. /\ Written(n + 1)' /\ at' = "envp" /\ k' = k /\ uaddr' = layout.env_base
          /\ args' = args /\ layout' = layout
      BY <1>0, <2>0, <1>1, <1>5, <2>1, WriteWord, Zenon DEF WriteArgvNull
    <2>3. Written(2 + k)'
      <3>1. 2 + k' = n + 1
        BY <2>2, <1>0, <2>0
      <3>. QED BY <2>2, <3>1, Zenon
    <2>4. uaddr' = layout.env_base + (args.ends[k] - args.ends[args.argc])
      <3>1. layout.env_base \in Int
        BY <1>0, <2>0, <1>1, Places, EndsType, StackAssumption DEF LayoutExact
      <3>2. args.ends[k] \in Nat
        BY <1>0, <2>0, <2>1, EndsType
      <3>. QED BY <2>1, <2>2, <3>1, <3>2
    <2>. QED BY <2>1, <2>2, <2>3, <2>4, <1>2, <1>0, <2>0 DEF IInv, Labels, Estimating
  <1>6. CASE WritePointer("envp", Strings)
    <2>0. PICK n \in Nat : n = 2 + k
      BY <1>0
    <2>1. /\ Written(n) /\ k < Strings /\ args.argc <= k /\ at = "envp"
          /\ uaddr = layout.env_base + (args.ends[k] - args.ends[args.argc])
      BY <1>0, <2>0, <1>6, Zenon DEF IInv, WritePointer
    <2>2. uaddr = Value(n + 1) /\ n \in Nat /\ n < NW
      BY <1>0, <2>0, <2>1 DEF Value
    <2>3. /\ Written(n + 1)' /\ at' = "envp" /\ k' = k + 1 /\ uaddr' = uaddr + Len1(k + 1)
          /\ args' = args /\ layout' = layout
      BY <1>0, <2>0, <1>1, <1>6, <2>1, <2>2, WriteWord, Zenon DEF WritePointer
    <2>4. Written(2 + k)'
      <3>1. 2 + k' = n + 1
        BY <2>3, <1>0, <2>0
      <3>. QED BY <2>3, <3>1, Zenon
    <2>5. uaddr' = layout.env_base + (args.ends[k + 1] - args.ends[args.argc])
      <3>1. layout.env_base \in Int
        BY <1>0, <2>0, <1>1, Places, EndsType, StackAssumption DEF LayoutExact
      <3>2. /\ args.ends[k] \in Nat /\ args.ends[k + 1] \in Nat /\ k + 1 - 1 = k
            /\ args.ends[args.argc] \in Nat
        BY <1>0, <2>0, <2>1, EndsType
      <3>3. Len1(k + 1) = args.ends[k + 1] - args.ends[k]
        BY <1>0, <3>2 DEF Len1
      <3>. QED BY <2>1, <2>3, <3>1, <3>2, <3>3
    <2>6. k' \in Nat /\ k' <= Strings /\ args.argc <= k'
      BY <1>0, <2>0, <2>1, <2>3
    <2>. QED BY <2>3, <2>4, <2>5, <2>6, <1>2, <1>0, <2>0, Zenon DEF IInv, Labels, Estimating
  <1>7. CASE WriteEnvpNull
    <2>0. PICK n \in Nat : n = 2 + k
      BY <1>0
    <2>1. /\ Written(n) /\ 0 = Value(n + 1) /\ n \in Nat /\ n < NW
          /\ k = Strings
      BY <1>0, <2>0, <1>7 DEF IInv, WriteEnvpNull, Value
    <2>2. /\ Written(n + 1)' /\ at' = "auxv" /\ k' = 0 /\ args' = args /\ layout' = layout
      BY <1>0, <2>0, <1>1, <1>7, <2>1, WriteWord, Zenon DEF WriteEnvpNull
    <2>3. Written(3 + Strings + k)'
      <3>1. 3 + Strings' + k' = n + 1
        BY <2>1, <2>2, <1>0, <2>0, <1>2
      <3>. QED BY <2>2, <3>1, Zenon
    <2>. QED BY <2>2, <2>3, <1>2, <1>0, <2>0 DEF IInv, Labels, Estimating
  <1>8. CASE WriteAuxv
    <2>0. PICK n \in Nat : n = 3 + Strings + k
      BY <1>0
    <2>1. Written(n) /\ k < 16
      BY <1>0, <2>0, <1>8, AuxvLength, Zenon DEF IInv, WriteAuxv
    <2>2. /\ Auxv[k + 1] = Value(n + 1)
          /\ n \in Nat /\ n < NW
      <3>1. 3 + Strings + k + 1 - Strings - 3 = k + 1
        BY <1>0, <2>0
      <3>. QED BY <1>0, <2>0, <2>1, <3>1 DEF Value
    <2>3. /\ Written(n + 1)' /\ at' = "auxv" /\ k' = k + 1
          /\ args' = args /\ layout' = layout
      BY <1>0, <2>0, <1>1, <1>8, <2>1, <2>2, WriteWord, Zenon DEF WriteAuxv
    <2>4. Written(3 + Strings + k)'
      <3>1. 3 + Strings' + k' = n + 1
        BY <2>1, <2>3, <1>0, <2>0, <1>2
      <3>. QED BY <2>3, <3>1, Zenon
    <2>5. k' \in Nat /\ k' <= 16
      BY <1>0, <2>0, <2>1, <2>3
    <2>. QED BY <2>3, <2>4, <2>5, <1>2, <1>0, <2>0, Zenon DEF IInv, Labels, Estimating
  <1>9. CASE AuxvDone
    <2>1. /\ Written(3 + Strings + k) /\ k = 16 /\ at' = "strings" /\ k' = 0
          /\ args' = args /\ layout' = layout /\ UNCHANGED writer
      BY <1>0, <1>9, AuxvLength, Zenon DEF IInv, AuxvDone
    <2>2. Written(NW + k)'
      <3>1. NW' + k' = 3 + Strings + k
        BY <2>1, <1>0, <1>2
      <3>2. Written(3 + Strings + k)
        BY <2>1, Zenon
      <3>3. ASSUME NEW m, Written(m) PROVE Written(m)'
        <4>1. Items(m)' = Items(m) /\ Place(m + 1)' = Place(m + 1)
          BY <2>1, SameItems, Zenon
        <4>. QED BY <2>1, <3>3, <4>1, Zenon DEF Written, writer
      <3>. QED BY <3>1, <3>2, <3>3, Zenon
    <2>. QED BY <2>1, <2>2, <1>2, <1>0 DEF IInv, Labels, Estimating
  <1>10. CASE WriteString
    <2>0. PICK n \in Nat : n = NW + k
      BY <1>0, SMTT(60)
    <2>1. Written(n) /\ k < Strings
      BY <1>0, <2>0, <1>10, Zenon DEF IInv, WriteString
    <2>2. /\ k + 1 = Value(n + 1)
          /\ n \in Nat /\ n <= NW + Strings + 1
      BY <1>0, <2>0, <2>1 DEF Value
    <2>3. Len1(k + 1) = Place(n + 2) - Place(n + 1)
      <3>1. NW + k + 2 - NW - 1 = k + 1 /\ NW + k + 1 - NW - 1 = k /\ k + 1 - 1 = k
        BY <1>0, <2>0
      <3>2. Place(NW + k + 2) = 8 * NW + args.ends[k + 1]
        BY <1>0, <2>0, <2>1, <3>1 DEF Place
      <3>3. Place(NW + k + 1) = 8 * NW + args.ends[k]
        BY <1>0, <2>0, <2>1, <3>1 DEF Place
      <3>4. args.ends[k] \in Nat /\ args.ends[k + 1] \in Nat
        BY <1>0, <2>0, <2>1, EndsType
      <3>. QED BY <1>0, <2>0, <3>1, <3>2, <3>3, <3>4 DEF Len1
    <2>4. /\ Written(n + 1)' /\ at' = "strings" /\ k' = k + 1
          /\ args' = args /\ layout' = layout
      BY <1>0, <2>0, <1>1, <1>10, <2>1, <2>2, <2>3, WriteOne DEF WriteString
    <2>5. Written(NW + k)'
      <3>1. NW' + k' = n + 1
        BY <2>4, <1>0, <2>0, <1>2
      <3>. QED BY <2>4, <3>1, Zenon
    <2>6. k' \in Nat /\ k' <= Strings
      BY <1>0, <2>0, <2>1, <2>4
    <2>. QED BY <2>4, <2>5, <2>6, <1>2, <1>0, <2>0, Zenon DEF IInv, Labels, Estimating
  <1>11. CASE WriteRandom
    <2>0. PICK n \in Nat : n = NW + Strings
      BY <1>0, SMTT(60)
    <2>1. Written(n) /\ k = Strings
      BY <1>0, <2>0, <1>11, Zenon DEF IInv, WriteRandom
    <2>2. /\ Strings + 1 = Value(n + 1)
          /\ n \in Nat /\ n <= NW + Strings + 1
      BY <1>0, <2>0 DEF Value
    <2>3. RandomLen = Place(n + 2) - Place(n + 1)
      <3>1. NW + Strings + 1 - NW - 1 = Strings
        BY <1>0, <2>0
      <3>2. args.ends[Strings] \in Nat
        BY <1>0, <2>0, EndsType
      <3>3. Place(NW + Strings + 1) = 8 * NW + args.ends[Strings]
        BY <1>0, <3>1 DEF Place
      <3>4. Place(NW + Strings + 2) = 8 * NW + args.ends[Strings] + 16
        BY <1>0 DEF Place
      <3>. QED BY <1>0, <2>0, <3>2, <3>3, <3>4 DEF RandomLen
    <2>4. /\ Written(n + 1)' /\ at' = "align" /\ k' = k
          /\ args' = args /\ layout' = layout
      BY <1>0, <2>0, <1>1, <1>11, <2>1, <2>2, <2>3, WriteOne, Zenon DEF WriteRandom
    <2>. QED BY <2>4, <1>2, <1>0, <2>0, Zenon DEF IInv, Labels, Estimating
  <1>12. CASE WritePadding
    <2>0. PICK n \in Nat : n = NW + Strings + 1
      BY <1>0
    <2>1. Written(n)
      BY <1>0, <2>0, <1>12, Zenon DEF IInv, WritePadding
    <2>2. /\ 0 = Value(n + 1)
          /\ n \in Nat /\ n <= NW + Strings + 1
      BY <1>0, <2>0 DEF Value
    <2>3. Padding = Place(n + 2) - Place(n + 1)
      <3>1. length = 8 * NW + args.ends[Strings] + 16
        BY <1>0, <2>0, <2>1 DEF Written, Place
      <3>2. Place(n + 1) = length
        BY <2>1, Zenon DEF Written
      <3>3. Place(n + 2) = align_up16(length)
        BY <1>0, <2>0, <3>1 DEF Place
      <3>. QED BY <3>2, <3>3, Zenon DEF Padding
    <2>4. /\ Written(n + 1)' /\ at' = "finish" /\ k' = k
          /\ args' = args /\ layout' = layout
      BY <1>0, <2>0, <1>1, <1>12, <2>1, <2>2, <2>3, WriteOne, Zenon DEF WritePadding
    <2>5. Written(NW + Strings + 2)'
      <3>1. NW' + Strings' + 2 = n + 1
        BY <2>4, <1>0, <2>0, <1>2
      <3>. QED BY <2>4, <3>1, Zenon
    <2>. QED BY <2>4, <2>5, <1>2, <1>0, <2>0, Zenon DEF IInv, Labels, Estimating
  <1>. QED BY <1>3, <1>4, <1>5, <1>6, <1>7, <1>8, <1>9, <1>10, <1>11, <1>12, Zenon

LEMMA FinishPreserves ==
  ASSUME IInv, Finish
  PROVE  IInv'
  <1>0. StackArgsOK(args) /\ k \in Nat /\ LayoutExact /\ Written(NW + Strings + 2) /\ at = "finish"
    BY Zenon DEF IInv, Finish, Estimating
  <1>1. args' = args /\ layout' = layout /\ k' = k /\ UNCHANGED writer
    BY Zenon DEF Finish, Fail
  <1>2. StackArgsOK(args)' /\ LayoutExact' /\ k' \in Nat
    BY <1>0, <1>1, Kept, Zenon
  <1>3. CASE at' = "failed" /\ error' = "VmAreaWrite"
    BY <1>2, <1>3, Zenon DEF IInv, Labels, Estimating
  <1>4. CASE at' = "built"
    <2>1. Items(NW + Strings + 2)' = Items(NW + Strings + 2)
      BY <1>1 DEF Items, Item, Place, Value, NW, Strings, Auxv
    <2>2. Place(NW + Strings + 2 + 1)' = Place(NW + Strings + 2 + 1) /\ NW' = NW /\ Strings' = Strings
      BY <1>1, Zenon DEF Place, NW, Strings
    <2>3. Written(NW + Strings + 2)'
      BY <1>0, <1>1, <2>1, <2>2, Zenon DEF Written, writer
    <2>. QED BY <1>2, <1>4, <2>3, Zenon DEF IInv, Labels, Estimating
  <1>. QED BY <1>3, <1>4, Zenon DEF Finish, Fail

\* build_initial_stack keeps the invariant, whatever the arguments and the stack size.
THEOREM StackInvariance == StackSpec => []IInv
  <1>1. StackInit => IInv
    <2>. SUFFICES ASSUME StackInit PROVE IInv
      BY Zenon
    <2>1. StackArgsOK(args)
      BY StackAssumption, Zenon DEF StackInit
    <2>2. Written(0)
      <3>1. Place(0 + 1) = 0
        BY <2>1, Counts DEF Place
      <3>2. Items(0) = <<>>
        BY DEF Items
      <3>. QED BY <3>1, <3>2, StackAssumption DEF Written, StackInit
    <2>. QED BY <2>1, <2>2, Zenon DEF IInv, StackInit, Labels, Estimating
  <1>2. IInv /\ [StackNext]_stackVars => IInv'
    <2>. SUFFICES ASSUME IInv, [StackNext]_stackVars PROVE IInv'
      BY Zenon
    <2>1. CASE UNCHANGED stackVars
      <3>1. /\ args' = args /\ at' = at /\ k' = k /\ offset' = offset /\ env_offset' = env_offset
            /\ layout' = layout /\ uaddr' = uaddr /\ error' = error /\ UNCHANGED writer
        BY <2>1, Zenon DEF stackVars
      <3>2. ASSUME NEW m PROVE Written(m)' <=> Written(m)
        <4>1. Items(m)' = Items(m) /\ Place(m + 1)' = Place(m + 1)
          BY <3>1, SameItems, Zenon
        <4>. QED BY <3>1, <4>1, Zenon DEF Written, writer
      <3>3. /\ StackArgsOK(args)' <=> StackArgsOK(args)
            /\ LayoutExact' <=> LayoutExact
            /\ NW' = NW /\ Strings' = Strings
        BY <3>1, Kept, Zenon
      <3>. QED BY <3>1, <3>2, <3>3 DEF IInv
    <2>. QED BY <2>1, EstimatePreserves, WritePreserves, FinishPreserves, Zenon DEF StackNext
  <1>. QED BY <1>1, <1>2, PTL DEF StackSpec

-------------------------------------------------------------------------------
(* What the invariant gives                                                   *)

\* For every argument vector, environment and stack size: a stack that has been built is
\* exact.
THEOREM StackBuiltExact == StackSpec => []StackExact
  <1>1. IInv => StackExact
    <2>. SUFFICES ASSUME IInv, at = "built" PROVE StackExact
      BY Zenon DEF StackExact
    <2>0. /\ StackArgsOK(args) /\ LayoutExact /\ Written(NW + Strings + 2)
          /\ Strings \in Nat /\ args.argc \in Nat /\ args.argc <= Strings
          /\ NW = 19 + Strings /\ NumWords = NW /\ 3 + args.argc + args.envc = Strings + 3
      <3>1. StackArgsOK(args) /\ LayoutExact /\ Written(NW + Strings + 2)
        BY Zenon DEF IInv, Estimating
      <3>2. 3 + args.argc + args.envc = Strings + 3
        BY <3>1 DEF Strings, StackArgsOK
      <3>. QED BY <3>1, <3>2, Counts, Zenon
    <2>1. /\ Total \in Nat /\ Total % 16 = 0
          /\ length = Total /\ remaining = StackSize - Total
      <3>1. 8 * NW + args.ends[Strings] + 16 \in Nat
        BY <2>0, EndsType
      <3>2. Place(NW + Strings + 2 + 1) = Total
        BY <2>0 DEF Place, Total
      <3>. QED BY <2>0, <3>1, <3>2, AlignUp, Zenon DEF Written, Total
    <2>2. \A y \in 1..(NW + Strings + 2) : buf[y] = Item(y)
      BY <2>0, Zenon DEF Written, Items
    <2>3. DOMAIN buf = 1..(NW + Strings + 2)
      BY <2>0, Zenon DEF Written, Items
    <2>4. ASSUME NEW y \in 1..(NW + Strings + 2)
          PROVE  /\ buf[y].value = Value(y) /\ buf[y].at = Place(y)
                 /\ buf[y].at + buf[y].len = Place(y + 1)
      <3>0. buf[y] = [at |-> Place(y), len |-> Place(y + 1) - Place(y), value |-> Value(y)]
        BY <2>2, Zenon DEF Item
      <3>1. buf[y].value = Value(y) /\ buf[y].at = Place(y) /\ buf[y].len = Place(y + 1) - Place(y)
        BY <3>0
      <3>2. Place(y) \in Nat /\ Place(y + 1) \in Nat
        BY <2>0, Places
      <3>. QED BY <3>1, <3>2
    <2>5. \A x \in 0..Strings : Placed(NW + x + 1) = StackBase + StackSize - Total + (8 * NW + args.ends[x])
      <3>. SUFFICES ASSUME NEW x \in 0..Strings
                    PROVE  Placed(NW + x + 1) = StackBase + StackSize - Total + (8 * NW + args.ends[x])
        BY Zenon
      <3>1. NW + x + 1 \in 1..(NW + Strings + 2) /\ NW + x + 1 - NW - 1 = x
        BY <2>0
      <3>2. Place(NW + x + 1) = 8 * NW + args.ends[x]
        BY <2>0, <3>1 DEF Place
      <3>3. args.ends[x] \in Nat
        BY <2>0, EndsType, Zenon
      <3>. QED BY <2>0, <2>1, <2>4, <3>1, <3>2, <3>3, StackAssumption, Zenon DEF Placed
    <2>6. layout.sp = Placed(1) /\ layout.sp % 16 = 0
      <3>1. 1 \in 1..(NW + Strings + 2) /\ Place(1) = 0
        BY <2>0, Places
      <3>2. Placed(1) = StackBase + StackSize - Total
        BY <2>1, <2>4, <3>1, StackAssumption DEF Placed
      <3>3. (StackBase + StackSize - Total) % 16 = 0
        BY <2>1, StackAssumption
      <3>. QED BY <2>0, <3>2, <3>3, Zenon DEF LayoutExact
    <2>7. ASSUME NEW x \in 1..Strings
          PROVE  /\ buf[NW + x].value = x
                 /\ x <= args.argc => buf[1 + x].value = Placed(NW + x)
                 /\ x > args.argc => buf[2 + x].value = Placed(NW + x)
      <3>1. /\ NW + x \in 1..(NW + Strings + 2) /\ 1 + x \in 1..(NW + Strings + 2)
            /\ 2 + x \in 1..(NW + Strings + 2) /\ x - 1 \in 0..Strings /\ NW + (x - 1) + 1 = NW + x
            /\ 1 + x - 2 = x - 1 /\ 2 + x - 3 = x - 1 /\ x - 1 \in 0..Strings
        BY <2>0
      <3>2. Value(NW + x) = x
        BY <2>0 DEF Value
      <3>3. Placed(NW + x) = StackBase + StackSize - Total + (8 * NW + args.ends[x - 1])
        BY <2>5, <3>1, Zenon
      <3>4. args.ends[x - 1] \in Nat /\ args.ends[args.argc] \in Nat
        BY <2>0, <3>1, EndsType
      <3>5. x <= args.argc => Value(1 + x) = layout.argv_base + args.ends[x - 1]
        BY <2>0, <3>1 DEF Value
      <3>6. x > args.argc => Value(2 + x) = layout.env_base + (args.ends[x - 1] - args.ends[args.argc])
        BY <2>0, <3>1 DEF Value
      <3>7. layout.argv_base = StackBase + StackSize - Total + 8 * NW
        BY <2>0, Zenon DEF LayoutExact
      <3>8. layout.env_base = StackBase + StackSize - Total + (8 * NW + args.ends[args.argc])
        BY <2>0, Zenon DEF LayoutExact
      <3>9. x <= args.argc => Value(1 + x) = Placed(NW + x)
        BY <3>3, <3>4, <3>5, <3>7, <2>0, <2>1, StackAssumption
      <3>10. x > args.argc => Value(2 + x) = Placed(NW + x)
        BY <3>3, <3>4, <3>6, <3>8, <2>0, <2>1, StackAssumption
      <3>. QED BY <3>1, <3>2, <3>9, <3>10, <2>4, Zenon
    <2>8. /\ buf[1].value = args.argc /\ buf[2 + args.argc].value = 0
          /\ buf[Strings + 3].value = 0
      <3>1. /\ 1 \in 1..(NW + Strings + 2) /\ 2 + args.argc \in 1..(NW + Strings + 2)
            /\ Strings + 3 \in 1..(NW + Strings + 2)
        BY <2>0
      <3>2. Value(1) = args.argc /\ Value(2 + args.argc) = 0 /\ Value(Strings + 3) = 0
        BY <2>0 DEF Value
      <3>. QED BY <2>4, <3>1, <3>2, Zenon
    <2>9. /\ buf[Strings + 3 + 2].value = Placed(NW + 1 + Strings)
          /\ buf[Strings + 3 + 4].value = Placed(NW + 1)
      <3>1. /\ Strings + 3 + 2 \in 1..(NW + Strings + 2) /\ Strings + 3 + 4 \in 1..(NW + Strings + 2)
            /\ Strings + 3 + 2 - Strings - 3 = 2 /\ Strings + 3 + 4 - Strings - 3 = 4
            /\ NW + 1 + Strings = NW + Strings + 1 /\ NW + 1 = NW + 0 + 1
            /\ Strings \in 0..Strings /\ 0 \in 0..Strings
        BY <2>0
      <3>2. Value(Strings + 3 + 2) = Auxv[2] /\ Value(Strings + 3 + 4) = Auxv[4]
        BY <2>0, <3>1 DEF Value
      <3>3. Auxv[2] = layout.random_uaddr /\ Auxv[4] = layout.argv_base
        BY Zenon DEF Auxv
      <3>4. Placed(NW + 1 + Strings) = layout.random_uaddr
        BY <2>0, <2>5, <3>1, Zenon DEF LayoutExact
      <3>5. Placed(NW + 1) = StackBase + StackSize - Total + (8 * NW + args.ends[0])
        BY <2>5, <3>1, Zenon
      <3>6. Placed(NW + 1) = layout.argv_base
        BY <2>0, <2>1, <3>5, EndsType, StackAssumption DEF LayoutExact
      <3>. QED BY <2>4, <3>1, <3>2, <3>3, <3>4, <3>6, Zenon
    <2>10. \A y \in DOMAIN buf : buf[y].at + buf[y].len <= length
      BY <2>0, <2>1, <2>3, <2>4, Places
    <2>11. remaining + length = StackSize
      BY <2>1, StackAssumption
    <2>12. \A x \in 1..args.argc : buf[1 + x].value = Placed(NW + x) /\ buf[NW + x].value = x
      BY <2>0, <2>7
    <2>13. \A x \in (args.argc + 1)..Strings :
               buf[2 + x].value = Placed(NW + x) /\ buf[NW + x].value = x
      BY <2>0, <2>7
    <2>. QED BY <2>0, <2>6, <2>8, <2>9, <2>10, <2>11, <2>12, <2>13, Zenon DEF StackExact
  <1>. QED BY <1>1, StackInvariance, PTL

\* For every argument vector, environment and stack size: once the estimate has accepted
\* the arguments only the copy to the area can fail.
THEOREM EstimateSuffices == StackSpec => []EstimateCovers
  <1>1. IInv => EstimateCovers
    BY Zenon DEF IInv, EstimateCovers
  <1>. QED BY <1>1, StackInvariance, PTL

-------------------------------------------------------------------------------
(* PhysMemory                                                                 *)

\* Sequences.
LEMMA SeqElement ==
    ASSUME NEW S, NEW q \in Seq(S), NEW n \in 1..Len(q)
    PROVE  q[n] \in S
OBVIOUS

LEMMA SeqExcept ==
    ASSUME NEW S, NEW q \in Seq(S), NEW n \in 1..Len(q), NEW e \in S
    PROVE  /\ [q EXCEPT ![n] = e] \in Seq(S)
           /\ Len([q EXCEPT ![n] = e]) = Len(q)
           /\ \A m \in 1..Len(q) : [q EXCEPT ![n] = e][m] = IF m = n THEN e ELSE q[m]
OBVIOUS

rams == bootinfo.free_rams

\* The tail that the passes of bubble_sort have settled is sorted and above the rest;
\* within a pass, the entry at j is the largest so far.
SortInv ==
    /\ pc = "sort" /\ i < len => j <= len - i - 1
    /\ pc = "sort" => \A p, q \in 1..len :
        p < q /\ q > len - i => reserved[p].start <= reserved[q].start
    /\ pc = "sort" /\ j < len => \A p \in 1..j : reserved[p].start <= reserved[j + 1].start
    /\ pc # "sort" => \A p, q \in 1..len : p < q => reserved[p].start <= reserved[q].start

\* bubble_sort only permutes the ranges.
RangesKept ==
    /\ \A p \in 1..len : \E q \in DOMAIN bootinfo.reserved : reserved[p] = bootinfo.reserved[q]
    /\ \A q \in DOMAIN bootinfo.reserved : \E p \in 1..len : reserved[p] = bootinfo.reserved[q]

\* During a visit the cursor is past every reserved range visited so far.
VisitInv ==
    pc \in {"visit", "tail"} =>
        /\ ram \in DOMAIN rams
        /\ rams[ram].addr + rams[ram].size <= MaxUsize
        /\ rams[ram].addr <= cursor
        /\ end = CappedEnd(rams[ram].addr + rams[ram].size)
        /\ \A q \in 1..(res - 1) : reserved[q].end <= cursor
        /\ pc = "tail" => res <= len /\ reserved[res].start >= end

\* Region r lies in the free RAM m, of which the part up to the cursor is visited.
InVisited(r, m) ==
    /\ rams[m].addr + rams[m].size <= MaxUsize
    /\ rams[m].addr <= r.start
    /\ r.limit <= CappedEnd(rams[m].addr + rams[m].size)
    /\ \/ m < ram
       \/ m = ram /\ pc \in {"visit", "tail"} /\ r.limit <= cursor

RegionOK(r) ==
    /\ r.start < r.limit /\ r.start <= r.next /\ r.next <= r.limit
    /\ \A q \in DOMAIN bootinfo.reserved :
        r.limit <= bootinfo.reserved[q].start \/ bootinfo.reserved[q].end <= r.start
    /\ \E m \in DOMAIN rams : InVisited(r, m)

Apart(r, s) == r.limit <= s.start \/ s.limit <= r.start

RegionInv ==
    /\ \A w \in DOMAIN regions : RegionOK(regions[w])
    /\ \A w, m \in DOMAIN regions : w # m => Apart(regions[w], regions[m])

\* The blocks of a region lie between its next and its limit.
BlockInv ==
    /\ \A b \in blocks :
        /\ b.start < b.end /\ b.start % PageSize = 0
        /\ \E w \in DOMAIN regions : regions[w].next <= b.start /\ b.end <= regions[w].limit
    /\ \A b, c \in blocks : b # c => b.end <= c.start \/ c.end <= b.start

Inv == TypeOK /\ SortInv /\ RangesKept /\ VisitInv /\ RegionInv /\ BlockInv

-------------------------------------------------------------------------------
(* What the types say about the elements of the sequences.                    *)

\* Aligning down moves to a multiple of the alignment that is not above the value.
LEMMA AlignDown ==
    ASSUME NEW v \in Nat, NEW a \in Nat \ {0}
    PROVE  align_down(v, a) \in 0..v /\ align_down(v, a) % a = 0
<1>1. v % a \in 0..(a - 1) /\ v % a <= v
  OBVIOUS
<1>2. v \div a \in Nat /\ v = a * (v \div a) + (v % a)
  OBVIOUS
<1>3. (a * (v \div a)) % a = 0
  BY <1>2
<1>4. v - (v % a) = a * (v \div a)
  BY <1>1, <1>2
<1> QED  BY <1>1, <1>3, <1>4 DEF align_down

\* What PhysAssumption says of the bounds of the address space.
LEMMA Bounds == MaxUsize \in Nat /\ DirectMapEnd \in Nat /\ DirectMapEnd <= MaxUsize
BY PhysAssumption

\* Ranges and addresses have natural bounds.
LEMMA RangeType ==
    ASSUME NEW r \in RangesIn(MaxUsize)
    PROVE  r.start \in Nat /\ r.end \in Nat /\ r.start \in 0..MaxUsize /\ r.end \in 0..MaxUsize
BY Bounds DEF RangesIn

\* Addresses in a row.
LEMMA Chain ==
    ASSUME NEW a \in Nat, NEW b \in Nat, NEW c \in Nat, a <= b, b <= c
    PROVE  a <= c
OBVIOUS

\* The elements of a typed state: ranges, free RAMs and regions have natural bounds.
LEMMA Elements ==
    ASSUME TypeOK
    PROVE  /\ len \in Nat /\ DOMAIN reserved = 1..len
           /\ DOMAIN bootinfo.reserved = 1..len
           /\ \A p \in 1..len : /\ reserved[p] \in RangesIn(MaxUsize)
                                /\ bootinfo.reserved[p] \in RangesIn(MaxUsize)
                                /\ bootinfo.reserved[p].start <= bootinfo.reserved[p].end
           /\ Len(rams) \in Nat /\ DOMAIN rams = 1..Len(rams)
           /\ \A m \in DOMAIN rams : rams[m].addr \in 0..MaxUsize /\ rams[m].size \in 0..MaxUsize
           /\ \A m, n \in DOMAIN rams : m # n =>
                \/ rams[m].addr + rams[m].size <= rams[n].addr
                \/ rams[n].addr + rams[n].size <= rams[m].addr
           /\ Len(regions) \in Nat /\ DOMAIN regions = 1..Len(regions)
           /\ \A w \in DOMAIN regions :
                regions[w] \in [start : 0..MaxUsize, next : 0..MaxUsize, limit : 0..MaxUsize]
<1>1. BootMapOK(bootinfo)
  BY PhysAssumption, Zenon DEF TypeOK
<1> USE DEF TypeOK
<1>2. len \in Nat /\ DOMAIN reserved = 1..len
  BY DEF len
<1>3. \A p \in 1..len : reserved[p] \in RangesIn(MaxUsize)
  BY SeqElement, <1>2, Zenon DEF len
<1>4. /\ bootinfo.reserved \in Seq(RangesIn(MaxUsize)) /\ Len(bootinfo.reserved) = len
      /\ DOMAIN bootinfo.reserved = 1..len
  BY <1>1, <1>2 DEF BootMapOK
<1>5. \A p \in 1..len : /\ bootinfo.reserved[p] \in RangesIn(MaxUsize)
                        /\ bootinfo.reserved[p].start <= bootinfo.reserved[p].end
  BY <1>1, <1>4, SeqElement, Zenon DEF BootMapOK, RangeOK
<1>6. /\ rams \in Seq([addr : 0..MaxUsize, size : 0..MaxUsize])
      /\ Len(rams) \in Nat /\ DOMAIN rams = 1..Len(rams)
  BY <1>1 DEF BootMapOK, rams
<1>7. \A m \in DOMAIN rams : rams[m] \in [addr : 0..MaxUsize, size : 0..MaxUsize]
  BY <1>6, SeqElement, Zenon
<1>8. \A m, n \in DOMAIN rams : m # n =>
        \/ rams[m].addr + rams[m].size <= rams[n].addr
        \/ rams[n].addr + rams[n].size <= rams[m].addr
  BY <1>1, Zenon DEF BootMapOK, rams
<1>9. Len(regions) \in Nat /\ DOMAIN regions = 1..Len(regions)
  OBVIOUS
<1>10. \A w \in DOMAIN regions :
        regions[w] \in [start : 0..MaxUsize, next : 0..MaxUsize, limit : 0..MaxUsize]
  BY <1>9, SeqElement, Zenon
<1>11. \A m \in DOMAIN rams : rams[m].addr \in 0..MaxUsize /\ rams[m].size \in 0..MaxUsize
  BY <1>7, Zenon
<1> QED  BY <1>2, <1>3, <1>4, <1>5, <1>6, <1>8, <1>9, <1>10, <1>11, ZenonT(60)

\* The end of a visit is within the direct map.
LEMMA Capped ==
    ASSUME NEW e \in 0..MaxUsize
    PROVE  CappedEnd(e) \in 0..MaxUsize /\ CappedEnd(e) <= e /\ CappedEnd(e) <= DirectMapEnd
BY PhysAssumption DEF CappedEnd

-------------------------------------------------------------------------------
(* The inductive invariant holds initially.                                   *)

\* The state in which memory::init() starts satisfies the invariant.
LEMMA InitInv == Init => Inv
<1> SUFFICES ASSUME Init PROVE Inv
  BY Zenon
<1>1. BootMapOK(bootinfo)
  BY PhysAssumption, Zenon DEF Init
<1>2. TypeOK
  <2>1. len \in Nat /\ reserved \in Seq(RangesIn(MaxUsize)) /\ len = Len(bootinfo.reserved)
    BY <1>1 DEF Init, BootMapOK, len
  <2>2. Len(bootinfo.free_rams) \in Nat
    BY <1>1 DEF BootMapOK
  <2> QED  BY <2>1, <2>2, PhysAssumption DEF Init, TypeOK
<1>3. SortInv
  BY <1>2, Elements DEF Init, SortInv
<1>4. RangesKept
  BY <1>2, Elements, Zenon DEF Init, RangesKept
<1>5. VisitInv /\ RegionInv /\ BlockInv
  BY DEF Init, VisitInv, RegionInv, BlockInv
<1> QED  BY <1>2, <1>3, <1>4, <1>5, Zenon DEF Inv

-------------------------------------------------------------------------------
(* bubble_sort keeps the invariant.                                           *)

\* slice::swap exchanges two elements and keeps the others.
LEMMA SwappedSeq ==
    ASSUME NEW S, NEW s \in Seq(S), NEW a \in 1..Len(s), NEW b \in 1..Len(s), a # b
    PROVE  /\ Swapped(s, a, b) \in Seq(S)
           /\ Len(Swapped(s, a, b)) = Len(s)
           /\ Swapped(s, a, b)[a] = s[b]
           /\ Swapped(s, a, b)[b] = s[a]
           /\ \A p \in 1..Len(s) \ {a, b} : Swapped(s, a, b)[p] = s[p]
<1> DEFINE t == [s EXCEPT ![a] = s[b]]
<1>1. s[a] \in S /\ s[b] \in S
  BY SeqElement, Zenon
<1>2. /\ t \in Seq(S) /\ Len(t) = Len(s)
      /\ \A p \in 1..Len(s) : t[p] = IF p = a THEN s[b] ELSE s[p]
  BY <1>1, SeqExcept
<1>3. Swapped(s, a, b) = [t EXCEPT ![b] = s[a]]
  BY Zenon DEF Swapped
<1> HIDE DEF t
<1> QED  BY <1>1, <1>2, <1>3, SeqExcept

\* One comparison of bubble_sort keeps the invariant.
LEMMA SortInnerInv == Inv /\ SortInner => Inv'
<1> SUFFICES ASSUME Inv, SortInner PROVE Inv'
  BY Zenon
<1>1. TypeOK /\ SortInv /\ RangesKept /\ RegionInv /\ BlockInv /\ pc = "sort"
  BY Zenon DEF Inv, SortInner
<1>2. /\ len \in Nat /\ i \in Nat /\ j \in Nat
      /\ i < len /\ j < len - i - 1 /\ j + 1 \in 1..len /\ j + 2 \in 1..len
  <2>1. len \in Nat /\ i \in 0..len /\ j \in 0..len
    BY <1>1, Elements, Zenon DEF TypeOK
  <2>2. i < len /\ j < len - i - 1
    BY Zenon DEF SortInner, InnerBound
  <2> QED  BY ONLY <2>1, <2>2
<1>3. \A p \in 1..len : reserved[p].start \in Nat
  BY <1>1, Elements, PhysAssumption DEF RangesIn
<1> DEFINE big == reserved[j + 1].start > reserved[j + 2].start
           swap == [p \in 1..len |-> IF big /\ p = j + 1 THEN j + 2
                                     ELSE IF big /\ p = j + 2 THEN j + 1 ELSE p]
<1>4. /\ reserved' \in Seq(RangesIn(MaxUsize)) /\ len' = len
      /\ \A p \in 1..len : reserved'[p] = reserved[swap[p]]
  <2>1. reserved \in Seq(RangesIn(MaxUsize)) /\ j + 1 \in 1..Len(reserved)
        /\ j + 2 \in 1..Len(reserved) /\ j + 1 # j + 2
    BY <1>1, <1>2 DEF TypeOK, len
  <2>2. CASE big
    <3>1. reserved' = Swapped(reserved, j + 1, j + 2)
      BY <2>2, Zenon DEF SortInner
    <3>2. ASSUME NEW a \in 1..Len(reserved), NEW b \in 1..Len(reserved), a # b
          PROVE  /\ Swapped(reserved, a, b) \in Seq(RangesIn(MaxUsize))
                 /\ Len(Swapped(reserved, a, b)) = Len(reserved)
                 /\ Swapped(reserved, a, b)[a] = reserved[b]
                 /\ Swapped(reserved, a, b)[b] = reserved[a]
                 /\ \A p \in 1..Len(reserved) \ {a, b} : Swapped(reserved, a, b)[p] = reserved[p]
      BY <2>1, <3>2, SwappedSeq
    <3>3. /\ reserved' \in Seq(RangesIn(MaxUsize)) /\ Len(reserved') = Len(reserved)
          /\ reserved'[j + 1] = reserved[j + 2] /\ reserved'[j + 2] = reserved[j + 1]
          /\ \A p \in 1..Len(reserved) \ {j + 1, j + 2} : reserved'[p] = reserved[p]
      BY ONLY <2>1, <3>1, <3>2
    <3> QED  BY <2>1, <2>2, <3>3, <1>2, Zenon DEF len
  <2>3. CASE ~big
    BY <2>1, <2>3, <1>2, Zenon DEF SortInner, len
  <2> QED  BY <2>2, <2>3, Zenon
<1>a. /\ \A p \in 1..len : swap[p] \in 1..len /\ swap[swap[p]] = p
      /\ \A p \in 1..len : p # j + 1 /\ p # j + 2 => swap[p] = p
      /\ swap[j + 1] \in {j + 1, j + 2} /\ swap[j + 2] \in {j + 1, j + 2}
      /\ reserved[swap[j + 1]].start <= reserved[swap[j + 2]].start
      /\ reserved[j + 1].start <= reserved[swap[j + 2]].start
  BY <1>2, <1>3
<1> HIDE DEF swap
<1>5. /\ j' = j + 1
      /\ UNCHANGED <<bootinfo, pc, i, ram, res, cursor, end, regions, blocks, given>>
  BY Zenon DEF SortInner, visitVars
<1>6. TypeOK'
  BY <1>1, <1>2, <1>4, <1>5 DEF TypeOK
<1>7. SortInv'
  <2>1. ASSUME NEW p \in 1..len, NEW q \in 1..len, p < q, q > len - i
        PROVE  reserved'[p].start <= reserved'[q].start
    <3>1. swap[q] = q /\ swap[p] \in 1..len /\ swap[p] < q
      BY <2>1, <1>2, <1>a
    <3> QED  BY <2>1, <3>1, <1>1, <1>4, Zenon DEF SortInv
  <2>2. ASSUME NEW p \in 1..(j + 1)
        PROVE  reserved'[p].start <= reserved'[j + 2].start
    <3>1. CASE p = j + 1
      BY <3>1, <1>2, <1>4, <1>a, Zenon
    <3>2. CASE p # j + 1
      <4>1. p \in 1..j /\ p \in 1..len /\ swap[p] = p
        BY <3>2, <1>2, <1>a
      <4>2. reserved[p].start <= reserved[j + 1].start
        BY <4>1, <1>1, <1>2 DEF SortInv
      <4>3. swap[j + 2] \in 1..len
        BY <1>2, <1>a, Zenon
      <4>4. reserved'[p] = reserved[p] /\ reserved'[j + 2] = reserved[swap[j + 2]]
        BY <4>1, <1>2, <1>4, Zenon
      <4>5. /\ reserved[p].start \in Nat /\ reserved[j + 1].start \in Nat
            /\ reserved[swap[j + 2]].start \in Nat
        BY <4>1, <4>3, <1>2, <1>3, Zenon
      <4> QED  BY <4>2, <4>4, <4>5, <1>a
    <3> QED  BY <3>1, <3>2, Zenon
  <2> QED  BY <2>1, <2>2, <1>1, <1>2, <1>4, <1>5 DEF SortInv
<1>8. RangesKept'
  <2>1. ASSUME NEW p \in 1..len
        PROVE  \E q \in DOMAIN bootinfo.reserved : reserved'[p] = bootinfo.reserved[q]
    BY <1>a, <1>1, <1>4, SMTT(15) DEF RangesKept
  <2>2. ASSUME NEW q \in DOMAIN bootinfo.reserved
        PROVE  \E p \in 1..len : reserved'[p] = bootinfo.reserved[q]
    <3>1. PICK p \in 1..len : reserved[p] = bootinfo.reserved[q]
      BY <1>1, Zenon DEF RangesKept
    <3>2. swap[p] \in 1..len /\ reserved'[swap[p]] = reserved[p]
      BY <1>a, <1>4
    <3> QED  BY <3>1, <3>2, Zenon
  <2> QED  BY <2>1, <2>2, <1>4, <1>5 DEF RangesKept
<1>9. VisitInv' /\ RegionInv' /\ BlockInv'
  <2>1. VisitInv' /\ BlockInv'
    BY <1>1, <1>5, Zenon DEF VisitInv, BlockInv
  <2>2. RegionInv'
    BY <1>1, <1>5 DEF RegionInv, RegionOK, InVisited, Apart, rams, CappedEnd
  <2> QED  BY <2>1, <2>2, Zenon
<1> QED  BY <1>6, <1>7, <1>8, <1>9, Zenon DEF Inv

\* The end of a pass of bubble_sort settles one more element.
LEMMA SortOuterInv == Inv /\ (SortOuter \/ SortDone) => Inv'
<1> SUFFICES ASSUME Inv, SortOuter \/ SortDone PROVE Inv'
  BY Zenon
<1>1. TypeOK /\ SortInv /\ RangesKept /\ RegionInv /\ BlockInv /\ pc = "sort"
  BY Zenon DEF Inv, SortOuter, SortDone
<1>2. /\ UNCHANGED <<bootinfo, reserved, ram, res, cursor, end, regions, blocks, given>>
      /\ len' = len
      /\ pc' \in {"sort", "ram"}
  BY <1>1, Zenon DEF SortOuter, SortDone, sortVars, visitVars, len
<1>3. len \in Nat /\ i \in 0..len /\ j \in 0..len /\ \A p \in 1..len : reserved[p].start \in Nat
  <2>1. len \in Nat /\ i \in 0..len /\ j \in 0..len
    BY <1>1, Elements, ZenonT(60) DEF TypeOK
  <2>2. \A p \in 1..len : reserved[p].start \in Nat
    <3>1. \A p \in 1..len : reserved[p] \in RangesIn(MaxUsize)
      BY <1>1, Elements, Zenon
    <3> QED  BY <3>1, RangeType, Zenon
  <2> QED  BY <2>1, <2>2, Zenon
<1>4. TypeOK'
  <2>1. i' \in 0..len /\ j' \in 0..len
    <3>1. (j' = j /\ i' = i) \/ (i < len /\ i' = i + 1 /\ j' = 0)
      BY Zenon DEF SortOuter, SortDone, sortVars
    <3> QED  BY ONLY <1>3, <3>1
  <2> QED  BY <1>1, <1>2, <2>1, ZenonT(60) DEF TypeOK
<1>5. SortInv'
  <2>1. CASE SortOuter
    <3>1. j = len - i - 1 /\ i < len /\ i' = i + 1 /\ j' = 0 /\ pc' = "sort"
      BY <2>1, <1>1, <1>3 DEF SortOuter, InnerBound, SortInv
    <3>2. \A p \in 1..(len - i - 1) : reserved[p].start <= reserved[len - i].start
      BY <3>1, <1>1, <1>3 DEF SortInv
    <3>3. \A p, q \in 1..len : p < q /\ q > len - (i + 1) =>
              reserved[p].start <= reserved[q].start
      BY <3>2, <1>1, <1>3 DEF SortInv
    <3>4. i + 1 < len => 0 <= len - (i + 1) - 1
      BY ONLY <1>3
    <3>5. ~\E p \in 1..0 : TRUE
      OBVIOUS
    <3> QED  BY <3>1, <3>3, <3>4, <3>5, <1>2, ZenonT(60) DEF SortInv
  <2>2. CASE SortDone
    BY <2>2, <1>1, <1>2, <1>3 DEF SortDone, SortInv
  <2> QED  BY <2>1, <2>2, Zenon
<1>6. RangesKept' /\ BlockInv' /\ VisitInv'
  BY <1>1, <1>2, Zenon DEF RangesKept, BlockInv, VisitInv
<1>7. RegionInv'
  BY <1>1, <1>2 DEF RegionInv, RegionOK, InVisited, Apart, rams, CappedEnd
<1> QED  BY <1>4, <1>5, <1>6, <1>7, Zenon DEF Inv

-------------------------------------------------------------------------------
(* visit_unused_regions keeps the invariant.                                  *)

RegionType == [start : 0..MaxUsize, next : 0..MaxUsize, limit : 0..MaxUsize]

\* The visit moves on to the next free RAM, or its cursor moves up.
Onward ==
    /\ UNCHANGED bootinfo
    /\ \/ ram' = ram + 1
       \/ ram' = ram /\ pc \in {"visit", "tail"} /\ pc' \in {"visit", "tail"} /\ cursor' >= cursor
       \/ ram' = ram /\ pc = "ram"

\* What was visited stays visited.
LEMMA StaysOK ==
    ASSUME TypeOK, TypeOK', Onward, NEW r \in RegionType, RegionOK(r)
    PROVE  RegionOK(r)'
<1>1. PICK m \in DOMAIN rams : InVisited(r, m)
  BY Zenon DEF RegionOK
<1>a. Len(rams) \in Nat /\ DOMAIN rams = 1..Len(rams)
  BY Elements, ZenonT(60)
<1>b. ram \in Int /\ m \in Int /\ rams' = rams
  <2>1. rams' = rams /\ ram \in 1..(Len(rams) + 1)
    BY Zenon DEF TypeOK, Onward, rams
  <2> QED  BY ONLY <1>1, <1>a, <2>1
<1>c. cursor \in Int /\ cursor' \in Int /\ r.limit \in Int
  BY PhysAssumption DEF TypeOK, RegionType
<1>2. /\ ram \in Int /\ cursor \in Int /\ cursor' \in Int /\ r.limit \in Int /\ m \in Int
      /\ rams' = rams
  BY <1>b, <1>c, Zenon
<1>3. InVisited(r, m)'
  <2>1. m < ram \/ (m = ram /\ pc \in {"visit", "tail"} /\ r.limit <= cursor)
    BY <1>1, Zenon DEF InVisited
  <2>2. \/ ram' = ram + 1
        \/ ram' = ram /\ pc \in {"visit", "tail"} /\ pc' \in {"visit", "tail"} /\ cursor' >= cursor
        \/ ram' = ram /\ pc = "ram"
    BY Zenon DEF Onward
  <2>3. m < ram' \/ (m = ram' /\ pc' \in {"visit", "tail"} /\ r.limit <= cursor')
    BY ONLY <1>2, <2>1, <2>2
  <2> QED  BY <1>1, <1>2, <2>3, ZenonT(60) DEF InVisited, CappedEnd
<1> QED  BY <1>2, <1>3, ZenonT(60) DEF RegionOK, Onward

\* Steps that add no region.
LEMMA SameRegions ==
    ASSUME TypeOK, TypeOK', Onward, RegionInv, BlockInv, UNCHANGED <<regions, blocks>>
    PROVE  RegionInv' /\ BlockInv'
<1>1. \A w \in DOMAIN regions : regions[w] \in RegionType
  BY Elements, Zenon DEF RegionType
<1>2. \A w \in DOMAIN regions : RegionOK(regions[w])'
  BY <1>1, StaysOK, Zenon DEF RegionInv
<1> QED  BY <1>2, ZenonT(60) DEF RegionInv, BlockInv, Apart

\* A region added from the cursor on, up to at most the end of the free RAM, with no
\* reserved range in it, overlaps no other region.
LEMMA NewRegion ==
    ASSUME TypeOK, TypeOK', Onward, VisitInv, RegionInv, BlockInv,
           pc \in {"visit", "tail"}, UNCHANGED blocks,
           NEW e \in 0..MaxUsize, cursor < e, e <= end, AddRegion(cursor, e),
           \A q \in 1..len : e <= reserved[q].start \/ reserved[q].end <= cursor,
           RangesKept, ram' = ram => e <= cursor'
    PROVE  RegionInv' /\ BlockInv'
<1> DEFINE n == Len(regions)
<1>1. CASE regions' = regions
  BY <1>1, SameRegions, Zenon
<1>2. CASE regions' # regions
  <2>1. PICK new \in RegionType : new = [start |-> cursor, next |-> e, limit |-> e]
    BY Zenon DEF TypeOK, RegionType
  <2>2. PICK m \in DOMAIN rams : m = ram
    BY Zenon DEF VisitInv
  <2>3. regions' = Append(regions, new)
    BY <1>2, <2>1, Zenon DEF AddRegion
  <2>4. /\ n \in Nat /\ DOMAIN regions = 1..n
        /\ \A w \in DOMAIN regions : regions[w] \in RegionType
    BY Elements, Zenon DEF RegionType
  <2>5. /\ DOMAIN regions' = 1..(n + 1)
        /\ \A w \in 1..n : regions'[w] = regions[w]
        /\ regions'[n + 1] = new
    <3>1. regions \in Seq(RegionType)
      BY Zenon DEF TypeOK, RegionType
    <3>2. /\ DOMAIN Append(regions, new) = 1..(Len(regions) + 1)
          /\ Append(regions, new)[Len(regions) + 1] = new
          /\ \A w \in 1..Len(regions) : Append(regions, new)[w] = regions[w]
      BY ONLY <3>1, new \in RegionType, Appended
    <3> QED  BY <2>3, <3>2, Zenon
  <2>6. /\ rams[m].addr + rams[m].size <= MaxUsize /\ rams[m].addr <= cursor
        /\ end = CappedEnd(rams[m].addr + rams[m].size)
        /\ rams' = rams
    BY <2>2, Zenon DEF VisitInv, Onward, rams
  <2>7. InVisited(new, m)'
    <3>1. m < ram' \/ (m = ram' /\ pc' \in {"visit", "tail"} /\ new.limit <= cursor')
      <4>1. ram \in Int
        <5>1. ram \in 1..(Len(bootinfo.free_rams) + 1)
          BY Zenon DEF TypeOK
        <5> QED  BY ONLY <5>1
      <4>2. new.limit = e /\ m < m + 1
        <5>1. ram < ram + 1
          BY <4>1, LessThanNext, Zenon
        <5> QED  BY <2>1, <2>2, <5>1, Zenon
      <4> QED  BY <4>2, <2>2, Zenon DEF Onward
    <3> QED  BY <3>1, <2>1, <2>2, <2>6, Zenon DEF InVisited, CappedEnd
  <2>8. RegionOK(new)'
    <3>1. \A q \in DOMAIN bootinfo.reserved :
            e <= bootinfo.reserved[q].start \/ bootinfo.reserved[q].end <= cursor
      BY Zenon DEF RangesKept
    <3>2. new.start < new.limit /\ new.start <= new.next /\ new.next <= new.limit
      <4>1. MaxUsize \in Nat /\ cursor \in 0..MaxUsize
        BY Bounds, Zenon DEF TypeOK
      <4>2. cursor <= e /\ e <= e
        BY <4>1, NotAbove, Zenon
      <4>3. new.start = cursor /\ new.next = e /\ new.limit = e
        BY <2>1, Zenon
      <4> QED  BY <4>2, <4>3, Zenon
    <3> QED  BY <3>1, <3>2, <2>1, <2>2, <2>6, <2>7, Zenon DEF RegionOK, Onward
  <2>9. \A w \in DOMAIN regions : RegionOK(regions[w]) /\ Apart(regions[w], new)
    <3> SUFFICES ASSUME NEW w \in DOMAIN regions PROVE Apart(regions[w], new)
      BY Zenon DEF RegionInv
    <3>1. PICK p \in DOMAIN rams : InVisited(regions[w], p)
      BY Zenon DEF RegionInv, RegionOK
    <3>2. CASE p = m
      <4>1. ~(ram < ram)
        <5>1. ram \in 1..(Len(bootinfo.free_rams) + 1)
          BY Zenon DEF TypeOK
        <5> QED  BY ONLY <5>1
      <4>2. regions[w].limit <= cursor
        BY <2>2, <3>1, <3>2, <4>1, Zenon DEF InVisited
      <4> QED  BY <2>1, <4>2, Zenon DEF Apart
    <3>3. CASE p # m
      <4>1. /\ rams[p].addr \in Nat /\ rams[p].size \in Nat
            /\ rams[m].addr \in Nat /\ rams[m].size \in Nat
        BY Elements, Bounds
      <4>a. \/ rams[m].addr + rams[m].size <= rams[p].addr
            \/ rams[p].addr + rams[p].size <= rams[m].addr
        BY <3>3, Elements, Zenon
      <4>b. /\ regions[w].start \in Nat /\ regions[w].limit \in Nat
        BY <2>4, Bounds DEF RegionType
      <4>c. cursor \in Nat /\ e \in Nat /\ end \in Nat
        BY Bounds DEF TypeOK
      <4>2. /\ regions[w].limit <= rams[p].addr + rams[p].size
            /\ rams[p].addr <= regions[w].start
        <5>1. rams[p].addr + rams[p].size \in 0..MaxUsize
          BY <3>1, <4>1, Bounds DEF InVisited
        <5> QED  BY <5>1, <3>1, <4>1, <4>b, Bounds, Capped DEF InVisited
      <4>3. e <= rams[m].addr + rams[m].size
        <5>1. rams[m].addr + rams[m].size \in 0..MaxUsize
          BY <2>6, <4>1, Bounds
        <5> QED  BY <5>1, <2>6, <4>1, <4>c, Bounds, Capped
      <4>4. regions[w].limit <= cursor \/ e <= regions[w].start
        <5>1. rams[m].addr + rams[m].size \in Nat /\ rams[p].addr + rams[p].size \in Nat
          BY ONLY <4>1
        <5>2. rams[m].addr <= cursor
          BY <2>6, Zenon
        <5>3. CASE rams[m].addr + rams[m].size <= rams[p].addr
          <6>1. e <= rams[p].addr
            BY <4>1, <4>c, <4>3, <5>1, <5>3, Chain, Zenon
          <6>2. e <= regions[w].start
            BY <4>1, <4>b, <4>c, <4>2, <6>1, Chain, Zenon
          <6> QED  BY <6>2, Zenon
        <5>4. CASE rams[p].addr + rams[p].size <= rams[m].addr
          <6>1. regions[w].limit <= rams[m].addr
            BY <4>1, <4>b, <4>2, <5>1, <5>4, Chain, Zenon
          <6>2. regions[w].limit <= cursor
            BY <4>1, <4>b, <4>c, <5>2, <6>1, Chain, Zenon
          <6> QED  BY <6>2, Zenon
        <5> QED  BY <4>a, <5>3, <5>4, Zenon
      <4>5. new.start = cursor /\ new.limit = e
        BY <2>1
      <4> QED  BY <4>4, <4>5, Zenon DEF Apart
    <3> QED  BY <3>2, <3>3, Zenon
  <2>10. ASSUME NEW w \in DOMAIN regions PROVE RegionOK(regions[w])'
    <3>1. PICK r \in RegionType : r = regions[w]
      BY <2>4, Zenon
    <3>2. RegionOK(r)' /\ r = regions'[w]
      BY <3>1, <2>4, <2>5, <2>9, StaysOK, ZenonT(60)
    <3> QED  BY <3>2, Zenon DEF RegionOK, InVisited
  <2>11. RegionInv'
    <3>1. \A w \in DOMAIN regions' : RegionOK(regions[w])'
      BY <2>4, <2>5, <2>8, <2>10
    <3>2. \A w, l \in DOMAIN regions' : w # l => Apart(regions'[w], regions'[l])
      BY <2>4, <2>5, <2>9 DEF RegionInv, Apart
    <3> QED  BY <3>1, <3>2, Zenon DEF RegionInv, Apart
  <2>12. BlockInv'
    BY <2>4, <2>5 DEF BlockInv
  <2> QED  BY <2>11, <2>12, Zenon
<1> QED  BY <1>1, <1>2, Zenon

\* Every length of regions' stays within the capacity.
LEMMA AddRegionType ==
    ASSUME TypeOK, NEW c \in 0..MaxUsize, NEW e \in 0..MaxUsize, AddRegion(c, e)
    PROVE  regions' \in Seq(RegionType) /\ Len(regions') <= MaxRegions
<1>1. regions \in Seq(RegionType) /\ Len(regions) <= MaxRegions /\ MaxRegions \in Nat
  BY PhysAssumption, Zenon DEF TypeOK, RegionType
<1>2. [start |-> c, next |-> e, limit |-> e] \in RegionType
  BY Zenon DEF RegionType
<1> QED  BY <1>1, <1>2 DEF AddRegion

\* Starting on the next free RAM keeps the invariant.
LEMMA VisitRamInv == Inv /\ (VisitRam \/ InitDone) => Inv'
<1> SUFFICES ASSUME Inv, VisitRam \/ InitDone PROVE Inv'
  BY Zenon
<1>1. TypeOK /\ SortInv /\ RangesKept /\ RegionInv /\ BlockInv /\ pc = "ram"
  BY Zenon DEF Inv, VisitRam, InitDone
<1>2. UNCHANGED <<bootinfo, reserved, i, j, regions, blocks, given, len, rams>>
  BY Zenon DEF VisitRam, InitDone, sortVars, len, rams
<1>3. /\ Len(rams) \in Nat /\ DOMAIN rams = 1..Len(rams) /\ ram \in 1..(Len(rams) + 1)
      /\ len \in Nat
  BY <1>1, Elements DEF TypeOK, rams
<1>4. CASE VisitRam
  <2>1. ram \in DOMAIN rams
    BY <1>3, <1>4 DEF VisitRam, rams
  <2>2. rams[ram].addr \in 0..MaxUsize /\ rams[ram].size \in 0..MaxUsize
    BY <1>1, <2>1, Elements, ZenonT(60)
  <2>3. CASE rams[ram].addr + rams[ram].size > MaxUsize
    <3>1. ram' = ram + 1 /\ UNCHANGED <<pc, res, cursor, end>>
      <4>1. ~(rams[ram].addr + rams[ram].size <= MaxUsize)
        BY <2>2, <2>3, Bounds, Ordered, Zenon
      <4> QED  BY <1>4, <4>1, Zenon DEF VisitRam, rams
    <3>2. TypeOK'
      <4>1. ram + 1 \in 1..(Len(rams) + 1)
        BY <1>3, <2>1, NextIn, Zenon
      <4> QED  BY <1>1, <1>2, <3>1, <4>1, ZenonT(60) DEF TypeOK, rams
    <3>3. VisitInv' /\ SortInv'
      BY <1>1, <1>2, <3>1, Zenon DEF VisitInv, SortInv
    <3>4. Onward
      BY <1>2, <3>1, Zenon DEF Onward
    <3> QED  BY <1>1, <1>2, <3>2, <3>3, <3>4, SameRegions, Zenon DEF Inv, RangesKept
  <2>4. CASE rams[ram].addr + rams[ram].size <= MaxUsize
    <3>1. /\ UNCHANGED ram /\ pc' = "visit" /\ res' = 1 /\ cursor' = rams[ram].addr
          /\ end' = CappedEnd(rams[ram].addr + rams[ram].size)
      <4>1. ~(rams[ram].addr + rams[ram].size > MaxUsize)
        BY <2>2, <2>4, Bounds, Ordered, Zenon
      <4> QED  BY <1>4, <4>1, Zenon DEF VisitRam, rams
    <3>2. cursor' \in 0..MaxUsize /\ end' \in 0..MaxUsize
      BY <2>2, <2>4, <3>1, Bounds, Capped
    <3>3. TypeOK'
      BY <1>1, <1>2, <1>3, <3>1, <3>2 DEF TypeOK, rams
    <3>4. VisitInv' /\ SortInv'
      BY <1>1, <1>2, <2>1, <2>2, <2>4, <3>1, Bounds DEF VisitInv, SortInv, CappedEnd
    <3>5. Onward
      BY <1>1, <1>2, <3>1 DEF Onward
    <3> QED  BY <1>1, <1>2, <3>3, <3>4, <3>5, SameRegions, Zenon DEF Inv, RangesKept
  <2> QED  BY <2>2, <2>3, <2>4, Bounds
<1>5. CASE InitDone
  <2>1. pc' = "ready" /\ UNCHANGED <<ram, res, cursor, end>>
    BY <1>5, Zenon DEF InitDone, visitVars
  <2>2. TypeOK' /\ VisitInv' /\ SortInv'
    BY <1>1, <1>2, <2>1 DEF TypeOK, VisitInv, SortInv
  <2>3. Onward
    BY <1>1, <1>2, <2>1, Zenon DEF Onward
  <2> QED  BY <1>1, <1>2, <2>2, <2>3, SameRegions, Zenon DEF Inv, RangesKept
<1> QED  BY <1>4, <1>5

\* Passing a reserved range adds only the memory below it that no range covers.
LEMMA VisitReservedInv == Inv /\ VisitReserved => Inv'
<1> SUFFICES ASSUME Inv, VisitReserved PROVE Inv'
  BY Zenon
<1>1. /\ TypeOK /\ SortInv /\ RangesKept /\ VisitInv /\ RegionInv /\ BlockInv
      /\ pc = "visit" /\ res <= len
  BY Zenon DEF Inv, VisitReserved
<1>2. UNCHANGED <<bootinfo, reserved, i, j, end, blocks, given, len, rams>>
  BY Zenon DEF VisitReserved, sortVars, len, rams
<1>3. /\ len \in Nat /\ res \in 1..len /\ ram \in DOMAIN rams /\ DOMAIN rams = 1..Len(rams)
      /\ Len(rams) \in Nat
  BY <1>1, Elements DEF TypeOK, VisitInv
<1>4. \A p \in 1..len : reserved[p].start \in 0..MaxUsize /\ reserved[p].end \in 0..MaxUsize
  BY <1>1, Elements, Zenon DEF RangesIn
<1>5. \A p, q \in 1..len : p < q => reserved[p].start <= reserved[q].start
  BY <1>1, Zenon DEF SortInv
<1> DEFINE r == reserved[res]
<1>6. cursor \in 0..MaxUsize /\ end \in 0..MaxUsize /\ r.end \in 0..MaxUsize /\ r.start \in 0..MaxUsize
  BY <1>1, <1>3, <1>4, Zenon DEF TypeOK
<1>6a. (cursor < end <=> ~(cursor >= end)) /\ (r.start < end <=> ~(r.start >= end)) /\ cursor >= cursor
  BY ONLY <1>6, Bounds
<1>7. CASE cursor >= end
  <2>1. ram' = ram + 1 /\ pc' = "ram" /\ UNCHANGED <<res, cursor, regions>>
    BY <1>6a, <1>7, Zenon DEF VisitReserved, LeaveRam
  <2>2. TypeOK' /\ VisitInv' /\ SortInv' /\ Onward
    <3>1. ram + 1 \in 1..(Len(rams) + 1)
      BY <1>3, NextIn, Zenon
    <3>2. TypeOK'
      BY <1>1, <1>2, <2>1, <3>1, ZenonT(60) DEF TypeOK, rams
    <3>3. VisitInv' /\ SortInv' /\ Onward
      BY <1>1, <1>2, <2>1, ZenonT(60) DEF VisitInv, SortInv, Onward
    <3> QED  BY <3>2, <3>3, Zenon
  <2> QED  BY <1>1, <1>2, <2>1, <2>2, SameRegions, Zenon DEF Inv, RangesKept
<1>8. CASE cursor < end /\ r.end <= cursor
  <2>1. res' = res + 1 /\ UNCHANGED <<pc, ram, cursor, regions>>
    BY <1>6a, <1>8, ZenonT(60) DEF VisitReserved, EndsBefore
  <2>2. TypeOK' /\ SortInv' /\ Onward
    <3>1. res + 1 \in 1..(len + 1)
      BY ONLY <1>3
    <3> QED  BY <1>1, <1>2, <1>6a, <2>1, <3>1, ZenonT(60) DEF TypeOK, SortInv, Onward
  <2>3. VisitInv'
    <3>1. \A q \in 1..(res - 1) : reserved[q].end <= cursor
      BY <1>1, Zenon DEF VisitInv
    <3>2. \A q \in 1..((res + 1) - 1) : reserved[q].end <= cursor
      BY ONLY <1>3, <1>8, <3>1
    <3>3. /\ pc' = "visit" /\ ram' = ram /\ rams' = rams /\ cursor' = cursor /\ end' = end
          /\ reserved' = reserved /\ res' = res + 1
      BY <1>1, <1>2, <2>1, Zenon
    <3>4. /\ ram \in DOMAIN rams /\ rams[ram].addr + rams[ram].size <= MaxUsize
          /\ rams[ram].addr <= cursor /\ end = CappedEnd(rams[ram].addr + rams[ram].size)
      BY <1>1, Zenon DEF VisitInv
    <3> QED  BY <3>2, <3>3, <3>4, ZenonT(60) DEF VisitInv
  <2> QED  BY <1>1, <1>2, <2>1, <2>2, <2>3, SameRegions, ZenonT(60) DEF Inv, RangesKept
<1>9. CASE cursor < end /\ ~(r.end <= cursor) /\ r.start >= end
  <2>1. pc' = "tail" /\ UNCHANGED <<res, ram, cursor, regions>>
    BY <1>6a, <1>9, ZenonT(60) DEF VisitReserved, EndsBefore, Break
  <2>2. TypeOK' /\ SortInv' /\ Onward
    BY <1>1, <1>2, <1>6, <2>1 DEF TypeOK, SortInv, Onward
  <2>3. VisitInv'
    BY <1>1, <1>2, <1>3, <1>9, <2>1, Zenon DEF VisitInv, CappedEnd
  <2> QED  BY <1>1, <1>2, <2>1, <2>2, <2>3, SameRegions, ZenonT(60) DEF Inv, RangesKept
<1>10. CASE cursor < end /\ ~(r.end <= cursor) /\ r.start < end
  <2>1. /\ res' = res + 1 /\ cursor' = r.end /\ UNCHANGED <<pc, ram>>
        /\ IF cursor < r.start THEN AddRegion(cursor, r.start) ELSE UNCHANGED regions
    BY <1>6a, <1>10, ZenonT(60) DEF VisitReserved, EndsBefore
  <2>2. regions' \in Seq(RegionType) /\ Len(regions') <= MaxRegions
    BY <1>1, <1>6, <2>1, AddRegionType, Zenon DEF TypeOK, RegionType
  <2>3. TypeOK'
    <3>1. res + 1 \in 1..(len + 1)
      BY ONLY <1>3
    <3> QED  BY <1>1, <1>2, <1>6, <2>1, <2>2, <3>1, ZenonT(60) DEF TypeOK, RegionType
  <2>4. SortInv' /\ Onward
    <3>1. r.end >= cursor
      BY ONLY <1>6, <1>10, Bounds
    <3> QED  BY <1>1, <1>2, <2>1, <3>1, ZenonT(60) DEF SortInv, Onward
  <2>5. VisitInv'
    <3>1. \A q \in 1..(res' - 1) : reserved[q].end <= cursor'
      <4>1. \A q \in 1..(res - 1) : reserved[q].end <= cursor
        BY <1>1, Zenon DEF VisitInv
      <4>2. cursor <= r.end /\ r.end <= r.end
        BY ONLY <1>6, <1>10, Bounds
      <4>3. \A q \in 1..len : reserved[q].end \in 0..MaxUsize
        BY <1>4, Zenon
      <4>4. \A q \in 1..((res + 1) - 1) : reserved[q].end <= r.end
        BY <1>3, <1>6, <4>1, <4>2, <4>3, Bounds, EndsPassed, Zenon
      <4> QED  BY <2>1, <4>4, Zenon
    <3>2. rams[ram].addr <= cursor'
      <4>1. rams[ram].addr \in 0..MaxUsize /\ rams[ram].addr <= cursor
        BY <1>1, <1>3, Elements, Zenon DEF VisitInv
      <4> QED  BY <4>1, <1>6, <1>10, <2>1, Bounds
    <3> QED  BY <3>1, <3>2, <1>1, <1>2, <2>1, Zenon DEF VisitInv, CappedEnd
  <2>6. RegionInv' /\ BlockInv'
    <3>1. CASE cursor < r.start
      <4>1. \A q \in 1..len : r.start <= reserved[q].start \/ reserved[q].end <= cursor
        <5>1. \A q \in 1..(res - 1) : reserved[q].end <= cursor
          BY <1>1, Zenon DEF VisitInv
        <5>2. res \in 1..(len + 1) /\ r.start <= reserved[res].start
          BY ONLY <1>3, <1>6, Bounds
        <5>3. \A q \in 1..len : reserved[q].start \in 0..MaxUsize
          BY <1>4, Zenon
        <5> QED  BY <1>3, <1>5, <1>6, <5>1, <5>2, <5>3, Bounds, GapFree, Zenon
      <4>2. r.start <= end /\ r.start <= cursor'
        <5>1. r.start <= r.end
          BY <1>1, <1>3, Elements, Zenon DEF RangesKept
        <5> QED  BY <5>1, <1>6, <1>10, <2>1, Bounds
      <4> QED  BY <4>1, <4>2, <3>1, <2>1, <2>3, <2>4, <1>1, <1>2, <1>6, NewRegion, Zenon
    <3>2. CASE ~(cursor < r.start)
      BY <3>2, <1>1, <1>2, <2>1, <2>3, <2>4, SameRegions, Zenon
    <3> QED  BY <3>1, <3>2, Zenon
  <2> QED  BY <1>1, <1>2, <2>3, <2>4, <2>5, <2>6, ZenonT(60) DEF Inv, RangesKept
<1> QED  BY <1>6, <1>7, <1>8, <1>9, <1>10, Bounds

\* Adding the memory above the last reserved range keeps the invariant.
LEMMA VisitTailInv == Inv /\ VisitTail => Inv'
<1> SUFFICES ASSUME Inv, VisitTail PROVE Inv'
  BY Zenon
<1>1. /\ TypeOK /\ SortInv /\ RangesKept /\ VisitInv /\ RegionInv /\ BlockInv
      /\ pc = "tail" \/ (pc = "visit" /\ res > len)
  BY Zenon DEF Inv, VisitTail
<1>2. /\ UNCHANGED <<bootinfo, reserved, i, j, res, cursor, end, blocks, given, len, rams>>
      /\ ram' = ram + 1 /\ pc' = "ram"
      /\ IF cursor < end THEN AddRegion(cursor, end) ELSE UNCHANGED regions
  BY Zenon DEF VisitTail, LeaveRam, sortVars, len, rams
<1>3. /\ len \in Nat /\ res \in 1..(len + 1) /\ ram \in DOMAIN rams
      /\ DOMAIN rams = 1..Len(rams) /\ Len(rams) \in Nat
  BY <1>1, Elements, Zenon DEF TypeOK, VisitInv
<1>4. \A p \in 1..len : reserved[p].start \in 0..MaxUsize /\ reserved[p].end \in 0..MaxUsize
  BY <1>1, Elements, Zenon DEF RangesIn
<1>5. cursor \in 0..MaxUsize /\ end \in 0..MaxUsize
  BY <1>1, Zenon DEF TypeOK
<1>6. regions' \in Seq(RegionType) /\ Len(regions') <= MaxRegions
  BY <1>1, <1>2, <1>5, AddRegionType, Zenon DEF TypeOK, RegionType
<1>7. TypeOK'
  <2>1. ram + 1 \in 1..(Len(rams) + 1)
    BY ONLY <1>3
  <2> QED  BY <1>1, <1>2, <1>6, <2>1, ZenonT(60) DEF TypeOK, RegionType, rams
<1>8. SortInv' /\ VisitInv' /\ Onward
  BY <1>1, <1>2, Zenon DEF SortInv, VisitInv, Onward
<1>9. RegionInv' /\ BlockInv'
  <2>1. CASE cursor < end
    <3>1. \A q \in 1..len : end <= reserved[q].start \/ reserved[q].end <= cursor
      <4>1. \A q \in 1..(res - 1) : reserved[q].end <= cursor
        BY <1>1, Zenon DEF VisitInv
      <4>2. \A p, q \in 1..len : p < q => reserved[p].start <= reserved[q].start
        BY <1>1, Zenon DEF SortInv
      <4>3. res <= len => reserved[res].start >= end
        BY <1>1, <1>3 DEF VisitInv
      <4>4. \A q \in 1..len : reserved[q].start \in 0..MaxUsize
        BY <1>4, Zenon
      <4>5. res <= len => end <= reserved[res].start
        <5>1. res <= len => res \in 1..len
          BY ONLY <1>3
        <5> QED  BY <1>4, <1>5, <4>3, <5>1, Bounds, Ordered, Zenon
      <4> QED  BY <1>3, <1>5, <4>1, <4>2, <4>4, <4>5, Bounds, GapFree, Zenon
    <3>2. ram' # ram
      BY <1>2, <1>3
    <3>3. end <= end
      BY ONLY <1>5, Bounds
    <3> QED  BY <2>1, <3>1, <3>2, <3>3, <1>1, <1>2, <1>5, <1>7, <1>8, NewRegion, ZenonT(60)
  <2>2. CASE ~(cursor < end)
    BY <2>2, <1>1, <1>2, <1>7, <1>8, SameRegions, Zenon
  <2> QED  BY <2>1, <2>2, Zenon
<1> QED  BY <1>1, <1>2, <1>7, <1>8, <1>9 DEF Inv, RangesKept

-------------------------------------------------------------------------------
(* PageAllocator::alloc keeps the invariant.                                  *)

\* The block that BumpAllocator::alloc cuts off lies below all blocks of its region.
LEMMA BumpBlock ==
    ASSUME NEW r \in RegionType, NEW n \in AllocLens, Fits(r, n)
    PROVE  /\ n \in Nat \ {0} /\ BumpAddr(r, n) \in 0..MaxUsize
           /\ BumpAddr(r, n) % PageSize = 0
           /\ r.start <= BumpAddr(r, n) /\ BumpAddr(r, n) + n <= r.next
<1>1. n \in Nat \ {0} /\ PageSize \in Nat \ {0}
  BY PhysAssumption, Zenon
<1>2. r.next \in 0..MaxUsize /\ r.start \in 0..MaxUsize
  BY Zenon DEF RegionType
<1>3. r.next >= n /\ BumpAddr(r, n) >= r.start
  BY Zenon DEF Fits
<1>4. r.next - n \in Nat
  BY <1>1, <1>2, <1>3, Bounds
<1>5. BumpAddr(r, n) \in 0..(r.next - n) /\ BumpAddr(r, n) % PageSize = 0
  BY <1>1, <1>4, AlignDown, Zenon DEF BumpAddr
<1> HIDE DEF BumpAddr
<1> QED  BY <1>1, <1>2, <1>3, <1>5, Bounds

\* The block lies below the blocks of its region and beside those of the others.
LEMMA FreshBlock ==
    ASSUME TypeOK, RegionInv, BlockInv, NEW w \in DOMAIN regions, NEW n \in AllocLens,
           Fits(regions[w], n), NEW a, a = BumpAddr(regions[w], n), NEW b \in blocks
    PROVE  /\ b.start \in Nat /\ b.end \in Nat /\ b.start < b.end
           /\ a + n <= b.start \/ b.end <= a
<1>1. \A l \in DOMAIN regions : regions[l] \in RegionType
  BY Elements, Zenon DEF RegionType
<1>2. a \in Nat /\ n \in Nat \ {0} /\ regions[w].start <= a /\ a + n <= regions[w].next
  BY <1>1, BumpBlock, Bounds
<1>3. \A l \in DOMAIN regions : /\ regions[l].start \in Nat /\ regions[l].limit \in Nat
                                /\ regions[l].next \in Nat /\ regions[l].next <= regions[l].limit
                                /\ regions[l].start <= regions[l].next
  <2>1. \A r \in RegionType : r.start \in Nat /\ r.limit \in Nat /\ r.next \in Nat
    BY ONLY Bounds DEF RegionType
  <2> QED  BY <1>1, <2>1, ZenonT(60) DEF RegionInv, RegionOK
<1>4. PICK l \in DOMAIN regions : regions[l].next <= b.start /\ b.end <= regions[l].limit
  BY Zenon DEF BlockInv
<1>5. b.start \in Nat /\ b.end \in Nat /\ b.start < b.end
  BY Bounds DEF TypeOK, RangesIn, BlockInv
<1>6. CASE l = w
  BY <1>2, <1>3, <1>4, <1>5, <1>6
<1>7. CASE l # w
  <2>1. Apart(regions[l], regions[w])
    BY <1>7, Zenon DEF RegionInv
  <2> QED  BY <2>1, <1>2, <1>3, <1>4, <1>5 DEF Apart
<1> QED  BY <1>5, <1>6, <1>7

\* An allocation takes the top of the free part of one region.
LEMMA AllocInv == ASSUME Inv, NEW n \in AllocLens, Alloc(n) PROVE Inv'
<1>1. /\ TypeOK /\ SortInv /\ RangesKept /\ RegionInv /\ BlockInv /\ pc = "ready"
      /\ UNCHANGED <<bootinfo, pc, reserved, i, j, ram, res, cursor, end, len, rams>>
  BY Zenon DEF Inv, Alloc, sortVars, visitVars, len, rams
<1>2. PICK w \in DOMAIN regions :
        /\ Fits(regions[w], n)
        /\ regions' = [regions EXCEPT ![w].next = BumpAddr(regions[w], n)]
        /\ blocks' = blocks \cup {[start |-> BumpAddr(regions[w], n),
                                   end |-> BumpAddr(regions[w], n) + n]}
  BY Zenon DEF Alloc
<1>3. /\ \A l \in DOMAIN regions : regions[l] \in RegionType
      /\ DOMAIN regions = 1..Len(regions) /\ Len(regions) \in Nat
  BY <1>1, Elements, Zenon DEF RegionType
<1>4. PICK a \in 0..MaxUsize : a = BumpAddr(regions[w], n)
  BY <1>2, <1>3, BumpBlock, Zenon
<1>5. /\ n \in Nat \ {0} /\ a % PageSize = 0
      /\ regions[w].start <= a /\ a + n <= regions[w].next
  BY <1>2, <1>3, <1>4, BumpBlock
<1>6. /\ regions' = [regions EXCEPT ![w] = [regions[w] EXCEPT !.next = a]]
      /\ DOMAIN regions' = DOMAIN regions
      /\ \A l \in DOMAIN regions :
           /\ regions'[l].start = regions[l].start /\ regions'[l].limit = regions[l].limit
           /\ regions'[l].next = IF l = w THEN a ELSE regions[l].next
  BY <1>2, <1>3, <1>4, Zenon DEF RegionType
<1>7. \A l \in DOMAIN regions : /\ regions[l].start \in Nat /\ regions[l].limit \in Nat
                                /\ regions[l].next \in Nat /\ regions[l].next <= regions[l].limit
                                /\ regions[l].start <= regions[l].next
  <2>1. \A r \in RegionType : r.start \in Nat /\ r.limit \in Nat /\ r.next \in Nat
    BY ONLY Bounds DEF RegionType
  <2> QED  BY <1>1, <1>3, <2>1, ZenonT(60) DEF RegionInv, RegionOK
<1>8. PICK new : new = [start |-> a, end |-> a + n]
  BY Zenon
<1>9. blocks' = blocks \cup {new} /\ new.start = a /\ new.end = a + n
  BY <1>2, <1>4, <1>8
<1>10. TypeOK'
  <2>1. regions' \in Seq(RegionType) /\ Len(regions') = Len(regions)
    <3>1. [regions[w] EXCEPT !.next = a] \in RegionType /\ regions \in Seq(RegionType)
      BY <1>1, <1>3, Zenon DEF RegionType, TypeOK
    <3> QED  BY <3>1, <1>3, <1>6, SeqExcept
  <2>2. new \in RangesIn(MaxUsize)
    <3>1. a + n \in 0..MaxUsize
      <4>1. regions[w].next \in 0..MaxUsize
        BY <1>3, Zenon DEF RegionType
      <4> QED  BY <4>1, <1>5, Bounds
    <3> QED  BY <3>1, <1>8, Zenon DEF RangesIn
  <2>3. given' \in Nat
    <3>1. given \in Nat /\ given' = given + 1
      BY <1>1, Zenon DEF Alloc, TypeOK
    <3> QED  BY ONLY <3>1
  <2> QED  BY <2>1, <2>2, <2>3, <1>1, <1>9, Zenon DEF TypeOK, RegionType
<1>11. SortInv' /\ RangesKept' /\ VisitInv'
  BY <1>1, Zenon DEF SortInv, RangesKept, VisitInv
<1>12. RegionInv'
  <2>1. ASSUME NEW l \in DOMAIN regions PROVE RegionOK(regions[l])'
    <3>1. /\ RegionOK(regions[l])
          /\ regions'[l].start <= regions'[l].next /\ regions'[l].next <= regions'[l].limit
      BY <1>1, <1>5, <1>6, <1>7 DEF RegionInv
    <3> QED  BY <3>1, <1>1, <1>6 DEF RegionOK, InVisited, CappedEnd
  <2>2. \A l, m \in DOMAIN regions : l # m => Apart(regions[l], regions[m])'
    BY <1>1, <1>6, Zenon DEF RegionInv, Apart
  <2> QED  BY <2>1, <2>2, <1>6, Zenon DEF RegionInv
<1>13. BlockInv'
  <2>1. ASSUME NEW b \in blocks
        PROVE  /\ b.start \in Nat /\ b.end \in Nat /\ b.start < b.end
               /\ b.start % PageSize = 0
               /\ \E l \in DOMAIN regions :
                    regions'[l].next <= b.start /\ b.end <= regions'[l].limit
               /\ a + n <= b.start \/ b.end <= a
    <3>1. PICK l \in DOMAIN regions : regions[l].next <= b.start /\ b.end <= regions[l].limit
      BY <1>1, Zenon DEF BlockInv
    <3>2. /\ b.start \in Nat /\ b.end \in Nat /\ b.start < b.end /\ b.start % PageSize = 0
          /\ a + n <= b.start \/ b.end <= a
      BY <1>1, <1>2, <1>4, FreshBlock, Zenon DEF BlockInv
    <3>3. regions'[l].next <= b.start /\ b.end <= regions'[l].limit
      BY <3>1, <3>2, <1>5, <1>6, <1>7
    <3> QED  BY <3>1, <3>2, <3>3
  <2>2. /\ new.start < new.end /\ new.start % PageSize = 0
        /\ \E l \in DOMAIN regions : regions'[l].next <= new.start /\ new.end <= regions'[l].limit
    BY <1>5, <1>6, <1>7, <1>9, SMTT(15)
  <2>3. ASSUME NEW b \in blocks', NEW c \in blocks', b # c
        PROVE  b.end <= c.start \/ c.end <= b.start
    BY <2>1, <2>3, <1>1, <1>9, Zenon DEF BlockInv
  <2> QED  BY <2>1, <2>2, <2>3, <1>6, <1>9 DEF BlockInv
<1> QED  BY <1>10, <1>11, <1>12, <1>13, Zenon DEF Inv

-------------------------------------------------------------------------------
(* The theorems.                                                              *)

\* Inv is an invariant of the page allocator and its initialization.
THEOREM PhysInvariance == Spec => []Inv
<1>1. Inv /\ [Next]_vars => Inv'
  <2> SUFFICES ASSUME Inv, [Next]_vars PROVE Inv'
    BY Zenon
  <2>1. CASE SortInner
    BY <2>1, SortInnerInv, Zenon
  <2>2. CASE SortOuter \/ SortDone
    BY <2>2, SortOuterInv
  <2>3. CASE VisitRam \/ InitDone
    BY <2>3, VisitRamInv, Zenon
  <2>4. CASE VisitReserved
    BY <2>4, VisitReservedInv, Zenon
  <2>5. CASE VisitTail
    BY <2>5, VisitTailInv, Zenon
  <2>6. ASSUME NEW n \in AllocLens, Alloc(n) PROVE Inv'
    BY <2>6, AllocInv
  <2>7. CASE UNCHANGED vars
    BY <2>7, ZenonT(30) DEF vars, sortVars, visitVars, Inv, TypeOK, len, SortInv, RangesKept, VisitInv,
                rams, CappedEnd, RegionInv, RegionOK, InVisited, Apart, BlockInv
  <2>8. ASSUME NEW n \in AllocLens, AllocNone(n) PROVE Inv'
    BY <2>7, <2>8, Zenon DEF AllocNone
  <2> QED  BY <2>1, <2>2, <2>3, <2>4, <2>5, <2>6, <2>7, <2>8 DEF Next
<1> QED  BY <1>1, InitInv, PTL DEF Spec

\* The variables keep their types: no loop of init() runs out of its ArrayVecs and
\* PageAllocator.regions never exceeds its capacity.
THEOREM PhysTypeCorrect == Spec => []TypeOK
<1>1. Inv => TypeOK
  BY Zenon DEF Inv
<1> QED  BY <1>1, PhysInvariance, PTL

\* bubble_sort sorts the reserved ranges and keeps them all, however many there are.
THEOREM Sorted == Spec => []ReservedSorted
<1>1. Inv => ReservedSorted
  <2> SUFFICES ASSUME Inv, pc # "sort" PROVE
        /\ \A a, b \in 1..len : a < b => reserved[a].start <= reserved[b].start
        /\ {reserved[a] : a \in 1..len} =
               {bootinfo.reserved[a] : a \in DOMAIN bootinfo.reserved}
    BY Zenon DEF ReservedSorted
  <2> QED  BY DEF Inv, SortInv, RangesKept
<1> QED  BY <1>1, PhysInvariance, PTL

\* A region holds usable memory only.
LEMMA RegionUsable ==
    ASSUME Inv, NEW w \in DOMAIN regions, NEW a \in Int,
           regions[w].start <= a, a < regions[w].limit
    PROVE  a \in Usable
<1>1. TypeOK /\ RegionOK(regions[w])
  BY Zenon DEF Inv, RegionInv
<1>2. regions[w].start \in 0..MaxUsize /\ regions[w].limit \in 0..MaxUsize
  BY <1>1, Elements
<1>3. PICK m \in DOMAIN rams : InVisited(regions[w], m)
  BY <1>1, Zenon DEF RegionOK
<1>4. /\ rams[m].addr \in 0..MaxUsize /\ rams[m].size \in 0..MaxUsize
  BY <1>1, Elements, Zenon
<1>5. rams[m].addr + rams[m].size \in 0..MaxUsize
  BY <1>3, <1>4, Bounds DEF InVisited
<1>6. a \in 0..(DirectMapEnd - 1) /\ InRam(rams[m], a)
  BY <1>2, <1>3, <1>4, <1>5, Capped, Bounds DEF InVisited, InRam
<1>7. ASSUME NEW q \in DOMAIN bootinfo.reserved
      PROVE  ~(bootinfo.reserved[q].start <= a /\ a < bootinfo.reserved[q].end)
  <2>1. bootinfo.reserved[q].start \in 0..MaxUsize /\ bootinfo.reserved[q].end \in 0..MaxUsize
    BY <1>1, Elements, Zenon DEF RangesIn
  <2> QED  BY <2>1, <1>1, <1>2, Bounds DEF RegionOK
<1> QED  BY <1>6, <1>7, Zenon DEF Usable, rams

\* For every memory map, memory::init() gives the page allocator only free RAM that is
\* below the direct map's end and outside the kernel image and the modules.
THEOREM OnlyUsableRegions == Spec => []RegionsUsable
<1>1. Inv => RegionsUsable
  <2> SUFFICES ASSUME Inv, NEW w \in DOMAIN regions,
                      NEW a \in regions[w].start..(regions[w].limit - 1)
               PROVE  a \in Usable
    BY Zenon DEF RegionsUsable
  <2>1. regions[w].start \in 0..MaxUsize /\ regions[w].limit \in 0..MaxUsize
    BY Elements, Zenon DEF Inv
  <2> QED  BY <2>1, RegionUsable, Bounds
<1> QED  BY <1>1, PhysInvariance, PTL

\* The block at b is usable.
LEMMA BlockUsable ==
    ASSUME Inv, NEW b \in blocks, NEW a \in b.start..(b.end - 1)
    PROVE  a \in Usable
<1>1. PICK w \in DOMAIN regions : regions[w].next <= b.start /\ b.end <= regions[w].limit
  BY DEF Inv, BlockInv
<1>2. b.start \in 0..MaxUsize /\ b.end \in 0..MaxUsize
  BY Zenon DEF Inv, TypeOK, RangesIn
<1>3. /\ regions[w].start \in 0..MaxUsize /\ regions[w].limit \in 0..MaxUsize
      /\ regions[w].next \in 0..MaxUsize /\ regions[w].start <= regions[w].next
  BY Elements, Zenon DEF Inv, RegionInv, RegionOK
<1> QED  BY <1>1, <1>2, <1>3, Bounds, RegionUsable

\* For every memory map and every sequence of requests, no page is handed out twice,
\* and every block is page-aligned usable memory.
THEOREM BlocksSafe == Spec => []BlocksSound
<1>1. Inv => BlocksSound
  <2> SUFFICES ASSUME Inv PROVE BlocksSound
    BY Zenon
  <2>1. \A b \in blocks : b.start % PageSize = 0 /\ b.start..(b.end - 1) \subseteq Usable
    BY BlockUsable, Zenon DEF Inv, BlockInv
  <2>2. ASSUME NEW b \in blocks, NEW c \in blocks, b # c PROVE ~Overlap(b, c)
    <3>1. /\ b.start \in Nat /\ b.end \in Nat /\ c.start \in Nat /\ c.end \in Nat
      BY Bounds, SMTT(15) DEF Inv, TypeOK, RangesIn
    <3> QED  BY <2>2, <3>1 DEF Inv, BlockInv, Overlap
  <2> QED  BY <2>1, <2>2 DEF BlocksSound
<1> QED  BY <1>1, PhysInvariance, PTL

\* The page allocator implements PageSource: initialization is invisible, and each
\* alloc() that succeeds hands out a fresh, aligned, usable block.
THEOREM PageSourceRefinement == Spec => ImplementsPageSource
<1>1. Init => Source!Init
  <2> SUFFICES ASSUME Init PROVE Usable \subseteq 0..MaxUsize /\ blocks = {} /\ given = 0
    BY Zenon DEF Source!Init
  <2> QED  BY Bounds DEF Init, Usable
<1>2. Inv /\ Inv' /\ [Next]_vars => [Source!Next]_<<Usable, blocks, given>>
  <2> SUFFICES ASSUME Inv, Inv', [Next]_vars PROVE [Source!Next]_<<Usable, blocks, given>>
    BY Zenon
  <2>1. bootinfo' = bootinfo
    BY DEF Next, vars, SortInner, SortOuter, SortDone, VisitRam, VisitReserved, VisitTail,
           InitDone, Alloc, AllocNone
  <2>2. Usable' = Usable
    BY <2>1, Zenon DEF Usable, InRam
  <2>3. CASE \A n \in AllocLens : ~Alloc(n)
    <3>1. UNCHANGED <<blocks, given>>
      BY <2>3, Zenon DEF Next, vars, SortInner, SortOuter, SortDone, VisitRam, VisitReserved,
                  VisitTail, InitDone, AllocNone
    <3> QED  BY <2>2, <3>1, Zenon
  <2>4. CASE \E n \in AllocLens : Alloc(n)
    <3>1. PICK n \in AllocLens : Alloc(n)
      BY <2>4, Zenon
    <3>2. PICK w \in DOMAIN regions :
            /\ Fits(regions[w], n)
            /\ blocks' = blocks \cup {[start |-> BumpAddr(regions[w], n),
                                       end |-> BumpAddr(regions[w], n) + n]}
            /\ given' = given + 1
      BY <3>1, Zenon DEF Alloc
    <3>3. regions[w] \in RegionType
      BY Elements, ZenonT(60) DEF RegionType, Inv
    <3>4. PICK a \in 0..MaxUsize : a = BumpAddr(regions[w], n) /\ a % PageSize = 0
      BY <3>2, <3>3, BumpBlock, Zenon
    <3>5. PICK new : new = [start |-> a, end |-> a + n]
      BY Zenon
    <3>6. blocks' = blocks \cup {new} /\ new.start = a /\ new.end = a + n
      BY <3>2, <3>4, <3>5
    <3>7. a..(a + n - 1) \subseteq Usable
      <4>1. /\ n \in Nat /\ regions[w].start <= a /\ a + n <= regions[w].next
            /\ regions[w].start \in Nat /\ regions[w].next \in Nat /\ regions[w].limit \in Nat
        BY <3>2, <3>3, <3>4, BumpBlock, Bounds, SMTT(15) DEF RegionType
      <4>2. regions[w].next <= regions[w].limit
        BY ZenonT(60) DEF Inv, RegionInv, RegionOK
      <4>3. \A x \in a..(a + n - 1) :
              x \in Int /\ regions[w].start <= x /\ x < regions[w].limit
        BY <4>1, <4>2
      <4> QED  BY <4>3, RegionUsable, Zenon
    <3>8. \A b \in blocks : Source!Disjoint(new, b)
      BY <3>2, <3>4, <3>6, FreshBlock, Zenon DEF Inv, Source!Disjoint
    <3>9. Source!Alloc(n)
      BY <3>2, <3>4, <3>5, <3>6, <3>7, <3>8, <2>2 DEF Source!Alloc
    <3> QED  BY <3>9, SMTT(15) DEF Source!Next
  <2> QED  BY <2>3, <2>4, Zenon
<1> QED  BY <1>1, <1>2, PhysInvariance, PTL DEF Spec, ImplementsPageSource, Source!Spec

-------------------------------------------------------------------------------
(* memory::init() loses nothing.                                              *)

Held(a) == \E w \in DOMAIN regions : regions[w].start <= a /\ a < regions[w].limit

\* The visit has passed the address a of free RAM m.
Passed(m, a) ==
    \/ m < ram
    \/ m = ram /\ pc \in {"visit", "tail"} /\ a < cursor

\* Unless add_region had to drop a region, what the visit has passed is in a region.
CompleteInv ==
    /\ pc = "ready" => ram > Len(rams)
    /\ Len(regions) < MaxRegions =>
        \A a \in Usable, m \in DOMAIN rams : InRam(rams[m], a) /\ Passed(m, a) => Held(a)

\* Regions are not lost, and one that did not find the array full was added.
LEMMA RegionsGrow ==
    ASSUME Inv, NEW c \in 0..MaxUsize, NEW e \in 0..MaxUsize, AddRegion(c, e)
    PROVE  /\ Len(regions') < MaxRegions => Len(regions) < MaxRegions
           /\ \A a : Held(a) => Held(a)'
           /\ Len(regions') < MaxRegions => \A a : c <= a /\ a < e => Held(a)'
<1>1. regions \in Seq(RegionType) /\ MaxRegions \in Nat
  BY PhysAssumption, Zenon DEF Inv, TypeOK, RegionType
<1>2. PICK r : r = [start |-> c, next |-> e, limit |-> e]
  BY Zenon
<1>3. r \in RegionType /\ r.start = c /\ r.limit = e
  BY <1>2, Zenon DEF RegionType
<1>4. CASE Len(regions) < MaxRegions
  <2>1. regions' = Append(regions, r)
    BY <1>2, <1>4, Zenon DEF AddRegion
  <2>2. /\ Len(regions) \in Nat /\ DOMAIN regions = 1..Len(regions)
        /\ DOMAIN regions' = 1..(Len(regions) + 1) /\ regions'[Len(regions) + 1] = r
        /\ \A w \in 1..Len(regions) : regions'[w] = regions[w]
    BY <1>1, <1>3, <2>1
  <2>3. Len(regions) + 1 \in DOMAIN regions' /\ DOMAIN regions \subseteq DOMAIN regions'
    BY <2>2
  <2> QED BY <1>3, <1>4, <2>2, <2>3, Zenon DEF Held
<1>5. CASE ~(Len(regions) < MaxRegions)
  <2>1. regions' = regions
    BY <1>5, Zenon DEF AddRegion
  <2> QED BY <1>5, <2>1, Zenon DEF Held
<1> QED BY <1>4, <1>5, Zenon

\* A step that holds what it passes keeps the invariant.
LEMMA CompleteStep ==
    ASSUME CompleteInv, bootinfo' = bootinfo, pc' = "ready" => ram' > Len(rams),
           Len(regions') < MaxRegions => Len(regions) < MaxRegions,
           \A a : Held(a) => Held(a)',
           Len(regions') < MaxRegions =>
                \A a \in Usable, m \in DOMAIN rams :
                    InRam(rams[m], a) /\ Passed(m, a)' /\ ~Passed(m, a) => Held(a)'
    PROVE  CompleteInv'
<1>1. rams' = rams /\ Usable' = Usable
  BY Zenon DEF rams, Usable
<1>2. ASSUME Len(regions') < MaxRegions, NEW a \in Usable, NEW m \in DOMAIN rams,
             InRam(rams[m], a), Passed(m, a)'
      PROVE  Held(a)'
  BY <1>2, Zenon DEF CompleteInv
<1> QED BY <1>1, <1>2, Zenon DEF CompleteInv

\* A usable address of a free RAM lies below the end of its visit.
LEMMA BelowEnd ==
    ASSUME Inv, pc \in {"visit", "tail"}, NEW a \in Usable, InRam(rams[ram], a)
    PROVE  a \in Int /\ rams[ram].addr <= a /\ a < end
<1>1. /\ ram \in DOMAIN rams /\ end = CappedEnd(rams[ram].addr + rams[ram].size) /\ TypeOK
  BY Zenon DEF Inv, VisitInv
<1>2. rams[ram].addr \in 0..MaxUsize /\ rams[ram].size \in 0..MaxUsize
  BY <1>1, Elements
<1>3. a \in 0..(DirectMapEnd - 1)
  BY Zenon DEF Usable
<1> QED BY <1>1, <1>2, <1>3, Bounds DEF InRam, CappedEnd

LEMMA NotReserved ==
    ASSUME Inv, NEW a \in Usable, NEW p \in 1..len
    PROVE  ~(reserved[p].start <= a /\ a < reserved[p].end)
BY Zenon DEF Inv, RangesKept, Usable

\* The steps of init() and of alloc().
LEMMA VisitComplete ==
    ASSUME Inv, CompleteInv, VisitReserved \/ VisitTail
    PROVE  CompleteInv'
<1>0. /\ TypeOK /\ pc \in {"visit", "tail"} /\ bootinfo' = bootinfo /\ pc' # "ready"
  BY DEF Inv, VisitReserved, VisitTail, LeaveRam, Break
<1>1. /\ cursor \in 0..MaxUsize /\ end \in 0..MaxUsize /\ ram \in Nat /\ MaxUsize \in Nat
      /\ len \in Nat /\ DOMAIN rams = 1..Len(rams) /\ Len(rams) \in Nat
      /\ \A p \in 1..len : reserved[p].start \in 0..MaxUsize /\ reserved[p].end \in 0..MaxUsize
  <2>1. \A p \in 1..len : reserved[p].start \in 0..MaxUsize /\ reserved[p].end \in 0..MaxUsize
    BY <1>0, Elements, Zenon DEF RangesIn
  <2> QED BY <1>0, <2>1, Elements, Bounds DEF TypeOK
<1>2. CASE /\ regions' = regions
           /\ \/ ram' = ram /\ cursor' = cursor
              \/ ram' = ram + 1 /\ pc' = "ram" /\ cursor >= end
  <2>1. ASSUME NEW a \in Usable, NEW m \in DOMAIN rams, InRam(rams[m], a), Passed(m, a)'
        PROVE  Passed(m, a)
    <3>1. CASE ram' = ram /\ cursor' = cursor
      BY <1>0, <2>1, <3>1, Zenon DEF Passed
    <3>2. CASE ram' = ram + 1 /\ pc' = "ram" /\ cursor >= end
      <4>1. m <= ram
        <5>1. m < ram + 1
          BY <2>1, <3>2, Zenon DEF Passed
        <5>2. m \in Int /\ ram \in Int
          BY ONLY <1>1, <2>1
        <5> QED BY ONLY <5>1, <5>2
      <4>2. CASE m = ram
        BY <1>0, <1>1, <2>1, <3>2, <4>2, BelowEnd DEF Passed
      <4>3. m \in Int /\ ram \in Int
        BY <1>1
      <4>4. CASE m < ram
        BY <4>4 DEF Passed
      <4> QED BY <4>1, <4>2, <4>3, <4>4
    <3> QED BY <1>2, <3>1, <3>2, Zenon
  <2>2. \A a : Held(a) => Held(a)'
    BY <1>2, Zenon DEF Held
  <2> QED BY <1>0, <1>2, <2>1, <2>2, CompleteStep, Zenon
<1>3. ASSUME NEW e \in 0..MaxUsize,
             IF cursor < e THEN AddRegion(cursor, e) ELSE UNCHANGED regions,
             \A a \in Usable, m \in DOMAIN rams :
                InRam(rams[m], a) /\ Passed(m, a)' /\ ~Passed(m, a) => cursor <= a /\ a < e
      PROVE  CompleteInv'
  <2>1. CASE cursor < e
    <3>1. AddRegion(cursor, e)
      BY <1>3, <2>1
    <3>2. /\ Len(regions') < MaxRegions => Len(regions) < MaxRegions
          /\ \A a : Held(a) => Held(a)'
          /\ Len(regions') < MaxRegions => \A a : cursor <= a /\ a < e => Held(a)'
      BY <1>1, <3>1, RegionsGrow, Zenon
    <3> QED BY <1>0, <1>3, <3>2, CompleteStep, Zenon
  <2>2. CASE ~(cursor < e)
    <3>1. regions' = regions
      BY <1>3, <2>2, Zenon
    <3>2. \A a : Held(a) => Held(a)'
      BY <3>1, Zenon DEF Held
    <3>3. \A a \in Usable : ~(cursor <= a /\ a < e)
      BY <1>1, <2>2 DEF Usable
    <3> QED BY <1>0, <1>3, <3>1, <3>2, <3>3, CompleteStep, Zenon
  <2> QED BY <2>1, <2>2, Zenon
<1>4. CASE VisitReserved
  <2>1. pc = "visit" /\ res \in 1..len
    <3>1. pc = "visit" /\ res <= len /\ res \in 1..(len + 1)
      BY <1>0, <1>4, Zenon DEF VisitReserved, TypeOK
    <3> QED BY <1>1, <3>1, NotLast, Zenon
  <2>2. PICK r : r = reserved[res]
    BY Zenon
  <2>3. r.start \in 0..MaxUsize /\ r.end \in 0..MaxUsize
    BY <1>1, <2>1, <2>2, Zenon
  <2>3a. (cursor < end <=> ~(cursor >= end)) /\ (r.start < end <=> ~(r.start >= end))
    BY ONLY <1>1, <2>3
  <2>4. CASE cursor >= end \/ r.end <= cursor \/ r.start >= end
    <3>1. /\ regions' = regions
          /\ \/ ram' = ram /\ cursor' = cursor
             \/ ram' = ram + 1 /\ pc' = "ram" /\ cursor >= end
      BY <1>4, <2>2, <2>3a, <2>4, ZenonT(60) DEF VisitReserved, LeaveRam, EndsBefore, Break
    <3> QED BY <1>2, <3>1, Zenon
  <2>5. CASE cursor < end /\ ~(r.end <= cursor) /\ r.start < end
    <3>1. /\ IF cursor < r.start THEN AddRegion(cursor, r.start) ELSE UNCHANGED regions
          /\ cursor' = r.end /\ ram' = ram /\ pc' = pc
      BY <1>4, <2>2, <2>3a, <2>5, ZenonT(60) DEF VisitReserved, EndsBefore
    <3>2. ASSUME NEW a \in Usable, NEW m \in DOMAIN rams, InRam(rams[m], a), Passed(m, a)', ~Passed(m, a)
          PROVE  cursor <= a /\ a < r.start
      <4>0. m < ram' \/ m = ram'
        BY <3>2, Zenon DEF Passed
      <4>1. m = ram
        BY <3>1, <3>2, <4>0, Zenon DEF Passed
      <4>2. a \in Int /\ cursor <= a /\ a < r.end
        <5>1. a \in Int
          BY <1>0, <3>2, <4>1, BelowEnd, Zenon
        <5>2. ~(a < cursor) /\ a < r.end
          <6>1. ~(m < ram)
            BY <3>2, Zenon DEF Passed
          <6> QED BY <1>0, <3>1, <3>2, <4>1, <6>1, Zenon DEF Passed
        <5> QED BY ONLY <1>1, <5>1, <5>2
      <4>3. ~(r.start <= a /\ a < r.end)
        BY <2>1, <2>2, NotReserved, Zenon
      <4> QED BY <2>3, <4>2, <4>3, Bounds
    <3> QED BY <1>3, <2>3, <3>1, <3>2, Zenon
  <2> QED BY <2>3a, <2>4, <2>5, Zenon
<1>5. CASE VisitTail
  <2>1. /\ IF cursor < end THEN AddRegion(cursor, end) ELSE UNCHANGED regions
        /\ ram' = ram + 1 /\ pc' = "ram"
    BY <1>5, Zenon DEF VisitTail, LeaveRam
  <2>2. ASSUME NEW a \in Usable, NEW m \in DOMAIN rams, InRam(rams[m], a), Passed(m, a)', ~Passed(m, a)
        PROVE  cursor <= a /\ a < end
    <3>1. m = ram
      BY <1>1, <2>1, <2>2 DEF Passed
    <3>2. a \in Int /\ a < end
      BY <1>0, <2>2, <3>1, BelowEnd, Zenon
    <3> QED BY <1>0, <1>1, <2>2, <3>1, <3>2 DEF Passed
  <2> QED BY <1>1, <1>3, <2>1, <2>2, Zenon
<1> QED BY <1>4, <1>5, Zenon

LEMMA OtherComplete ==
    ASSUME Inv, CompleteInv,
           \/ SortInner \/ SortOuter \/ SortDone \/ VisitRam \/ InitDone \/ UNCHANGED vars
           \/ \E n \in AllocLens : Alloc(n) \/ AllocNone(n)
    PROVE  CompleteInv'
<1>1. bootinfo' = bootinfo /\ TypeOK
  BY Zenon DEF SortInner, SortOuter, SortDone, VisitRam, InitDone, vars, Alloc, AllocNone, Inv
<1>2. /\ Len(rams) \in Nat /\ DOMAIN rams = 1..Len(rams) /\ ram \in 1..(Len(rams) + 1)
  BY <1>1, Elements DEF TypeOK, rams
<1>3. CASE SortInner \/ SortOuter \/ SortDone \/ InitDone \/ UNCHANGED vars \/ \E n \in AllocLens : AllocNone(n)
  <2>1. /\ regions' = regions /\ ram' = ram /\ cursor' = cursor
        /\ pc' \in {"visit", "tail"} => pc' = pc
    BY <1>3, ZenonT(60) DEF SortInner, SortOuter, SortDone, InitDone, vars, visitVars, AllocNone
  <2>2. pc' = "ready" => ram' > Len(rams)
    BY <1>3, <2>1, Zenon DEF SortInner, SortOuter, SortDone, InitDone, vars, visitVars, AllocNone, CompleteInv, rams
  <2>3. \A a, m : Passed(m, a)' => Passed(m, a)
    BY <2>1, Zenon DEF Passed
  <2>4. \A a : Held(a) => Held(a)'
    BY <2>1, Zenon DEF Held
  <2> QED BY <1>1, <2>1, <2>2, <2>3, <2>4, CompleteStep, Zenon
<1>4. CASE VisitRam
  <2>1. /\ regions' = regions /\ pc = "ram" /\ ram \in DOMAIN rams /\ pc' # "ready"
    <3>1. regions' = regions /\ pc = "ram" /\ ram <= Len(rams)
      BY <1>4, ZenonT(60) DEF VisitRam, rams
    <3>2. ram \in DOMAIN rams
      BY ONLY <1>2, <3>1
    <3>3. pc' # "ready"
      BY <1>4, ZenonT(60) DEF VisitRam
    <3> QED BY <3>1, <3>2, <3>3, Zenon
  <2>2. rams[ram].addr \in 0..MaxUsize /\ rams[ram].size \in 0..MaxUsize
    BY <1>1, <2>1, Elements, ZenonT(60)
  <2>3. \/ rams[ram].addr + rams[ram].size > MaxUsize /\ ram' = ram + 1 /\ pc' = pc
        \/ ram' = ram /\ cursor' = rams[ram].addr
    BY <1>4, ZenonT(60) DEF VisitRam, rams
  <2>4. ASSUME NEW a \in Usable, NEW m \in DOMAIN rams, InRam(rams[m], a), Passed(m, a)'
        PROVE  Passed(m, a)
    <3>0. a \in Int
      BY DEF Usable
    <3>1. CASE rams[ram].addr + rams[ram].size > MaxUsize /\ ram' = ram + 1 /\ pc' = pc
      <4>1. m < ram + 1
        BY <2>1, <2>4, <3>1, Zenon DEF Passed
      <4>2. m # ram
        BY <2>2, <2>4, <3>1, Bounds DEF InRam
      <4>3. m \in Int /\ ram \in Int
        BY <1>2
      <4>4. m < ram
        BY <4>1, <4>2, <4>3
      <4> QED BY <4>4 DEF Passed
    <3>2. CASE ram' = ram /\ cursor' = rams[ram].addr
      <4>1. m < ram \/ (m = ram /\ a < rams[ram].addr)
        BY <2>4, <3>2 DEF Passed
      <4>2. ~(m = ram /\ a < rams[ram].addr)
        BY <2>2, <2>4, <3>0, Bounds DEF InRam
      <4> QED BY <4>1, <4>2, Zenon DEF Passed
    <3> QED BY <2>3, <3>1, <3>2, Zenon
  <2>5. \A a : Held(a) => Held(a)'
    BY <2>1, Zenon DEF Held
  <2> QED BY <1>1, <2>1, <2>4, <2>5, CompleteStep, Zenon
<1>5. ASSUME NEW n \in AllocLens, Alloc(n) PROVE CompleteInv'
  <2>1. pc' = pc /\ ram' = ram /\ cursor' = cursor /\ pc = "ready"
    BY <1>5, Zenon DEF Alloc, visitVars
  <2>2. PICK w \in DOMAIN regions : \E x : regions' = [regions EXCEPT ![w].next = x]
    BY <1>5, Zenon DEF Alloc
  <2>2a. PICK a : regions' = [regions EXCEPT ![w].next = a]
    BY <2>2, Zenon
  <2>3. \A m \in DOMAIN regions :
            regions[m] \in [start : 0..MaxUsize, next : 0..MaxUsize, limit : 0..MaxUsize]
    BY <1>1, Elements, Zenon
  <2>4. /\ DOMAIN regions' = DOMAIN regions /\ Len(regions') = Len(regions)
        /\ \A m \in DOMAIN regions : /\ regions'[m].start = regions[m].start
                                     /\ regions'[m].limit = regions[m].limit
    <3>1. regions \in Seq(RegionType)
      BY <1>1, Zenon DEF TypeOK, RegionType
    <3>2. PICK r : r = [regions[w] EXCEPT !.next = a]
      BY Zenon
    <3>3. r.start = regions[w].start /\ r.limit = regions[w].limit
      BY <2>3, <3>2, Zenon
    <3>4. regions' = [regions EXCEPT ![w] = r]
      BY <2>2a, <3>2, Zenon
    <3> QED BY <3>1, <3>3, <3>4
  <2>5. \A x : Held(x) => Held(x)'
    BY <2>4, Zenon DEF Held
  <2>6. \A x, m : Passed(m, x)' => Passed(m, x)
    BY <2>1, Zenon DEF Passed
  <2>7. pc' = "ready" => ram' > Len(rams)
    BY <2>1, Zenon DEF CompleteInv
  <2> QED BY <1>1, <2>4, <2>5, <2>6, <2>7, CompleteStep, Zenon
<1> QED BY <1>3, <1>4, <1>5, Zenon

\* RegionsComplete: unless the array of regions was too small, every usable address is in
\* exactly one of them once memory::init() is done.
THEOREM NothingLost == Spec => []RegionsComplete
<1>1. Init => CompleteInv
  <2>1. SUFFICES ASSUME Init PROVE CompleteInv
    BY Zenon
  <2>2. pc = "sort" /\ ram = 1
    BY <2>1, Zenon DEF Init
  <2>3. TypeOK
    BY <2>1, InitInv, Zenon DEF Inv
  <2>4. \A m \in DOMAIN rams : m \in Nat /\ ~(m < 1)
    BY <2>3, Elements
  <2> QED BY <2>2, <2>4, Zenon DEF CompleteInv, Passed
<1>2. Inv /\ CompleteInv /\ [Next]_vars => CompleteInv'
  BY VisitComplete, OtherComplete DEF Next
<1>3. Inv /\ CompleteInv => RegionsComplete
  <2>1. SUFFICES ASSUME Inv, CompleteInv, pc = "ready", Len(regions) < MaxRegions, NEW a \in Usable
                 PROVE  \E w \in DOMAIN regions :
                            /\ regions[w].start <= a /\ a < regions[w].limit
                            /\ \A m \in DOMAIN regions \ {w} :
                                ~(regions[m].start <= a /\ a < regions[m].limit)
    BY DEF RegionsComplete
  <2>2. PICK n \in DOMAIN rams : InRam(rams[n], a)
    BY DEF Usable, rams
  <2>3. Passed(n, a)
    <3>1. /\ Len(rams) \in Nat /\ DOMAIN rams = 1..Len(rams) /\ ram \in Nat
      <4>1. TypeOK
        BY <2>1, Zenon DEF Inv
      <4>2. Len(rams) \in Nat /\ DOMAIN rams = 1..Len(rams)
        BY <4>1, Elements, Zenon
      <4>3. ram \in 1..(Len(rams) + 1)
        BY <4>1, Zenon DEF TypeOK, rams
      <4> QED BY ONLY <4>2, <4>3
    <3>2. ram > Len(rams)
      BY <2>1 DEF CompleteInv
    <3>3. n < ram
      BY <3>1, <3>2
    <3> QED BY <3>3 DEF Passed
  <2>4. PICK w \in DOMAIN regions : regions[w].start <= a /\ a < regions[w].limit
    BY <2>1, <2>2, <2>3 DEF CompleteInv, Held
  <2>5. ASSUME NEW m \in DOMAIN regions \ {w} PROVE ~(regions[m].start <= a /\ a < regions[m].limit)
    <3>1. Apart(regions[w], regions[m])
      BY <2>1 DEF Inv, RegionInv
    <3>2. /\ regions[w].start \in Int /\ regions[w].limit \in Int
          /\ regions[m].start \in Int /\ regions[m].limit \in Int /\ a \in Int
      BY <2>1, Elements, Bounds DEF Inv, Usable
    <3> QED BY <2>4, <3>1, <3>2 DEF Apart
  <2> QED BY <2>4, <2>5
<1> QED BY <1>1, <1>2, <1>3, PhysInvariance, PTL DEF Spec
===============================================================================
