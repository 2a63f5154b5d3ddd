---------------------------- MODULE LxServerProofs ----------------------------
(***************************************************************************)
(* Proofs about LxServer, for any number of CPUs and threads, every set of *)
(* system calls, every layout of user memory and every buffer size:        *)
(* NoServerPanic, ResumeExact and WriteExact.                              *)
(*                                                                         *)
(* Each needs an invariant about where threads are (one place at most, and *)
(* blocked exactly while a handler serves them) and one about the values   *)
(* on the way: what the saved context has in common with the registers     *)
(* left behind, and how far a write has come in the vector of its call.    *)
(***************************************************************************)
EXTENDS LxServer, TLAPS

IovecType == [iov_base : Nat, iov_len : Nat]
Frames == [iovecs : Seq(IovecType), uaddr : Nat, remaining : Nat,
           chunk : [0..(ChunkLen - 1) -> Int], total : Nat, retval : Int]
Labels == {"boot", "user", "syscall", "write", "set_context", "unblock", "return",
           "schedule", "idle", "panic", "oom"}

\* TypeOK, and the types of the handlers' variables and of the ghosts.
Types ==
    /\ state \in [Threads -> {"Unborn", "Blocked", "Runnable", "Terminated"}]
    /\ runqueue \in Seq(Threads)
    /\ context \in [Threads -> [Registers -> Int]]
    /\ cpu \in [CPUs -> [Registers -> Int]]
    /\ current \in [CPUs -> Threads \cup {NoThread}]
    /\ pc \in [CPUs -> Labels]
    /\ frame \in [CPUs -> Frames]
    /\ left \in [Threads -> [Registers -> Int]]
    /\ asked \in [Threads -> Calls \cup {NoCall}]
    /\ printed \in [Threads -> Seq(Int)]

ServingPcs == {"syscall", "write", "set_context", "unblock"}
BusyPcs == ServingPcs \cup {"user"}

\* A handler on c is at work for t, t runs on c, either.
Serves(c, t) == current[c] = t /\ pc[c] \in ServingPcs
RunsOn(c, t) == current[c] = t /\ pc[c] = "user"
Busy(c, t) == current[c] = t /\ pc[c] \in BusyPcs
Queued(t) == \E i \in DOMAIN runqueue : runqueue[i] = t

\* A thread is in one place: a slot of the run queue, a CPU in user mode, or a handler.
PlaceOK ==
    /\ \A c \in CPUs : pc[c] # "panic" /\ (pc[c] \in BusyPcs => current[c] \in Threads)
    /\ \A i, j \in DOMAIN runqueue : runqueue[i] = runqueue[j] => i = j
    /\ \A t \in Threads : Queued(t) => state[t] = "Runnable"
    /\ \A t \in Threads, c \in CPUs :
        /\ Serves(c, t) => state[t] = "Blocked"
        /\ RunsOn(c, t) => state[t] = "Runnable" /\ ~Queued(t)
        /\ Busy(c, t) => \A d \in CPUs : Busy(d, t) => d = c

\* What the thread will find in its registers, and has printed, if it is answered v.
SameRegs(t) == \A r \in Registers \ {"rax", "fsbase"} : context[t][r] = left[t][r]
FsbaseOK(t) ==
    context[t]["fsbase"] = IF SetsFs(asked[t]) THEN asked[t].arg1 ELSE left[t]["fsbase"]
RaxOK(t) ==
    IF asked[t] = NoCall THEN context[t]["rax"] = left[t]["rax"]
                         ELSE context[t]["rax"] \in Answers(asked[t])
PrintedPrefix(t) ==
    LET bytes == BytesOf(Vector(asked[t])) IN
    AllMapped(Vector(asked[t])) =>
        Len(printed[t]) <= Len(bytes) /\ printed[t] = SubSeq(bytes, 1, Len(printed[t]))
PrintedAll(t, v) ==
    AllMapped(Vector(asked[t])) /\ v = Sum(Vector(asked[t]))
        => printed[t] = BytesOf(Vector(asked[t]))

\* The calls that sys_write prints for.
Prints(call) ==
    /\ call.n \in {SYS_WRITE, SYS_WRITEV} /\ ~BadFd(call.arg0)
    /\ call.n = SYS_WRITEV => call.arg2 \in 1..MaxIovecs /\ call.arg1 \in DOMAIN IovecsAt

\* sys_write and sys_writev have come to iovec j of the vector and printed all before it
\* and the part of it that is not remaining.
Progress(t, f) ==
    LET call == asked[t]
        s == Vector(call)
        j == Len(s) - Len(f.iovecs) + 1
    IN
    /\ Prints(call) /\ Len(f.iovecs) \in 1..Len(s)
    /\ \A i \in 1..Len(f.iovecs) : f.iovecs[i] = s[j - 1 + i]
    /\ f.total = SumUpTo(s)[j - 1]
    /\ f.remaining <= s[j].iov_len
    /\ f.uaddr = s[j].iov_base + (s[j].iov_len - f.remaining)
    /\ AllMapped(s) =>
        printed[t] = SubSeq(BytesOf(s), 1, f.total + (s[j].iov_len - f.remaining))

ThreadOK(t) ==
    /\ PrintedPrefix(t)
    /\ state[t] = "Unborn" =>
        /\ context[t] = FreshContext /\ left[t] = FreshContext
        /\ asked[t] = NoCall /\ printed[t] = <<>>
    /\ state[t] = "Runnable" =>
        SameRegs(t) /\ FsbaseOK(t) /\ RaxOK(t) /\ PrintedAll(t, context[t]["rax"])

HandlerOK(c, t) ==
    Serves(c, t) =>
        /\ asked[t] \in Calls /\ SameRegs(t)
        /\ pc[c] = "syscall" =>
            context[t] = left[t] /\ SyscallArgs(t) = asked[t] /\ printed[t] = <<>>
        /\ pc[c] # "syscall" => FsbaseOK(t)
        /\ pc[c] = "write" => Progress(t, frame[c])
        /\ pc[c] = "set_context" =>
            frame[c].retval \in Answers(asked[t]) /\ PrintedAll(t, frame[c].retval)
        /\ pc[c] = "unblock" => RaxOK(t) /\ PrintedAll(t, context[t]["rax"])

ValuesOK ==
    /\ \A t \in Threads : ThreadOK(t)
    /\ \A t \in Threads, c \in CPUs :
        /\ HandlerOK(c, t)
        /\ RunsOn(c, t) => cpu[c]["fsbase"] = context[t]["fsbase"]

Inv == Types /\ PlaceOK /\ ValuesOK
-------------------------------------------------------------------------------
(* Vectors of iovecs.                                                         *)

\* The partial sums of the lengths, the bytes as a whole, and the place of each: what the
\* recursive functions of LxServer compute.  It is proved by induction at the end, in
\* Vectors; the steps assume it.
SumsOK(s) ==
    /\ SumUpTo(s) \in [0..Len(s) -> Nat] /\ SumUpTo(s)[0] = 0
    /\ \A k \in 1..Len(s) : SumUpTo(s)[k] = SumUpTo(s)[k - 1] + s[k].iov_len
BytesOK(s) ==
    /\ Sum(s) \in Nat /\ BytesOf(s) \in Seq(Nat) /\ Len(BytesOf(s)) = Sum(s)
    /\ \A j \in 1..Len(s) :
        /\ SumUpTo(s)[j] <= Sum(s)
        /\ \A m \in 1..s[j].iov_len :
            BytesOf(s)[SumUpTo(s)[j - 1] + m] = s[j].iov_base + (m - 1)
    /\ s = <<>> => Sum(s) = 0 /\ BytesOf(s) = <<>>
VectorsOK == \A s \in Seq(IovecType) : SumsOK(s) /\ BytesOK(s)

\* Byte n of the r bytes at u.
LEMMA LastByte ==
    ASSUME NEW u \in Nat, NEW r \in Nat, NEW n \in 1..r
    PROVE  n \in Nat /\ u + (n - 1) \in u..(u + (r - 1))
OBVIOUS

\* Sequences with the same elements are equal.
LEMMA SameSeq ==
    ASSUME NEW S, NEW q \in Seq(S), NEW r \in Seq(S), Len(q) = Len(r),
           \A k \in 1..Len(q) : q[k] = r[k]
    PROVE  q = r
OBVIOUS

\* A prefix goes on with the bytes that follow.
LEMMA LongerPrefix ==
    ASSUME NEW B \in Seq(Nat), NEW p \in Nat, NEW n \in Nat, p + n <= Len(B),
           NEW e \in Seq(Int), Len(e) = n, \A k \in 1..n : e[k] = B[p + k]
    PROVE  SubSeq(B, 1, p) \o e = SubSeq(B, 1, p + n)
<1>1. PICK P : P = SubSeq(B, 1, p)
  BY Zenon
<1>2. Len(B) \in Nat
  OBVIOUS
<1>3. P \in Seq(Nat) /\ Len(P) = p /\ \A k \in 1..p : P[k] = B[k]
  BY <1>1, <1>2
<1>4. PICK Q : Q = SubSeq(B, 1, p + n)
  BY Zenon
<1>5. Q \in Seq(Nat) /\ Len(Q) = p + n /\ \A k \in 1..(p + n) : Q[k] = B[k]
  BY <1>2, <1>4
<1>6. PICK R : R = P \o e
  BY Zenon
<1>7. P \in Seq(Int) /\ Q \in Seq(Int)
  <2>1. ASSUME NEW z \in Seq(Nat) PROVE z \in Seq(Int)
    OBVIOUS
  <2> QED BY <1>3, <1>5, <2>1
<1>7a. R \in Seq(Int) /\ Len(R) = Len(P) + Len(e)
       /\ \A k \in 1..(Len(P) + Len(e)) : R[k] = IF k <= Len(P) THEN P[k] ELSE e[k - Len(P)]
  BY ONLY <1>6, <1>7, e \in Seq(Int)
<1>7b. /\ Len(R) = p + n
       /\ \A k \in 1..(p + n) : R[k] = IF k <= p THEN P[k] ELSE e[k - p]
  BY <1>3, <1>7a, Zenon
<1>8. ASSUME NEW k \in 1..(p + n) PROVE R[k] = Q[k]
  <2>1. CASE k <= p
    <3>1. R[k] = P[k] /\ k \in 1..p
      BY <1>7b, <2>1
    <3> QED BY <1>3, <1>5, <3>1, Zenon
  <2>2. CASE k > p
    <3>1. R[k] = e[k - p]
      BY <1>7b, <2>2
    <3>2. k - p \in 1..n /\ p + (k - p) = k
      BY <2>2, SMTT(60)
    <3> QED BY <1>5, <3>1, <3>2, Zenon
  <2> QED BY <2>1, <2>2
<1>9. R = Q
  <2>1. Len(R) = Len(Q) /\ \A k \in 1..Len(R) : R[k] = Q[k]
    BY <1>5, <1>7b, <1>8, Zenon
  <2> QED BY <1>7, <1>7a, <2>1, SameSeq, Zenon
<1> QED BY <1>1, <1>4, <1>6, <1>9, Zenon

\* read_bytes() fills the whole chunk when its last byte is readable.
LEMMA FilledAll ==
    ASSUME MemStart \in Nat, MemEnd \in Nat, NEW u \in Nat, NEW n \in Nat, Readable(u + (n - 1))
    PROVE  Filled(u, n) = n
BY DEF Readable, Filled

LEMMA Sums ==
    ASSUME VectorsOK, NEW s \in Seq(IovecType)
    PROVE  /\ SumUpTo(s) \in [0..Len(s) -> Nat] /\ SumUpTo(s)[0] = 0
           /\ \A k \in 1..Len(s) : SumUpTo(s)[k] = SumUpTo(s)[k - 1] + s[k].iov_len
BY Zenon DEF VectorsOK, SumsOK

LEMMA VectorBytes ==
    ASSUME VectorsOK, NEW s \in Seq(IovecType)
    PROVE  /\ Sum(s) \in Nat /\ BytesOf(s) \in Seq(Nat) /\ Len(BytesOf(s)) = Sum(s)
           /\ \A j \in 1..Len(s) :
                /\ SumUpTo(s)[j] <= Sum(s)
                /\ \A m \in 1..s[j].iov_len :
                    BytesOf(s)[SumUpTo(s)[j - 1] + m] = s[j].iov_base + (m - 1)
           /\ s = <<>> => Sum(s) = 0 /\ BytesOf(s) = <<>>
BY Zenon DEF VectorsOK, BytesOK

-------------------------------------------------------------------------------
(* Types and places.                                                          *)

\* What the constants are.
LEMMA Constants ==
    /\ Bsp \in CPUs /\ NoThread \notin Threads /\ Stamps \subseteq Nat
    /\ \A call \in Calls : call.n \in Nat /\ call.arg0 \in Nat /\ call.arg1 \in Nat /\ call.arg2 \in Nat
    /\ NoCall \notin Calls
    /\ MemStart \in Nat /\ MemEnd \in Nat /\ ChunkLen \in Nat \ {0} /\ MaxIovecs \in Nat
    /\ \A a \in DOMAIN IovecsAt : IovecsAt[a] \in Seq(IovecType)
<1>1. \A call \in Calls : call \in [n : Nat, arg0 : Nat, arg1 : Nat, arg2 : Nat]
  BY LxAssumption, Zenon
<1>2. NoCall \notin Calls
  BY <1>1 DEF NoCall
<1> QED BY <1>1, <1>2, LxAssumption, Zenon DEF IovecType

\* The memory a call names is a sequence of iovecs.
LEMMA VectorType ==
    ASSUME NEW call \in Calls \cup {NoCall}
    PROVE  Vector(call) \in Seq(IovecType)
<1>1. CASE call.n = SYS_WRITE
  <2>1. call \in Calls
    BY <1>1 DEF NoCall, SYS_WRITE
  <2>2. Iovec(call.arg1, call.arg2) \in IovecType
    BY <2>1, Constants, Zenon DEF Iovec, IovecType
  <2> QED BY <1>1, <2>2 DEF Vector, SYS_WRITE, SYS_WRITEV
<1>2. CASE call.n = SYS_WRITEV /\ call.arg1 \in DOMAIN IovecsAt
  <2>1. call.arg2 \in Nat /\ IovecsAt[call.arg1] \in Seq(IovecType)
    BY <1>2, Constants DEF NoCall, SYS_WRITEV
  <2>2. Iovec(0, 0) \in IovecType
    BY Zenon DEF Iovec, IovecType
  <2>3. Iovecs(call.arg1, call.arg2) \in Seq(IovecType)
    BY <2>1, <2>2 DEF Iovecs
  <2> QED BY <1>2, <2>3 DEF Vector, SYS_WRITE, SYS_WRITEV
<1>3. CASE call.n # SYS_WRITE /\ ~(call.n = SYS_WRITEV /\ call.arg1 \in DOMAIN IovecsAt)
  BY <1>3 DEF Vector
<1> QED BY <1>1, <1>2, <1>3, Zenon

\* The registers and frames the code writes.
LEMMA RegisterTypes ==
    /\ FreshContext \in [Registers -> Int] /\ NoFrame \in Frames
    /\ \A old, regs \in [Registers -> Int] :
        /\ SaveOnSyscall(old, regs) \in [Registers -> Int]
        /\ SaveOnInterrupt(old, regs) \in [Registers -> Int]
        /\ SyscallInstruction(regs) \in [Registers -> Int]
    /\ \A regs \in [Registers -> Int], call \in Calls : WithArgs(regs, call) \in [Registers -> Int]
<1>1. FreshContext \in [Registers -> Int]
  BY DEF FreshContext, Registers
<1>2. NoFrame \in Frames
  <2>1. ZeroChunk \in [0..(ChunkLen - 1) -> Int]
    BY DEF ZeroChunk
  <2> QED BY <2>1 DEF NoFrame, Frames
<1>3. ASSUME NEW old \in [Registers -> Int], NEW regs \in [Registers -> Int]
      PROVE  /\ SaveOnSyscall(old, regs) \in [Registers -> Int]
             /\ SaveOnInterrupt(old, regs) \in [Registers -> Int]
             /\ SyscallInstruction(regs) \in [Registers -> Int]
  <2>1. SaveOnSyscall(old, regs) \in [Registers -> Int]
    <3>1. \A r \in Registers : regs[r] \in Int /\ old[r] \in Int
      BY Zenon
    <3>2. regs["rcx"] \in Int /\ regs["r11"] \in Int /\ old["fsbase"] \in Int
      BY Zenon DEF Registers
    <3> QED BY <3>1, <3>2, Zenon DEF SaveOnSyscall
  <2>2. SaveOnInterrupt(old, regs) \in [Registers -> Int]
    BY Zenon DEF SaveOnInterrupt
  <2>3. SyscallInstruction(regs) \in [Registers -> Int]
    BY Zenon DEF SyscallInstruction, Registers
  <2> QED BY <2>1, <2>2, <2>3, Zenon
<1>4. ASSUME NEW regs \in [Registers -> Int], NEW call \in Calls
      PROVE  WithArgs(regs, call) \in [Registers -> Int]
  <2>1. call.n \in Int /\ call.arg0 \in Int /\ call.arg1 \in Int /\ call.arg2 \in Int
    BY Constants
  <2> QED BY <2>1, Zenon DEF WithArgs, Registers
<1> QED BY <1>1, <1>2, <1>3, <1>4, Zenon

\* A step of c leaves the other CPUs alone, one for t the other threads.
OnlyCpu(c) ==
    \A d \in CPUs \ {c} :
        pc'[d] = pc[d] /\ current'[d] = current[d] /\ frame'[d] = frame[d] /\ cpu'[d] = cpu[d]
SameThread(t) ==
    /\ state'[t] = state[t] /\ context'[t] = context[t] /\ left'[t] = left[t]
    /\ asked'[t] = asked[t] /\ printed'[t] = printed[t]
OnlyThread(t) == \A u \in Threads \ {t} : SameThread(u)

Elems(q) == {q[i] : i \in DOMAIN q}
Injective(q) == \A i, j \in DOMAIN q : q[i] = q[j] => i = j

\* t moves, the other threads stay where they are.
LEMMA PlaceStep ==
    ASSUME Types, PlaceOK, NEW c \in CPUs, NEW t \in Threads, OnlyCpu(c),
           pc'[c] # "panic", pc'[c] \in BusyPcs => current'[c] = t,
           \A d \in CPUs \ {c} : ~Busy(d, t),
           \A u \in Threads \ {t} : state'[u] = state[u] /\ (Queued(u)' <=> Queued(u)),
           Injective(runqueue'),
           Queued(t)' => state'[t] = "Runnable" /\ pc'[c] \notin BusyPcs,
           pc'[c] \in ServingPcs => state'[t] = "Blocked",
           pc'[c] = "user" => state'[t] = "Runnable"
    PROVE  PlaceOK'
<1>1. \A d \in CPUs : pc'[d] # "panic" /\ (pc'[d] \in BusyPcs => current'[d] \in Threads)
  BY DEF PlaceOK, OnlyCpu
<1>2. \A d \in CPUs \ {c} : \A u \in Threads :
        /\ Busy(d, u)' <=> Busy(d, u)
        /\ Serves(d, u)' <=> Serves(d, u)
        /\ RunsOn(d, u)' <=> RunsOn(d, u)
  BY Zenon DEF OnlyCpu, Busy, Serves, RunsOn
<1>3. \A u \in Threads : Busy(c, u)' => u = t
  BY Zenon DEF Busy
<1>4. \A u \in Threads : Queued(u)' => state'[u] = "Runnable"
  BY Zenon DEF PlaceOK
<1>5. \A u \in Threads, d \in CPUs : Serves(d, u)' \/ RunsOn(d, u)' => Busy(d, u)'
  BY Zenon DEF Serves, RunsOn, Busy, BusyPcs
<1>6. \A u \in Threads, d \in CPUs : Serves(d, u) \/ RunsOn(d, u) => Busy(d, u)
  BY Zenon DEF Serves, RunsOn, Busy, BusyPcs
<1>7. ASSUME NEW u \in Threads, NEW d \in CPUs, Serves(d, u)' PROVE state'[u] = "Blocked"
  <2>1. CASE d = c
    BY <1>3, <1>5, <1>7, <2>1, Zenon DEF Serves
  <2>2. CASE d # c
    <3>1. Serves(d, u) /\ u # t
      BY <1>2, <1>6, <1>7, <2>2
    <3> QED BY <3>1, Zenon DEF PlaceOK
  <2> QED BY <2>1, <2>2, Zenon
<1>8. ASSUME NEW u \in Threads, NEW d \in CPUs, RunsOn(d, u)'
      PROVE  state'[u] = "Runnable" /\ ~Queued(u)'
  <2>1. CASE d = c
    BY <1>3, <1>5, <1>8, <2>1, Zenon DEF RunsOn, BusyPcs
  <2>2. CASE d # c
    <3>1. RunsOn(d, u) /\ u # t
      BY <1>2, <1>6, <1>8, <2>2
    <3> QED BY <3>1, Zenon DEF PlaceOK
  <2> QED BY <2>1, <2>2, Zenon
<1>9. ASSUME NEW u \in Threads, NEW d \in CPUs, NEW e \in CPUs, Busy(d, u)', Busy(e, u)'
      PROVE  d = e
  <2>1. CASE u = t
    BY <1>2, <1>9, <2>1, Zenon
  <2>2. CASE u # t
    <3>1. Busy(d, u) /\ Busy(e, u)
      BY <1>2, <1>3, <1>9, <2>2, Zenon
    <3> QED BY <3>1, Zenon DEF PlaceOK
  <2> QED BY <2>1, <2>2, Zenon
<1> QED BY <1>1, <1>4, <1>7, <1>8, <1>9, Zenon DEF PlaceOK, Injective

\* c is left with no thread, nothing else moves.
LEMMA PlaceIdle ==
    ASSUME Types, PlaceOK, NEW c \in CPUs, OnlyCpu(c), runqueue' = runqueue, state' = state,
           pc'[c] \notin BusyPcs \cup {"panic"}
    PROVE  PlaceOK'
<1>1. \A d \in CPUs, u \in Threads :
        /\ Busy(d, u)' => Busy(d, u)
        /\ Serves(d, u)' => Serves(d, u)
        /\ RunsOn(d, u)' => RunsOn(d, u)
  BY Zenon DEF OnlyCpu, Busy, Serves, RunsOn, BusyPcs
<1>2. \A d \in CPUs : pc'[d] # "panic" /\ (pc'[d] \in BusyPcs => current'[d] \in Threads)
  BY Zenon DEF PlaceOK, OnlyCpu
<1>3. \A u \in Threads : Queued(u)' <=> Queued(u)
  BY Zenon DEF Queued
<1> QED BY <1>1, <1>2, <1>3, Zenon DEF PlaceOK

\* A handler that nothing happens to.
LEMMA HandlerKept ==
    ASSUME NEW d \in CPUs, NEW u \in Threads, SameThread(u), HandlerOK(d, u),
           frame'[d] = frame[d], pc'[d] = pc[d], current'[d] = current[d]
    PROVE  HandlerOK(d, u)'
<1>1. Progress(u, frame[d]) => Progress(u, frame[d])'
  BY Zenon DEF SameThread, Progress
<1>2. /\ SameRegs(u)' <=> SameRegs(u)
      /\ FsbaseOK(u)' <=> FsbaseOK(u)
      /\ RaxOK(u)' <=> RaxOK(u)
      /\ SyscallArgs(u)' = SyscallArgs(u)
      /\ Serves(d, u)' <=> Serves(d, u)
  BY Zenon DEF SameThread, SameRegs, FsbaseOK, RaxOK, SyscallArgs, Serves
<1>3. /\ PrintedAll(u, frame[d].retval) => PrintedAll(u, frame[d].retval)'
      /\ PrintedAll(u, context[u]["rax"]) => PrintedAll(u, context[u]["rax"])'
  BY Zenon DEF SameThread, PrintedAll
<1> QED BY <1>1, <1>2, <1>3, Zenon DEF HandlerOK, SameThread

\* A thread that nothing happens to.
LEMMA ThreadKept ==
    ASSUME NEW u \in Threads, SameThread(u), ThreadOK(u)
    PROVE  ThreadOK(u)'
BY DEF SameThread, ThreadOK, PrintedPrefix, SameRegs, FsbaseOK, RaxOK, PrintedAll

\* A thread whose rax takes the answer to the call it asked.
LEMMA AnsweredRax ==
    ASSUME NEW t \in Threads, NEW v, asked[t] \in Calls, v \in Answers(asked[t]),
           PrintedAll(t, v), context'[t]["rax"] = v, asked' = asked, printed' = printed
    PROVE  RaxOK(t)' /\ PrintedAll(t, context[t]["rax"])'
BY Constants, Zenon DEF RaxOK, PrintedAll

\* The other threads and CPUs keep their values.
LEMMA ValuesStep ==
    ASSUME ValuesOK, NEW c \in CPUs, NEW t \in Threads, OnlyCpu(c), OnlyThread(t),
           \A d \in CPUs \ {c} : ~Busy(d, t),
           \A u \in Threads \ {t} : ~Busy(c, u)',
           ThreadOK(t)', HandlerOK(c, t)',
           RunsOn(c, t)' => cpu'[c]["fsbase"] = context'[t]["fsbase"]
    PROVE  ValuesOK'
<1>1. \A u \in Threads \ {t} : ThreadOK(u)'
  BY ThreadKept, Zenon DEF ValuesOK, OnlyThread
<1>2. ASSUME NEW d \in CPUs \ {c}, NEW u \in Threads \ {t} PROVE HandlerOK(d, u)'
  <2>1. /\ SameThread(u) /\ frame'[d] = frame[d] /\ pc'[d] = pc[d] /\ current'[d] = current[d]
        /\ HandlerOK(d, u)
    BY Zenon DEF ValuesOK, OnlyCpu, OnlyThread
  <2> QED BY <2>1, HandlerKept, Zenon
<1>3. ASSUME NEW d \in CPUs \ {c}, NEW u \in Threads \ {t}, RunsOn(d, u)'
      PROVE  cpu'[d]["fsbase"] = context'[u]["fsbase"]
  BY <1>3 DEF ValuesOK, OnlyCpu, OnlyThread, SameThread, RunsOn
<1>4. ASSUME NEW d \in CPUs \ {c} PROVE ~Serves(d, t)' /\ ~RunsOn(d, t)'
  BY Zenon DEF OnlyCpu, Busy, Serves, RunsOn, BusyPcs
<1>5. ASSUME NEW u \in Threads \ {t} PROVE ~Serves(c, u)' /\ ~RunsOn(c, u)'
  BY Zenon DEF Busy, Serves, RunsOn, BusyPcs
<1>6. \A u \in Threads, d \in CPUs : HandlerOK(d, u)'
  BY <1>2, <1>4, <1>5 DEF HandlerOK
<1>7. \A u \in Threads, d \in CPUs : RunsOn(d, u)' => cpu'[d]["fsbase"] = context'[u]["fsbase"]
  BY <1>3, <1>4, <1>5, Zenon
<1> QED BY <1>1, <1>6, <1>7, Zenon DEF ValuesOK

\* c is left with no thread, no values change.
LEMMA ValuesIdle ==
    ASSUME ValuesOK, NEW c \in CPUs, OnlyCpu(c), \A u \in Threads : SameThread(u),
           pc'[c] \notin BusyPcs
    PROVE  ValuesOK'
<1>1. \A u \in Threads : ThreadOK(u)'
  BY DEF ValuesOK, SameThread, ThreadOK, PrintedPrefix, SameRegs, FsbaseOK, RaxOK, PrintedAll
<1>2. ASSUME NEW d \in CPUs \ {c}, NEW u \in Threads PROVE HandlerOK(d, u)'
  <2>1. /\ SameThread(u) /\ frame'[d] = frame[d] /\ pc'[d] = pc[d] /\ current'[d] = current[d]
        /\ HandlerOK(d, u)
    BY Zenon DEF ValuesOK, OnlyCpu
  <2> QED BY <2>1, HandlerKept, Zenon
<1>3. ASSUME NEW d \in CPUs \ {c}, NEW u \in Threads, RunsOn(d, u)'
      PROVE  cpu'[d]["fsbase"] = context'[u]["fsbase"]
  BY <1>3 DEF ValuesOK, OnlyCpu, SameThread, RunsOn
<1>4. ASSUME NEW u \in Threads PROVE ~Serves(c, u)' /\ ~RunsOn(c, u)'
  BY Zenon DEF Serves, RunsOn, BusyPcs
<1>5. \A u \in Threads, d \in CPUs : HandlerOK(d, u)'
  BY <1>2, <1>4, Zenon DEF HandlerOK
<1> QED BY <1>1, <1>3, <1>4, <1>5, Zenon DEF ValuesOK

\* Pushing at either end of the run queue adds that one thread, and no second entry.
LEMMA PushedQueue ==
    ASSUME NEW q \in Seq(Threads), NEW t \in Threads, NEW r,
           r = Append(q, t) \/ r = <<t>> \o q
    PROVE  /\ r \in Seq(Threads)
           /\ Elems(r) = Elems(q) \cup {t}
           /\ Injective(q) /\ t \notin Elems(q) => Injective(r)
<1>1. CASE r = Append(q, t)
  <2>1. r \in Seq(Threads) /\ Len(r) = Len(q) + 1 /\ DOMAIN r = 1..(Len(q) + 1) /\ DOMAIN q = 1..Len(q)
    BY <1>1
  <2>2. r[Len(q) + 1] = t /\ \A i \in 1..Len(q) : r[i] = q[i]
    BY <1>1
  <2>3. ASSUME NEW x PROVE x \in Elems(r) <=> x \in Elems(q) \/ x = t
    BY <2>1, <2>2 DEF Elems
  <2>4. Injective(q) /\ t \notin Elems(q) => Injective(r)
    BY <2>1, <2>2 DEF Elems, Injective
  <2> QED BY <2>1, <2>3, <2>4, Zenon
<1>2. CASE r = <<t>> \o q
  <2>1. r \in Seq(Threads) /\ Len(r) = Len(q) + 1 /\ DOMAIN r = 1..(Len(q) + 1) /\ DOMAIN q = 1..Len(q)
    BY <1>2
  <2>2. r[1] = t /\ \A i \in 1..Len(q) : r[i + 1] = q[i]
    BY <1>2
  <2>3. \A i \in 2..(Len(q) + 1) : i - 1 \in 1..Len(q) /\ r[i] = q[i - 1]
    BY <2>2
  <2>a. 1..(Len(q) + 1) = {1} \cup 2..(Len(q) + 1) /\ \A i \in 1..Len(q) : i + 1 \in 1..(Len(q) + 1)
    OBVIOUS
  <2>4. ASSUME NEW x PROVE x \in Elems(r) <=> x \in Elems(q) \/ x = t
    <3>1. x \in Elems(q) => x \in Elems(r)
      BY <2>1, <2>2, <2>a, Zenon DEF Elems
    <3>2. t \in Elems(r)
      BY <2>1, <2>2, <2>a, Zenon DEF Elems
    <3>3. ASSUME x \in Elems(r) PROVE x \in Elems(q) \/ x = t
      <4>1. PICK i \in 1..(Len(q) + 1) : x = r[i]
        BY <2>1, <3>3, Zenon DEF Elems
      <4>2. CASE i \in 2..(Len(q) + 1)
        BY <2>1, <2>3, <4>1, <4>2, Zenon DEF Elems
      <4> QED BY <2>2, <2>a, <4>1, <4>2, Zenon
    <3> QED BY <3>1, <3>2, <3>3, Zenon
  <2>5. ASSUME Injective(q), t \notin Elems(q) PROVE Injective(r)
    <3> SUFFICES ASSUME NEW i \in 1..(Len(q) + 1), NEW j \in 1..(Len(q) + 1), r[i] = r[j]
                 PROVE  i = j
      BY <2>1, Zenon DEF Injective
    <3>1. \A k \in 1..Len(q) : q[k] # t
      BY <2>5, <2>1, Zenon DEF Elems
    <3>2. i = 1 <=> j = 1
      BY <2>2, <2>3, <2>a, <3>1, Zenon
    <3>3. CASE i # 1 /\ j # 1
      <4>1. i \in 2..(Len(q) + 1) /\ j \in 2..(Len(q) + 1)
        BY <2>a, <3>3, Zenon
      <4>2. q[i - 1] = q[j - 1] /\ i - 1 \in 1..Len(q) /\ j - 1 \in 1..Len(q)
        BY <2>3, <4>1, Zenon
      <4>3. i - 1 = j - 1
        BY <2>1, <2>5, <4>2, Zenon DEF Injective
      <4> QED BY <4>1, <4>3
    <3> QED BY <3>2, <3>3, Zenon
  <2> QED BY <2>1, <2>4, <2>5, Zenon
<1> QED BY <1>1, <1>2, Zenon

\* Popping the run queue removes its head, and only that.
LEMMA PoppedQueue ==
    ASSUME NEW q \in Seq(Threads), q # <<>>, Injective(q)
    PROVE  /\ Head(q) \in Elems(q) /\ Head(q) \in Threads
           /\ Tail(q) \in Seq(Threads)
           /\ Elems(Tail(q)) = Elems(q) \ {Head(q)}
           /\ Injective(Tail(q))
<1>1. Len(q) \in Nat \ {0} /\ DOMAIN q = 1..Len(q) /\ Head(q) = q[1] /\ q[1] \in Threads
  OBVIOUS
<1>2. /\ Tail(q) \in Seq(Threads) /\ DOMAIN Tail(q) = 1..(Len(q) - 1)
      /\ \A i \in 1..(Len(q) - 1) : Tail(q)[i] = q[i + 1]
  BY <1>1
<1>3. Elems(Tail(q)) = Elems(q) \ {Head(q)}
  <2>1. \A i \in 2..Len(q) : i - 1 \in 1..(Len(q) - 1) /\ Tail(q)[i - 1] = q[i]
    BY <1>1, <1>2
  <2>2. ASSUME NEW x, x \in Elems(Tail(q)) PROVE x \in Elems(q) /\ x # q[1]
    <3>1. PICK i \in 1..(Len(q) - 1) : x = q[i + 1]
      BY <1>2, <2>2, Zenon DEF Elems
    <3>2. i + 1 \in 1..Len(q) /\ 1 \in 1..Len(q) /\ i + 1 # 1
      BY <1>1
    <3> QED BY <1>1, <3>1, <3>2, Zenon DEF Elems, Injective
  <2>3. ASSUME NEW x, x \in Elems(q), x # q[1] PROVE x \in Elems(Tail(q))
    <3>1. PICK i \in 1..Len(q) : x = q[i]
      BY <1>1, <2>3, Zenon DEF Elems
    <3>2. i \in 2..Len(q)
      BY <1>1, <2>3, <3>1
    <3> QED BY <1>2, <2>1, <3>1, <3>2, ZenonT(30) DEF Elems
  <2> QED BY <1>1, <2>2, <2>3, Zenon
<1>4. Injective(Tail(q))
  BY <1>1, <1>2 DEF Injective
<1>5. Head(q) \in Elems(q)
  BY <1>1 DEF Elems
<1> QED BY <1>1, <1>2, <1>3, <1>4, <1>5, Zenon

\* Being queued is being an element of the run queue.
LEMMA QueuedElems ==
    /\ \A t : Queued(t) <=> t \in Elems(runqueue)
    /\ \A t : Queued(t)' <=> t \in Elems(runqueue')
BY Zenon DEF Queued, Elems

-------------------------------------------------------------------------------
(* One lemma per step.                                                        *)

\* The saved context of a system call is what the thread left, apart from fsbase, which
\* the CPU still has from the context.
LEMMA SavedRegs ==
    ASSUME NEW old \in [Registers -> Int], NEW regs \in [Registers -> Int],
           regs["fsbase"] = old["fsbase"]
    PROVE  /\ SaveOnInterrupt(old, regs) = regs
           /\ SaveOnSyscall(old, SyscallInstruction(regs)) = SyscallInstruction(regs)
<1>1. SaveOnInterrupt(old, regs) = regs
  BY Zenon DEF SaveOnInterrupt
<1>2. SaveOnSyscall(old, SyscallInstruction(regs)) = SyscallInstruction(regs)
  <2> DEFINE after == SyscallInstruction(regs)
  <2>1. /\ after \in [Registers -> Int] /\ after["rcx"] = after["rip"]
        /\ after["r11"] = after["rflags"] /\ after["fsbase"] = old["fsbase"]
    BY Zenon DEF SyscallInstruction, Registers
  <2> HIDE DEF after
  <2>2. SaveOnSyscall(old, after) = after
    BY <2>1, Zenon DEF SaveOnSyscall
  <2> QED BY <2>2, Zenon DEF after
<1> QED BY <1>1, <1>2, Zenon

\* User code changes its registers, but fsbase.
LEMMA UserRunInv ==
    ASSUME Inv, NEW c \in CPUs, NEW v \in Stamps, UserRun(c, v)
    PROVE  Inv'
<1> USE DEF UserRun, ghosts
<1>0. v \in Int
  BY Constants
<1>1. Types'
  <2>1. [r \in Registers |-> IF r = "fsbase" THEN cpu[c][r] ELSE v] \in [Registers -> Int]
    BY <1>0 DEF Inv, Types
  <2> QED BY <2>1, Zenon DEF Inv, Types
<1>2. PlaceOK'
  BY Zenon DEF Inv, PlaceOK, Serves, RunsOn, Busy, Queued
<1>3. \A d \in CPUs : cpu'[d]["fsbase"] = cpu[d]["fsbase"]
  BY Zenon DEF Inv, Types, Registers
<1>4. ValuesOK'
  <2>1. ASSUME NEW t \in Threads, NEW d \in CPUs
        PROVE  /\ ThreadOK(t)' /\ HandlerOK(d, t)'
               /\ RunsOn(d, t)' => cpu'[d]["fsbase"] = context'[t]["fsbase"]
    <3>1. ThreadOK(t) /\ HandlerOK(d, t) /\ (RunsOn(d, t) => cpu[d]["fsbase"] = context[t]["fsbase"])
      BY Zenon DEF Inv, ValuesOK
    <3>2. SameThread(t) /\ frame'[d] = frame[d] /\ pc'[d] = pc[d] /\ current'[d] = current[d]
      BY Zenon DEF SameThread
    <3>3. ThreadOK(t)'
      BY <3>1, <3>2, Zenon DEF SameThread, ThreadOK, PrintedPrefix, SameRegs, FsbaseOK, RaxOK, PrintedAll
    <3>4. HandlerOK(d, t)'
      BY <3>1, <3>2, HandlerKept, Zenon
    <3> QED BY <1>3, <3>1, <3>2, <3>3, <3>4, Zenon DEF RunsOn, SameThread
  <2>2. ASSUME NEW t \in Threads PROVE ThreadOK(t)'
    BY <2>1, Zenon
  <2> QED BY <2>1, Zenon DEF ValuesOK
<1> QED BY <1>1, <1>2, <1>4, Zenon DEF Inv

\* To have printed nothing is to have printed a prefix.
LEMMA NothingPrinted ==
    ASSUME VectorsOK, NEW call \in Calls \cup {NoCall}
    PROVE  LET bytes == BytesOf(Vector(call)) IN
           Len(<<>>) <= Len(bytes) /\ <<>> = SubSeq(bytes, 1, Len(<<>>))
<1> DEFINE bytes == BytesOf(Vector(call))
<1>1. bytes \in Seq(Nat) /\ Len(bytes) \in Nat
  BY VectorType, VectorBytes, Zenon
<1>2. SubSeq(bytes, 1, 0) = <<>> /\ Len(<<>>) = 0
  BY <1>1
<1> QED BY <1>1, <1>2

\* The system call: t leaves user mode with the registers that are saved.
LEMMA SyscallEntryInv ==
    ASSUME VectorsOK, Inv, NEW c \in CPUs, NEW call \in Calls, SyscallEntry(c, call)
    PROVE  Inv'
<1>0. PICK t : t = current[c]
  BY Zenon
<1>1. t \in Threads /\ RunsOn(c, t) /\ Busy(c, t) /\ pc[c] = "user"
  BY <1>0, Zenon DEF SyscallEntry, Inv, PlaceOK, RunsOn, Busy, BusyPcs
<1>2. PICK regs : regs = SyscallInstruction(WithArgs(cpu[c], call))
  BY Zenon
<1>3. /\ context' = [context EXCEPT ![t] = SaveOnSyscall(context[t], regs)]
      /\ state' = [state EXCEPT ![t] = "Blocked"]
      /\ pc' = [pc EXCEPT ![c] = "syscall"]
      /\ cpu' = [cpu EXCEPT ![c] = FreshContext]
      /\ left' = [left EXCEPT ![t] = regs]
      /\ asked' = [asked EXCEPT ![t] = call]
      /\ printed' = [printed EXCEPT ![t] = <<>>]
      /\ runqueue' = runqueue /\ current' = current /\ frame' = frame
  BY <1>0, <1>1, <1>2, Zenon DEF SyscallEntry, Goto, Inv, Types
<1>4. /\ SaveOnSyscall(context[t], regs) = regs /\ regs \in [Registers -> Int]
      /\ regs["rax"] = call.n /\ regs["rdi"] = call.arg0 /\ regs["rsi"] = call.arg1
      /\ regs["rdx"] = call.arg2 /\ regs["fsbase"] = context[t]["fsbase"]
  <2> DEFINE w == WithArgs(cpu[c], call)
  <2>1. cpu[c] \in [Registers -> Int] /\ context[t] \in [Registers -> Int]
    BY <1>1, Zenon DEF Inv, Types
  <2>2. w \in [Registers -> Int]
    BY <2>1, RegisterTypes, Zenon
  <2>3. /\ w["rax"] = call.n /\ w["rdi"] = call.arg0 /\ w["rsi"] = call.arg1
        /\ w["rdx"] = call.arg2 /\ w["fsbase"] = cpu[c]["fsbase"]
    BY <2>1, Zenon DEF WithArgs, Registers
  <2>4. cpu[c]["fsbase"] = context[t]["fsbase"]
    BY <1>1, Zenon DEF Inv, ValuesOK
  <2> HIDE DEF w
  <2>5. regs = SyscallInstruction(w)
    BY <1>2, Zenon DEF w
  <2>6. SaveOnSyscall(context[t], regs) = regs
    BY <2>1, <2>2, <2>3, <2>4, <2>5, SavedRegs, Zenon
  <2> QED BY <2>2, <2>3, <2>4, <2>5, <2>6, Zenon DEF SyscallInstruction, Registers
<1>5. Types'
  <2>1. <<>> \in Seq(Int) /\ FreshContext \in [Registers -> Int] /\ call \in Calls \cup {NoCall}
    BY RegisterTypes
  <2>2. context' \in [Threads -> [Registers -> Int]] /\ left' \in [Threads -> [Registers -> Int]]
    BY <1>3, <1>4, Zenon DEF Inv, Types
  <2>3. cpu' \in [CPUs -> [Registers -> Int]] /\ printed' \in [Threads -> Seq(Int)]
    BY <1>3, <2>1, Zenon DEF Inv, Types
  <2>4. asked' \in [Threads -> Calls \cup {NoCall}]
    BY <1>3, <2>1, ZenonT(60) DEF Inv, Types
  <2> QED BY <1>3, <2>2, <2>3, <2>4, Zenon DEF Inv, Types, Labels
<1>6. OnlyCpu(c)
  BY <1>3, Zenon DEF OnlyCpu, Inv, Types
<1>7. OnlyThread(t)
  BY <1>3, Zenon DEF OnlyThread, SameThread, Inv, Types
<1>8. \A d \in CPUs \ {c} : ~Busy(d, t)
  BY <1>1, Zenon DEF Inv, PlaceOK
<1>9. pc'[c] = "syscall" /\ current'[c] = t /\ state'[t] = "Blocked" /\ ~Queued(t)
  BY <1>0, <1>1, <1>3 DEF Inv, Types, PlaceOK
<1>10. PlaceOK'
  <2>1. \A u : Queued(u)' <=> Queued(u)
    BY <1>3, Zenon DEF Queued
  <2>2. Injective(runqueue')
    BY <1>3, Zenon DEF Inv, PlaceOK, Injective
  <2>3. \A u \in Threads \ {t} : state'[u] = state[u]
    BY <1>7, Zenon DEF OnlyThread, SameThread
  <2> QED BY <1>1, <1>6, <1>8, <1>9, <2>1, <2>2, <2>3, PlaceStep, Zenon DEF Inv, BusyPcs, ServingPcs
<1>11. /\ context'[t] = regs /\ left'[t] = regs /\ asked'[t] = call /\ printed'[t] = <<>>
  BY <1>1, <1>3, <1>4, Zenon DEF Inv, Types
<1>12. ThreadOK(t)'
  <2>1. PrintedPrefix(t)'
    BY <1>11, NothingPrinted, Zenon DEF PrintedPrefix
  <2> QED BY <1>9, <2>1, Zenon DEF ThreadOK
<1>13. HandlerOK(c, t)'
  <2>1. SyscallArgs(t)' = call
    <3>1. call \in [n : Nat, arg0 : Nat, arg1 : Nat, arg2 : Nat]
      BY LxAssumption, Zenon
    <3> QED BY <1>4, <1>11, <3>1, Zenon DEF SyscallArgs
  <2> QED BY <1>9, <1>11, <2>1, Zenon DEF HandlerOK, SameRegs
<1>14. \A u \in Threads \ {t} : ~Busy(c, u)'
  BY <1>9, Zenon DEF Busy
<1>15. ~RunsOn(c, t)'
  BY <1>9, Zenon DEF RunsOn
<1>16. ValuesOK'
  BY <1>1, <1>6, <1>7, <1>8, <1>12, <1>13, <1>14, <1>15, ValuesStep, Zenon DEF Inv
<1> QED BY <1>5, <1>10, <1>16, Zenon DEF Inv

\* A thread that made no call has nothing to print and no fsbase to set.
LEMMA NoCallFacts ==
    ASSUME VectorsOK
    PROVE  Vector(NoCall) = <<>> /\ ~SetsFs(NoCall) /\ BytesOf(Vector(NoCall)) = <<>>
<1>1. Vector(NoCall) = <<>> /\ ~SetsFs(NoCall)
  BY DEF Vector, SetsFs, NoCall, SYS_WRITE, SYS_WRITEV, SYS_ARCH_PRCTL
<1> QED BY <1>1, VectorType, VectorBytes, Zenon

\* An interrupt: t goes back to the queue with the registers it left.
LEMMA InterruptInv ==
    ASSUME VectorsOK, Inv, NEW c \in CPUs, Interrupt(c)
    PROVE  Inv'
<1>0. PICK t : t = current[c]
  BY Zenon
<1>1. t \in Threads /\ RunsOn(c, t) /\ Busy(c, t) /\ pc[c] = "user"
  BY <1>0, Zenon DEF Interrupt, Inv, PlaceOK, RunsOn, Busy, BusyPcs
<1>2. PICK regs : regs = cpu[c]
  BY Zenon
<1>3. /\ context' = [context EXCEPT ![t] = SaveOnInterrupt(context[t], regs)]
      /\ cpu' = [cpu EXCEPT ![c] = FreshContext]
      /\ left' = [left EXCEPT ![t] = regs]
      /\ asked' = [asked EXCEPT ![t] = NoCall]
      /\ printed' = [printed EXCEPT ![t] = <<>>]
      /\ state' = state /\ frame' = frame
  BY <1>0, <1>1, <1>2, Zenon DEF Interrupt, Goto, Inv, Types
<1>3a. \/ /\ runqueue' = <<t>> \o runqueue /\ pc' = [pc EXCEPT ![c] = "schedule"]
          /\ current' = [current EXCEPT ![c] = NoThread]
       \/ runqueue' = runqueue /\ pc' = [pc EXCEPT ![c] = "oom"] /\ current' = current
  BY <1>0, Zenon DEF Interrupt, Push, RunOut, Goto
<1>3b. PICK l \in {"schedule", "oom"} : pc' = [pc EXCEPT ![c] = l]
  BY <1>3a, Zenon
<1>4. SaveOnInterrupt(context[t], regs) = regs /\ regs \in [Registers -> Int]
  <2>1. regs \in [Registers -> Int] /\ context[t] \in [Registers -> Int]
    BY <1>1, <1>2, Zenon DEF Inv, Types
  <2>2. regs["fsbase"] = context[t]["fsbase"]
    BY <1>1, <1>2, Zenon DEF Inv, ValuesOK
  <2> QED BY <2>1, <2>2, SavedRegs, Zenon
<1>5. state[t] = "Runnable" /\ ~Queued(t)
  BY <1>1, Zenon DEF Inv, PlaceOK
<1>6. /\ runqueue' \in Seq(Threads) /\ Injective(runqueue')
      /\ \A u \in Threads \ {t} : Queued(u)' <=> Queued(u)
  <2>1. runqueue \in Seq(Threads) /\ Injective(runqueue) /\ t \notin Elems(runqueue)
    BY <1>5, QueuedElems, Zenon DEF Inv, Types, PlaceOK, Injective
  <2>2. CASE runqueue' = <<t>> \o runqueue
    <3>1. runqueue' \in Seq(Threads) /\ Elems(runqueue') = Elems(runqueue) \cup {t} /\ Injective(runqueue')
      BY <1>1, <2>1, <2>2, PushedQueue, Zenon
    <3> QED BY <3>1, QueuedElems, Zenon
  <2> QED BY <1>3a, <2>1, <2>2, QueuedElems, Zenon
<1>7. Types'
  <2>1. <<>> \in Seq(Int) /\ FreshContext \in [Registers -> Int]
    BY RegisterTypes
  <2>2. context' \in [Threads -> [Registers -> Int]] /\ left' \in [Threads -> [Registers -> Int]]
    BY <1>3, <1>4, Zenon DEF Inv, Types
  <2>3. cpu' \in [CPUs -> [Registers -> Int]] /\ printed' \in [Threads -> Seq(Int)]
    BY <1>3, <2>1, Zenon DEF Inv, Types
  <2>4. asked' \in [Threads -> Calls \cup {NoCall}] /\ current' \in [CPUs -> Threads \cup {NoThread}]
    BY <1>3, <1>3a, Zenon DEF Inv, Types
  <2> QED BY <1>3, <1>3b, <1>6, <2>2, <2>3, <2>4, Zenon DEF Inv, Types, Labels
<1>8. OnlyCpu(c)
  BY <1>3, <1>3a, Zenon DEF OnlyCpu, Inv, Types
<1>9. OnlyThread(t)
  BY <1>3, Zenon DEF OnlyThread, SameThread, Inv, Types
<1>10. \A d \in CPUs \ {c} : ~Busy(d, t)
  BY <1>1, Zenon DEF Inv, PlaceOK
<1>11. pc'[c] = l /\ l \in {"schedule", "oom"}
  BY <1>3b, Zenon DEF Inv, Types
<1>12. PlaceOK'
  <2>1. \A u \in Threads \ {t} : state'[u] = state[u] /\ (Queued(u)' <=> Queued(u))
    BY <1>3, <1>6, Zenon
  <2> QED BY <1>1, <1>3, <1>5, <1>6, <1>8, <1>10, <1>11, <2>1, PlaceStep, Zenon DEF Inv, BusyPcs, ServingPcs
<1>13. /\ context'[t] = regs /\ left'[t] = regs /\ asked'[t] = NoCall /\ printed'[t] = <<>>
       /\ state'[t] = "Runnable"
  BY <1>1, <1>3, <1>4, <1>5, Zenon DEF Inv, Types
<1>14. ThreadOK(t)'
  <2>1. PrintedPrefix(t)'
    BY <1>13, NothingPrinted, Zenon DEF PrintedPrefix
  <2>2. SameRegs(t)' /\ FsbaseOK(t)' /\ RaxOK(t)' /\ PrintedAll(t, context[t]["rax"])'
    BY <1>13, NoCallFacts, Zenon DEF SameRegs, FsbaseOK, RaxOK, PrintedAll
  <2> QED BY <1>13, <2>1, <2>2, Zenon DEF ThreadOK
<1>15. \A u \in Threads : ~Busy(c, u)' /\ ~Serves(c, u)' /\ ~RunsOn(c, u)'
  BY <1>11, Zenon DEF Busy, Serves, RunsOn, BusyPcs, ServingPcs
<1>16. HandlerOK(c, t)'
  BY <1>1, <1>15, Zenon DEF HandlerOK
<1>17. ValuesOK'
  BY <1>1, <1>8, <1>9, <1>10, <1>14, <1>15, <1>16, ValuesStep, Zenon DEF Inv
<1> QED BY <1>7, <1>12, <1>17, Zenon DEF Inv

\* return_to_user: an empty queue idles, else the head of the queue is entered.
LEMMA ScheduleInv ==
    ASSUME Inv, NEW c \in CPUs, Schedule(c)
    PROVE  Inv'
<1>1. /\ pc[c] = "schedule" /\ state' = state /\ context' = context /\ frame' = frame
      /\ left' = left /\ asked' = asked /\ printed' = printed
  BY Zenon DEF Schedule, ghosts
<1>2. \A u \in Threads : SameThread(u)
  BY <1>1, Zenon DEF SameThread
<1>3. CASE runqueue = <<>>
  <2>1. /\ pc' = [pc EXCEPT ![c] = "idle"]
        /\ runqueue' = runqueue /\ cpu' = cpu /\ current' = current
    BY <1>3, Zenon DEF Schedule, Goto
  <2>2. Types'
    BY <1>1, <2>1, Zenon DEF Inv, Types, Labels
  <2>3. OnlyCpu(c) /\ pc'[c] = "idle"
    BY <1>1, <2>1, Zenon DEF OnlyCpu, Inv, Types
  <2>4. PlaceOK'
    BY <1>1, <2>1, <2>3, PlaceIdle, Zenon DEF Inv, BusyPcs, ServingPcs
  <2>5. ValuesOK'
    BY <1>2, <2>3, ValuesIdle, Zenon DEF Inv, BusyPcs, ServingPcs
  <2> QED BY <2>2, <2>4, <2>5, Zenon DEF Inv
<1>4. CASE runqueue # <<>>
  <2>0. PICK t : t = Head(runqueue)
    BY Zenon
  <2>1. /\ runqueue' = Tail(runqueue)
        /\ cpu' = [cpu EXCEPT ![c] = context[t]]
        /\ current' = [current EXCEPT ![c] = t]
        /\ pc' = [pc EXCEPT ![c] = "user"]
    BY <1>4, <2>0, Zenon DEF Schedule, enter, Goto
  <2>2. /\ t \in Threads /\ Queued(t) /\ runqueue' \in Seq(Threads) /\ Injective(runqueue')
        /\ \A u : Queued(u)' <=> Queued(u) /\ u # t
    <3>1. runqueue \in Seq(Threads) /\ Injective(runqueue)
      BY Zenon DEF Inv, Types, PlaceOK, Injective
    <3>2. /\ t \in Elems(runqueue) /\ t \in Threads /\ runqueue' \in Seq(Threads)
          /\ Elems(runqueue') = Elems(runqueue) \ {t} /\ Injective(runqueue')
      BY <1>4, <2>0, <2>1, <3>1, PoppedQueue, Zenon
    <3> QED BY <3>2, QueuedElems, Zenon
  <2>3. Types'
    BY <1>1, <2>1, <2>2, Zenon DEF Inv, Types, Labels
  <2>4. OnlyCpu(c) /\ OnlyThread(t)
    BY <1>1, <1>2, <2>1, Zenon DEF OnlyCpu, OnlyThread, Inv, Types
  <2>5. pc'[c] = "user" /\ current'[c] = t /\ cpu'[c] = context[t] /\ state'[t] = "Runnable"
    BY <1>1, <2>1, <2>2 DEF Inv, Types, PlaceOK
  <2>6. \A d \in CPUs \ {c} : ~Busy(d, t)
    <3>1. \A d \in CPUs : ~Serves(d, t) /\ ~RunsOn(d, t)
      BY <2>2, Zenon DEF Inv, PlaceOK
    <3> QED BY <3>1, Zenon DEF Busy, Serves, RunsOn, BusyPcs
  <2>7. PlaceOK'
    <3>1. \A u \in Threads \ {t} : state'[u] = state[u] /\ (Queued(u)' <=> Queued(u))
      BY <1>1, <2>2, Zenon
    <3> QED BY <2>2, <2>4, <2>5, <2>6, <3>1, PlaceStep, Zenon DEF Inv, BusyPcs, ServingPcs
  <2>8. ThreadOK(t)'
    <3>1. ThreadOK(t)
      BY <2>2, Zenon DEF Inv, ValuesOK
    <3> QED BY <1>1, <3>1, Zenon DEF ThreadOK, PrintedPrefix, SameRegs, FsbaseOK, RaxOK, PrintedAll
  <2>9. HandlerOK(c, t)'
    BY <2>5 DEF HandlerOK, Serves, ServingPcs
  <2>10. \A u \in Threads \ {t} : ~Busy(c, u)'
    BY <2>5, Zenon DEF Busy
  <2>11. cpu'[c]["fsbase"] = context'[t]["fsbase"]
    BY <1>1, <2>5, Zenon
  <2>12. ValuesOK'
    BY <2>2, <2>4, <2>6, <2>8, <2>9, <2>10, <2>11, ValuesStep, Zenon DEF Inv
  <2> QED BY <2>3, <2>7, <2>12, Zenon DEF Inv
<1> QED BY <1>3, <1>4, Zenon

\* spawn: a new thread starts with the registers it is given.
LEMMA spawnInv ==
    ASSUME VectorsOK, Inv, NEW c \in CPUs, NEW t \in Threads, spawn(c, t)
    PROVE  Inv'
<1>1. PICK v \in Stamps : /\ write_context(t, InitRegs(v))
                          /\ left' = [left EXCEPT ![t]["rip"] = v, ![t]["rsp"] = v]
  BY Zenon DEF spawn
<1>2. /\ pc[c] = "boot" /\ state[t] = "Unborn"
      /\ cpu' = cpu /\ current' = current /\ frame' = frame
      /\ asked' = asked /\ printed' = printed
  BY Zenon DEF spawn
<1>2a. \/ /\ runqueue' = Append(runqueue, t) /\ pc' = pc
          /\ state' = [state EXCEPT ![t] = "Runnable"]
       \/ /\ runqueue' = runqueue /\ pc' = [pc EXCEPT ![c] = "oom"]
          /\ state' = [state EXCEPT ![t] = "Blocked"]
  BY Zenon DEF spawn, Push, RunOut, Goto
<1>3. /\ context[t] = FreshContext /\ left[t] = FreshContext /\ asked[t] = NoCall
      /\ printed[t] = <<>> /\ ~Queued(t) /\ FreshContext \in [Registers -> Int]
  BY <1>2, RegisterTypes, Zenon DEF Inv, ValuesOK, ThreadOK, PlaceOK
<1>4. PICK regs \in [Registers -> Int] :
        regs = [r \in Registers |-> IF r \in {"rip", "rsp"} THEN v ELSE FreshContext[r]]
  <2>1. v \in Int /\ \A r \in Registers : FreshContext[r] \in Int
    BY <1>3, Constants
  <2> DEFINE regs == [r \in Registers |-> IF r \in {"rip", "rsp"} THEN v ELSE FreshContext[r]]
  <2>2. regs \in [Registers -> Int]
    BY <2>1, Zenon
  <2> QED BY <2>2, Zenon
<1>5. context' = [context EXCEPT ![t] = regs]
  BY <1>1, <1>3, <1>4, Zenon DEF write_context, InitRegs, Inv, Types
<1>6. left'[t] = regs /\ left' \in [Threads -> [Registers -> Int]] /\ \A u \in Threads \ {t} : left'[u] = left[u]
  BY <1>1, <1>3, <1>4, Constants, ZenonT(60) DEF Inv, Types, Registers
<1>7. /\ runqueue' \in Seq(Threads) /\ Injective(runqueue')
      /\ \A u \in Threads \ {t} : Queued(u)' <=> Queued(u)
      /\ Queued(t)' => state'[t] = "Runnable"
  <2>1. runqueue \in Seq(Threads) /\ Injective(runqueue) /\ t \notin Elems(runqueue)
    BY <1>3, QueuedElems DEF Inv, Types, PlaceOK, Injective
  <2>2. CASE runqueue' = Append(runqueue, t) /\ state' = [state EXCEPT ![t] = "Runnable"]
    <3>1. runqueue' \in Seq(Threads) /\ Elems(runqueue') = Elems(runqueue) \cup {t} /\ Injective(runqueue')
      BY <2>1, <2>2, PushedQueue, Zenon
    <3>2. state'[t] = "Runnable"
      BY <2>2, Zenon DEF Inv, Types
    <3> QED BY <3>1, <3>2, QueuedElems, Zenon
  <2> QED BY <1>2a, <2>1, <2>2, QueuedElems, Zenon
<1>8. Types'
  <2>1. pc' \in [CPUs -> Labels] /\ state' \in [Threads -> {"Unborn", "Blocked", "Runnable", "Terminated"}]
    BY <1>2a, Zenon DEF Inv, Types, Labels
  <2> QED BY <1>2, <1>5, <1>6, <1>7, <2>1, Zenon DEF Inv, Types
<1>9. OnlyCpu(c) /\ OnlyThread(t)
  BY <1>2, <1>2a, <1>5, <1>6, ZenonT(60) DEF OnlyCpu, OnlyThread, SameThread, Inv, Types
<1>10. \A d \in CPUs \ {c} : ~Busy(d, t)
  <2>1. \A d \in CPUs : ~Serves(d, t) /\ ~RunsOn(d, t)
    BY <1>2, Zenon DEF Inv, PlaceOK
  <2> QED BY <2>1, Zenon DEF Busy, Serves, RunsOn, BusyPcs
<1>11. pc'[c] \in {"boot", "oom"} /\ state'[t] \in {"Runnable", "Blocked"} /\ context'[t] = regs
  BY <1>2, <1>2a, <1>5, Zenon DEF Inv, Types
<1>12. PlaceOK'
  <2>1. \A u \in Threads \ {t} : state'[u] = state[u] /\ (Queued(u)' <=> Queued(u))
    BY <1>7, <1>9, Zenon DEF OnlyThread, SameThread
  <2> QED BY <1>7, <1>9, <1>10, <1>11, <2>1, PlaceStep, ZenonT(60) DEF Inv, BusyPcs, ServingPcs
<1>13. ThreadOK(t)'
  <2>0. asked'[t] = NoCall /\ printed'[t] = <<>>
    BY <1>2, <1>3, Zenon
  <2>1. PrintedPrefix(t)'
    BY <2>0, NothingPrinted, Zenon DEF PrintedPrefix
  <2>2. SameRegs(t)' /\ FsbaseOK(t)' /\ RaxOK(t)' /\ PrintedAll(t, context[t]["rax"])'
    BY <1>6, <1>11, <2>0, NoCallFacts DEF SameRegs, FsbaseOK, RaxOK, PrintedAll
  <2> QED BY <1>11, <2>1, <2>2 DEF ThreadOK
<1>14. \A u \in Threads : ~Busy(c, u)' /\ ~Serves(c, u)' /\ ~RunsOn(c, u)'
  BY <1>11, Zenon DEF Busy, Serves, RunsOn, BusyPcs, ServingPcs
<1>15. HandlerOK(c, t)'
  BY <1>14, Zenon DEF HandlerOK
<1>16. ValuesOK'
  BY <1>9, <1>10, <1>13, <1>14, <1>15, ValuesStep DEF Inv
<1> QED BY <1>8, <1>12, <1>16, Zenon DEF Inv

\* The end of boot, and the return of a handler to the scheduler.
LEMMA LeaveInv ==
    ASSUME Inv, NEW c \in CPUs, BootDone(c) \/ Return(c)
    PROVE  Inv'
<1>1. /\ pc' = [pc EXCEPT ![c] = "schedule"]
      /\ frame' = frame \/ frame' = [frame EXCEPT ![c] = NoFrame]
      /\ current' = current \/ current' = [current EXCEPT ![c] = NoThread]
      /\ state' = state /\ runqueue' = runqueue /\ context' = context /\ cpu' = cpu
      /\ left' = left /\ asked' = asked /\ printed' = printed
  BY Zenon DEF BootDone, Return, Goto, ghosts
<1>2. Types'
  BY <1>1, RegisterTypes, ZenonT(60) DEF Inv, Types, Labels
<1>3. OnlyCpu(c) /\ pc'[c] = "schedule" /\ \A u \in Threads : SameThread(u)
  BY <1>1 DEF OnlyCpu, SameThread, Inv, Types
<1>4. PlaceOK'
  BY <1>1, <1>3, PlaceIdle, Zenon DEF Inv, BusyPcs, ServingPcs
<1>5. ValuesOK'
  BY <1>3, ValuesIdle, Zenon DEF Inv, BusyPcs, ServingPcs
<1> QED BY <1>2, <1>4, <1>5, Zenon DEF Inv

\* A step of the handler that serves t, which stays blocked.
LEMMA ServeStep ==
    ASSUME Inv, NEW c \in CPUs, NEW t \in Threads, Serves(c, t), Types', OnlyCpu(c), OnlyThread(t),
           state' = state, runqueue' = runqueue, current'[c] = t, pc'[c] \in ServingPcs,
           PrintedPrefix(t)', HandlerOK(c, t)'
    PROVE  Inv'
<1>1. Busy(c, t) /\ state[t] = "Blocked" /\ ~Queued(t)
  BY Zenon DEF Inv, PlaceOK, Serves, Busy, BusyPcs
<1>2. \A d \in CPUs \ {c} : ~Busy(d, t)
  BY <1>1, Zenon DEF Inv, PlaceOK
<1>3. PlaceOK'
  <2>1. \A u : Queued(u)' <=> Queued(u)
    BY Zenon DEF Queued
  <2>2. Injective(runqueue')
    BY Zenon DEF Inv, PlaceOK, Injective
  <2>3. pc'[c] # "panic" /\ pc'[c] # "user"
    BY DEF ServingPcs
  <2> QED BY <1>1, <1>2, <2>1, <2>2, <2>3, PlaceStep DEF Inv
<1>4. ThreadOK(t)'
  BY <1>1, Zenon DEF ThreadOK
<1>5. \A u \in Threads \ {t} : ~Busy(c, u)'
  BY Zenon DEF Busy
<1>6. ~RunsOn(c, t)'
  BY Zenon DEF RunsOn, ServingPcs
<1>7. ValuesOK'
  BY <1>2, <1>4, <1>5, <1>6, ValuesStep, Zenon DEF Inv
<1> QED BY <1>3, <1>7, Zenon DEF Inv

\* The frames that handle_syscall, sys_write and sys_writev set up.
LEMMA FrameTypes ==
    /\ \A v \in Int : LET f == [NoFrame EXCEPT !.retval = v] IN f \in Frames /\ f.retval = v
    /\ \A s \in Seq(IovecType), total \in Nat : s # <<>> =>
        LET f == [NoFrame EXCEPT !.iovecs = s, !.total = total,
                                 !.uaddr = Head(s).iov_base, !.remaining = Head(s).iov_len] IN
        /\ f \in Frames /\ f.iovecs = s /\ f.total = total
        /\ f.uaddr = s[1].iov_base /\ f.remaining = s[1].iov_len
<1>1. ZeroChunk \in [0..(ChunkLen - 1) -> Int]
  BY DEF ZeroChunk
<1>2. ASSUME NEW v \in Int
      PROVE  LET f == [NoFrame EXCEPT !.retval = v] IN f \in Frames /\ f.retval = v
  <2>1. PICK f : f = [NoFrame EXCEPT !.retval = v]
    BY ZenonT(60)
  <2>2. f = [iovecs |-> <<>>, uaddr |-> 0, remaining |-> 0, chunk |-> ZeroChunk,
             total |-> 0, retval |-> v]
    BY <2>1, Zenon DEF NoFrame
  <2>3. <<>> \in Seq(IovecType)
    OBVIOUS
  <2>4. f \in Frames /\ f.retval = v
    BY ONLY <1>1, <1>2, <2>2, <2>3 DEF Frames
  <2> QED BY <2>1, <2>4, Zenon
<1>3. ASSUME NEW s \in Seq(IovecType), NEW total \in Nat, s # <<>>
      PROVE  LET f == [NoFrame EXCEPT !.iovecs = s, !.total = total,
                                 !.uaddr = Head(s).iov_base, !.remaining = Head(s).iov_len] IN
             /\ f \in Frames /\ f.iovecs = s /\ f.total = total
             /\ f.uaddr = s[1].iov_base /\ f.remaining = s[1].iov_len
  <2>1. Head(s) = s[1] /\ s[1] \in IovecType
    BY <1>3
  <2>2. s[1].iov_base \in Nat /\ s[1].iov_len \in Nat
    BY <2>1, Zenon DEF IovecType
  <2>3. PICK b, n : b = Head(s).iov_base /\ n = Head(s).iov_len
    OBVIOUS
  <2>4. b \in Nat /\ n \in Nat /\ b = s[1].iov_base /\ n = s[1].iov_len
    BY <2>1, <2>2, <2>3, Zenon
  <2>5. PICK f : f = [NoFrame EXCEPT !.iovecs = s, !.total = total, !.uaddr = b, !.remaining = n]
    BY Zenon
  <2>6. f = [iovecs |-> s, uaddr |-> b, remaining |-> n, chunk |-> ZeroChunk,
             total |-> total, retval |-> 0]
    BY ONLY <2>5, Zenon DEF NoFrame
  <2>7. f \in Frames /\ f.iovecs = s /\ f.total = total /\ f.uaddr = b /\ f.remaining = n
    BY ONLY <1>1, <1>3, <2>4, <2>6, s \in Seq(IovecType), total \in Nat DEF Frames
  <2> QED BY <2>3, <2>4, <2>5, <2>7, Zenon
<1> QED BY <1>2, <1>3, Zenon

\* handle_syscall() is done with the answer v.
LEMMA DoneInv ==
    ASSUME Inv, NEW c \in CPUs, NEW t \in Threads, Serves(c, t), NEW v \in Int, Done(c, v),
           NEW regs \in [Registers -> Int], context' = [context EXCEPT ![t] = regs],
           state' = state, runqueue' = runqueue, cpu' = cpu, current' = current,
           left' = left, asked' = asked, printed' = printed,
           asked[t] \in Calls, SameRegs(t)', FsbaseOK(t)',
           v \in Answers(asked[t]), PrintedAll(t, v)
    PROVE  Inv'
<1>1. PICK f \in Frames : f.retval = v /\ frame' = [frame EXCEPT ![c] = f]
  BY FrameTypes, Zenon DEF Done
<1>2. pc' = [pc EXCEPT ![c] = "set_context"]
  BY Zenon DEF Done, Goto
<1>3. Types'
  BY <1>1, <1>2, Zenon DEF Inv, Types, Labels
<1>4. OnlyCpu(c)
  BY <1>1, <1>2 DEF OnlyCpu, Inv, Types
<1>5. OnlyThread(t)
  BY Zenon DEF OnlyThread, SameThread, Inv, Types
<1>6. pc'[c] = "set_context" /\ frame'[c] = f /\ current'[c] = t
  BY <1>1, <1>2 DEF Inv, Types, Serves
<1>7. PrintedPrefix(t)'
  <2>1. PrintedPrefix(t)
    BY Zenon DEF Inv, ValuesOK, ThreadOK
  <2> QED BY <2>1, Zenon DEF PrintedPrefix
<1>8. HandlerOK(c, t)'
  BY <1>1, <1>6, Zenon DEF HandlerOK, PrintedAll
<1> QED BY <1>3, <1>4, <1>5, <1>6, <1>7, <1>8, ServeStep, Zenon DEF ServingPcs

\* sys_write is entered for the rest of the iovecs.
LEMMA WriteInv ==
    ASSUME Inv, NEW c \in CPUs, NEW t \in Threads, Serves(c, t),
           NEW s \in Seq(IovecType), s # <<>>, NEW total \in Nat, Write(c, s, total),
           context' = context,
           state' = state, runqueue' = runqueue, cpu' = cpu, current' = current,
           left' = left, asked' = asked, printed' = printed,
           asked[t] \in Calls, SameRegs(t), FsbaseOK(t),
           \A f \in Frames : /\ f.iovecs = s /\ f.total = total
                             /\ f.uaddr = s[1].iov_base /\ f.remaining = s[1].iov_len
                             => Progress(t, f)
    PROVE  Inv'
<1>1. PICK f \in Frames : /\ f.iovecs = s /\ f.total = total
                          /\ f.uaddr = s[1].iov_base /\ f.remaining = s[1].iov_len
                          /\ frame' = [frame EXCEPT ![c] = f]
  BY FrameTypes, ZenonT(60) DEF Write
<1>2. pc' = [pc EXCEPT ![c] = "write"]
  BY Zenon DEF Write, Goto
<1>3. Types'
  BY <1>1, <1>2, Zenon DEF Inv, Types, Labels
<1>4. OnlyCpu(c)
  BY <1>1, <1>2, Zenon DEF OnlyCpu, Inv, Types
<1>5. OnlyThread(t)
  BY Zenon DEF OnlyThread, SameThread, Inv, Types
<1>6. pc'[c] = "write" /\ frame'[c] = f /\ current'[c] = t
  BY <1>1, <1>2, Zenon DEF Inv, Types, Serves
<1>7. PrintedPrefix(t)'
  <2>1. PrintedPrefix(t)
    BY Zenon DEF Inv, ValuesOK, ThreadOK
  <2> QED BY <2>1, Zenon DEF PrintedPrefix
<1>8. Progress(t, frame[c])'
  <2>1. Progress(t, f)
    BY <1>1, Zenon
  <2> QED BY <1>6, <2>1, Zenon DEF Progress
<1>9. HandlerOK(c, t)'
  <2>1. SameRegs(t)' /\ FsbaseOK(t)'
    BY ZenonT(60) DEF SameRegs, FsbaseOK
  <2> QED BY <1>6, <1>8, <2>1, ZenonT(60) DEF HandlerOK
<1>10. pc'[c] \in ServingPcs
  BY <1>6, Zenon DEF ServingPcs
<1> QED BY <1>3, <1>4, <1>5, <1>6, <1>7, <1>9, <1>10, ServeStep, ZenonT(60)

\* The calls that handle_syscall() answers at once, and the answers.
AtOnce(call, v) ==
    \/ call.n \in {SYS_WRITE, SYS_WRITEV} /\ BadFd(call.arg0) /\ v = -EBADF
    \/ /\ call.n = SYS_WRITEV /\ ~BadFd(call.arg0)
       /\ \/ call.arg2 > MaxIovecs /\ v = -EINVAL
          \/ call.arg2 = 0 /\ v = 0
          \/ call.arg2 \in 1..MaxIovecs /\ call.arg1 \notin DOMAIN IovecsAt /\ v = -EFAULT
    \/ SetsFs(call) /\ v = 0
    \/ call.n = SYS_ARCH_PRCTL /\ ~SetsFs(call) /\ v = -ENOSYS
    \/ call.n = SYS_SET_TID_ADDRESS /\ v = 1000
    \/ /\ call.n \notin {SYS_EXIT, SYS_WRITE, SYS_WRITEV, SYS_ARCH_PRCTL, SYS_SET_TID_ADDRESS}
       /\ v = -ENOSYS

\* These are answers to the call, and the whole of a vector only if it is empty.
LEMMA AtOnceAnswers ==
    ASSUME VectorsOK, NEW call \in Calls, NEW v, AtOnce(call, v)
    PROVE  /\ v \in Int /\ v \in Answers(call)
           /\ v = Sum(Vector(call)) => BytesOf(Vector(call)) = <<>>
<1> USE DEF SYS_WRITE, SYS_WRITEV, SYS_EXIT, SYS_ARCH_PRCTL, SYS_SET_TID_ADDRESS, ARCH_SET_FS,
        EBADF, EINVAL, EFAULT, ENOSYS
<1>0. /\ call.n \in Nat /\ call.arg0 \in Nat /\ call.arg1 \in Nat /\ call.arg2 \in Nat
      /\ MaxIovecs \in Nat
  BY Constants, Zenon
<1>1. /\ Vector(call) \in Seq(IovecType) /\ Sum(Vector(call)) \in Nat
      /\ Vector(call) = <<>> => Sum(Vector(call)) = 0 /\ BytesOf(Vector(call)) = <<>>
  BY VectorType, VectorBytes
<1>2. call.n \notin {SYS_WRITE, SYS_WRITEV} => Vector(call) = <<>>
  BY Zenon DEF Vector
<1>3. CASE call.n \in {SYS_WRITE, SYS_WRITEV} /\ BadFd(call.arg0) /\ v = -EBADF
  <2>1. WriteAnswers(call) = {-EBADF}
    BY <1>0, <1>3, Zenon DEF WriteAnswers, BadFd
  <2>2. Answers(call) = WriteAnswers(call)
    BY <1>0, <1>3 DEF Answers, SetsFs
  <2> QED BY <1>1, <1>3, <2>1, <2>2
<1>4. CASE call.n = SYS_WRITEV /\ ~BadFd(call.arg0) /\ call.arg2 > MaxIovecs /\ v = -EINVAL
  <2>1. WriteAnswers(call) = {-EINVAL}
    BY <1>0, <1>4 DEF WriteAnswers, BadFd
  <2>2. Answers(call) = WriteAnswers(call)
    BY <1>0, <1>4 DEF Answers, SetsFs
  <2> QED BY <1>1, <1>4, <2>1, <2>2
<1>5. CASE call.n = SYS_WRITEV /\ ~BadFd(call.arg0) /\ call.arg2 = 0 /\ v = 0
  <2>1. Vector(call) = <<>>
    BY <1>0, <1>5 DEF Vector, Iovecs
  <2>2. 0 \in WriteAnswers(call)
    BY <1>0, <1>1, <1>5, <2>1 DEF WriteAnswers, BadFd
  <2>3. Answers(call) = WriteAnswers(call)
    BY <1>0, <1>5 DEF Answers, SetsFs
  <2> QED BY <1>1, <1>5, <2>1, <2>2, <2>3
<1>6. CASE /\ call.n = SYS_WRITEV /\ ~BadFd(call.arg0) /\ call.arg2 \in 1..MaxIovecs
           /\ call.arg1 \notin DOMAIN IovecsAt /\ v = -EFAULT
  <2>1. Vector(call) = <<>>
    BY <1>0, <1>6 DEF Vector
  <2>2. WriteAnswers(call) = {-EFAULT}
    BY <1>0, <1>6, <2>1 DEF WriteAnswers, BadFd
  <2>3. Answers(call) = WriteAnswers(call)
    BY <1>0, <1>6 DEF Answers, SetsFs
  <2> QED BY <1>1, <1>6, <2>1, <2>2, <2>3
<1>7. CASE SetsFs(call) /\ v = 0
  <2>1. Answers(call) = {0} /\ call.n \notin {SYS_WRITE, SYS_WRITEV}
    BY <1>0, <1>7 DEF Answers, SetsFs
  <2> QED BY <1>1, <1>2, <1>7, <2>1
<1>8. CASE call.n = SYS_ARCH_PRCTL /\ ~SetsFs(call) /\ v = -ENOSYS
  <2>1. Answers(call) = {-ENOSYS} /\ call.n \notin {SYS_WRITE, SYS_WRITEV}
    BY <1>0, <1>8 DEF Answers
  <2> QED BY <1>1, <1>2, <1>8, <2>1
<1>9. CASE call.n = SYS_SET_TID_ADDRESS /\ v = 1000
  <2>1. Answers(call) = {1000} /\ call.n \notin {SYS_WRITE, SYS_WRITEV}
    BY <1>0, <1>9 DEF Answers, SetsFs
  <2> QED BY <1>1, <1>2, <1>9, <2>1
<1>10. CASE /\ call.n \notin {SYS_EXIT, SYS_WRITE, SYS_WRITEV, SYS_ARCH_PRCTL, SYS_SET_TID_ADDRESS}
            /\ v = -ENOSYS
  <2>1. Answers(call) = {-ENOSYS} /\ call.n \notin {SYS_WRITE, SYS_WRITEV}
    BY <1>0, <1>10 DEF Answers, SetsFs
  <2> QED BY <1>1, <1>2, <1>10, <2>1
<1> QED BY <1>3, <1>4, <1>5, <1>6, <1>7, <1>8, <1>9, <1>10 DEF AtOnce

\* What sys_write may answer for a vector of at least one iovec.
LEMMA PrintAnswers ==
    ASSUME NEW call \in Calls, Prints(call)
    PROVE  /\ Vector(call) # <<>> /\ Sum(Vector(call)) \in Answers(call)
           /\ ~AllMapped(Vector(call)) => -EFAULT \in Answers(call)
<1> USE DEF SYS_WRITE, SYS_WRITEV, SYS_EXIT, SYS_ARCH_PRCTL, SYS_SET_TID_ADDRESS
<1>0. call.n \in Nat /\ call.arg0 \in Nat /\ call.arg2 \in Nat /\ MaxIovecs \in Nat
  BY Constants, Zenon
<1>1. Vector(call) # <<>>
  <2>1. CASE call.n = SYS_WRITE
    BY <2>1 DEF Vector
  <2>2. CASE call.n = SYS_WRITEV
    <3>1. Vector(call) = Iovecs(call.arg1, call.arg2) /\ call.arg2 \in 1..MaxIovecs
      BY <2>2 DEF Vector, Prints
    <3>2. 1 \in DOMAIN Iovecs(call.arg1, call.arg2)
      BY <1>0, <3>1 DEF Iovecs
    <3> QED BY <3>1, <3>2
  <2> QED BY <2>1, <2>2, Zenon DEF Prints
<1>2. Answers(call) = WriteAnswers(call)
  BY <1>0 DEF Answers, Prints, SetsFs
<1>3. WriteAnswers(call) = {Sum(Vector(call))} \cup (IF AllMapped(Vector(call)) THEN {} ELSE {-EFAULT})
  BY <1>0, <1>1 DEF WriteAnswers, Prints, BadFd
<1> QED BY <1>1, <1>2, <1>3, Zenon

\* The three ways in which the handler goes on after get_context.
LEMMA SyscallCases ==
    ASSUME Inv, NEW c \in CPUs, Syscall(c), NEW t, t = current[c], NEW call, call = asked[t]
    PROVE  /\ t \in Threads /\ Serves(c, t) /\ call \in Calls /\ context[t] = left[t]
           /\ printed[t] = <<>>
           /\ \/ /\ state' = [state EXCEPT ![t] = "Terminated"] /\ pc' = [pc EXCEPT ![c] = "return"]
                 /\ context' = context /\ frame' = frame
              \/ /\ \E v : AtOnce(call, v) /\ Done(c, v)
                 /\ state' = state
                 /\ \/ ~SetsFs(call) /\ context' = context
                    \/ SetsFs(call) /\ write_context(t, FsbaseRegs(call.arg1))
              \/ /\ Prints(call) /\ Write(c, Vector(call), 0)
                 /\ state' = state /\ context' = context
<1>1. pc[c] = "syscall"
  BY Zenon DEF Syscall
<1>2. t \in Threads /\ Serves(c, t)
  BY <1>1, Zenon DEF Inv, PlaceOK, Serves, ServingPcs, BusyPcs
<1>3. state[t] = "Blocked"
  BY <1>2 DEF Inv, PlaceOK
<1>4. call \in Calls /\ context[t] = left[t] /\ printed[t] = <<>> /\ SyscallArgs(t) = call
  BY <1>1, <1>2, Zenon DEF Inv, ValuesOK, HandlerOK
<1>5. handle_syscall(c, t, call)
  BY <1>3, <1>4, Zenon DEF Syscall
<1>6. call.arg2 \in Nat /\ MaxIovecs \in Nat
  BY <1>4, Constants, Zenon
<1> USE DEF SYS_WRITE, SYS_WRITEV, SYS_EXIT, SYS_EXIT_GROUP, SYS_ARCH_PRCTL, SYS_SET_TID_ADDRESS
<1>7. CASE call.n \in {SYS_EXIT, SYS_EXIT_GROUP}
  <2>1. state' = [state EXCEPT ![t] = "Terminated"] /\ Goto(c, AfterExit) /\ context' = context /\ frame' = frame
    BY <1>5, <1>7 DEF handle_syscall
  <2> QED BY <1>2, <1>4, <2>1 DEF Goto, AfterExit
<1>8. CASE call.n = SYS_WRITE
  <2>1. sys_write(c, call) /\ state' = state /\ context' = context
    BY <1>5, <1>8 DEF handle_syscall
  <2>2. ~SetsFs(call) /\ Vector(call) = <<Iovec(call.arg1, call.arg2)>>
    BY <1>8 DEF SetsFs, Vector
  <2>3. CASE BadFd(call.arg0)
    BY <1>2, <1>4, <1>8, <2>1, <2>2, <2>3 DEF sys_write, AtOnce
  <2>4. CASE ~BadFd(call.arg0)
    <3>1. Prints(call)
      BY ONLY <1>8, <2>4 DEF Prints
    <3>2. Write(c, Vector(call), 0)
      BY <2>1, <2>2, <2>4, Zenon DEF sys_write
    <3> QED BY <1>2, <1>4, <2>1, <3>1, <3>2, ZenonT(60)
  <2> QED BY <2>3, <2>4, ZenonT(60)
<1>9. CASE call.n = SYS_WRITEV
  <2>1. sys_writev(c, call) /\ state' = state /\ context' = context
    BY <1>5, <1>9 DEF handle_syscall
  <2>2. ~SetsFs(call)
    BY <1>9 DEF SetsFs
  <2>3. CASE BadFd(call.arg0)
    <3>1. Done(c, -EBADF)
      BY <2>1, <2>3, Zenon DEF sys_writev
    <3>2. AtOnce(call, -EBADF)
      BY <1>9, <2>3, Zenon DEF AtOnce
    <3> QED BY <1>2, <1>4, <2>1, <2>2, <3>1, <3>2, ZenonT(60)
  <2>4. CASE ~BadFd(call.arg0) /\ call.arg2 > MaxIovecs
    <3>1. Done(c, -EINVAL)
      BY <1>6, <2>1, <2>4 DEF sys_writev
    <3>2. AtOnce(call, -EINVAL)
      BY <1>9, <2>4, Zenon DEF AtOnce
    <3> QED BY <1>2, <1>4, <2>1, <2>2, <3>1, <3>2, Zenon
  <2>5. CASE ~BadFd(call.arg0) /\ call.arg2 = 0
    <3>1. Done(c, 0)
      BY <1>6, <2>1, <2>5 DEF sys_writev
    <3>2. AtOnce(call, 0)
      BY <1>9, <2>5, Zenon DEF AtOnce
    <3> QED BY <1>2, <1>4, <2>1, <2>2, <3>1, <3>2, Zenon
  <2>6. CASE ~BadFd(call.arg0) /\ call.arg2 \in 1..MaxIovecs /\ call.arg1 \notin DOMAIN IovecsAt
    <3>1. Done(c, -EFAULT)
      BY <1>6, <2>1, <2>6 DEF sys_writev
    <3>2. AtOnce(call, -EFAULT)
      BY <1>9, <2>6, Zenon DEF AtOnce
    <3> QED BY <1>2, <1>4, <2>1, <2>2, <3>1, <3>2, Zenon
  <2>7. CASE ~BadFd(call.arg0) /\ call.arg2 \in 1..MaxIovecs /\ call.arg1 \in DOMAIN IovecsAt
    <3>1. Vector(call) = Iovecs(call.arg1, call.arg2)
      BY <1>9, <2>7 DEF Vector
    <3>2. Write(c, Vector(call), 0)
      BY <1>6, <2>1, <2>7, <3>1 DEF sys_writev
    <3>3. Prints(call)
      BY <1>9, <2>7, Zenon DEF Prints
    <3> QED BY <1>2, <1>4, <2>1, <3>2, <3>3, Zenon
  <2>8. call.arg2 > MaxIovecs \/ call.arg2 = 0 \/ call.arg2 \in 1..MaxIovecs
    BY <1>6
  <2> QED BY <2>3, <2>4, <2>5, <2>6, <2>7, <2>8, ZenonT(60)
<1>10. CASE call.n = SYS_ARCH_PRCTL
  <2>1. sys_arch_prctl(c, t, call) /\ state' = state
    BY <1>5, <1>10 DEF handle_syscall
  <2>2. CASE SetsFs(call)
    <3>1. write_context(t, FsbaseRegs(call.arg1)) /\ Done(c, 0)
      BY <2>1, <2>2, Zenon DEF sys_arch_prctl, SetsFs
    <3>2. AtOnce(call, 0)
      BY <2>2, Zenon DEF AtOnce
    <3> QED BY <1>2, <1>4, <2>1, <2>2, <3>1, <3>2, Zenon
  <2>3. CASE ~SetsFs(call)
    <3>1. context' = context /\ Done(c, -ENOSYS)
      BY <1>10, <2>1, <2>3, Zenon DEF sys_arch_prctl, SetsFs
    <3>2. AtOnce(call, -ENOSYS)
      BY <1>10, <2>3, Zenon DEF AtOnce
    <3> QED BY <1>2, <1>4, <2>1, <2>3, <3>1, <3>2, Zenon
  <2> QED BY <2>2, <2>3, ZenonT(60)
<1>11. CASE call.n = SYS_SET_TID_ADDRESS
  <2>1. Done(c, 1000) /\ state' = state /\ context' = context
    BY <1>5, <1>11 DEF handle_syscall
  <2>2. ~SetsFs(call) /\ AtOnce(call, 1000)
    BY <1>11 DEF SetsFs, AtOnce
  <2> QED BY <1>2, <1>4, <2>1, <2>2
<1>12. CASE call.n \notin {SYS_EXIT, SYS_EXIT_GROUP, SYS_WRITE, SYS_WRITEV, SYS_ARCH_PRCTL,
                           SYS_SET_TID_ADDRESS}
  <2>1. Done(c, -ENOSYS) /\ state' = state /\ context' = context
    BY <1>5, <1>12 DEF handle_syscall
  <2>2. ~SetsFs(call) /\ AtOnce(call, -ENOSYS)
    BY <1>12, Zenon DEF SetsFs, AtOnce
  <2> QED BY <1>2, <1>4, <2>1, <2>2, Zenon
<1> QED BY <1>7, <1>8, <1>9, <1>10, <1>11, <1>12, Zenon

\* The first iovec, of which nothing is printed yet.
LEMMA ProgressStart ==
    ASSUME VectorsOK, NEW t \in Threads, asked[t] \in Calls, Prints(asked[t]), printed[t] = <<>>,
           NEW f \in Frames, f.iovecs = Vector(asked[t]), f.total = 0,
           f.uaddr = Vector(asked[t])[1].iov_base, f.remaining = Vector(asked[t])[1].iov_len
    PROVE  Progress(t, f)
<1>0. PICK s : s = Vector(asked[t])
  BY Zenon
<1>1. s \in Seq(IovecType) /\ s # <<>>
  BY <1>0, VectorType, PrintAnswers, Zenon
<1>2. Len(s) \in Nat \ {0} /\ s[1] \in IovecType
  BY <1>1
<1>3. s[1].iov_base \in Nat /\ s[1].iov_len \in Nat
  BY <1>2, Zenon DEF IovecType
<1>4. SumUpTo(s)[0] = 0
  BY <1>1, Sums, Zenon
<1>5. SubSeq(BytesOf(s), 1, 0) = <<>>
  <2>1. BytesOf(s) \in Seq(Nat)
    BY <1>1, VectorBytes, Zenon
  <2> QED BY ONLY <2>1
<1>6. PICK j : j = Len(s) - Len(f.iovecs) + 1
  BY Zenon
<1>7. j = 1
  BY <1>0, <1>2, <1>6
<1>8. /\ Len(f.iovecs) \in 1..Len(s)
      /\ \A i \in 1..Len(f.iovecs) : f.iovecs[i] = s[j - 1 + i]
      /\ f.total = SumUpTo(s)[j - 1]
      /\ f.remaining <= s[j].iov_len
      /\ f.uaddr = s[j].iov_base + (s[j].iov_len - f.remaining)
  BY <1>0, <1>2, <1>3, <1>4, <1>7
<1>9. printed[t] = SubSeq(BytesOf(s), 1, f.total + (s[j].iov_len - f.remaining))
  <2>1. f.total + (s[j].iov_len - f.remaining) = 0
    BY <1>0, <1>3, <1>7
  <2> QED BY <1>5, <2>1, Zenon
<1> QED BY <1>0, <1>6, <1>8, <1>9, Zenon DEF Progress

\* What write_context leaves of the registers.
Overwritten(old, new) == [r \in Registers |-> IF r \in DOMAIN new THEN new[r] ELSE old[r]]

LEMMA WrittenContext ==
    ASSUME NEW old \in [Registers -> Int], NEW v \in Int, NEW q \in Registers,
           NEW new, new = [x \in {q} |-> v]
    PROVE  /\ Overwritten(old, new) \in [Registers -> Int] /\ Overwritten(old, new)[q] = v
           /\ \A r \in Registers \ {q} : Overwritten(old, new)[r] = old[r]
BY Zenon DEF Overwritten

\* Handler::syscall up to the result.
LEMMA SyscallInv ==
    ASSUME VectorsOK, Inv, NEW c \in CPUs, Syscall(c)
    PROVE  Inv'
<1>0. PICK t, call : t = current[c] /\ call = asked[t]
  BY Zenon
<1>1. /\ runqueue' = runqueue /\ cpu' = cpu /\ current' = current
      /\ left' = left /\ asked' = asked /\ printed' = printed
  BY Zenon DEF Syscall, ghosts
<1>2. /\ t \in Threads /\ Serves(c, t) /\ call \in Calls /\ context[t] = left[t]
      /\ printed[t] = <<>>
  BY <1>0, SyscallCases, Zenon
<1>3. context[t] \in [Registers -> Int] /\ context' = context => context' = [context EXCEPT ![t] = context[t]]
  BY <1>2 DEF Inv, Types
<1>4. CASE /\ state' = [state EXCEPT ![t] = "Terminated"] /\ pc' = [pc EXCEPT ![c] = "return"]
           /\ context' = context /\ frame' = frame
  <2>1. Types'
    BY <1>1, <1>4, Zenon DEF Inv, Types, Labels
  <2>2. OnlyCpu(c) /\ OnlyThread(t)
    BY <1>1, <1>4, Zenon DEF OnlyCpu, OnlyThread, SameThread, Inv, Types
  <2>3. pc'[c] = "return" /\ state'[t] = "Terminated" /\ state[t] = "Blocked" /\ ~Queued(t)
    BY <1>2, <1>4, Zenon DEF Inv, Types, PlaceOK
  <2>4. \A d \in CPUs \ {c} : ~Busy(d, t)
    <3>1. Busy(c, t)
      BY <1>2, Zenon DEF Serves, Busy, BusyPcs
    <3> QED BY <1>2, <3>1 DEF Inv, PlaceOK
  <2>5. PlaceOK'
    <3>1. \A u : Queued(u)' <=> Queued(u)
      BY <1>1 DEF Queued
    <3>2. Injective(runqueue')
      BY <1>1, Zenon DEF Inv, PlaceOK, Injective
    <3>3. \A u \in Threads \ {t} : state'[u] = state[u]
      BY <2>2, Zenon DEF OnlyThread, SameThread
    <3> QED BY <1>2, <2>2, <2>3, <2>4, <3>1, <3>2, <3>3, PlaceStep, Zenon DEF Inv, BusyPcs, ServingPcs
  <2>6. ThreadOK(t)'
    <3>1. PrintedPrefix(t)
      BY <1>2, Zenon DEF Inv, ValuesOK, ThreadOK
    <3> QED BY <1>1, <2>3, <3>1, Zenon DEF ThreadOK, PrintedPrefix
  <2>7. \A u \in Threads : ~Busy(c, u)' /\ ~Serves(c, u)' /\ ~RunsOn(c, u)'
    BY <2>3, Zenon DEF Busy, Serves, RunsOn, BusyPcs, ServingPcs
  <2>8. HandlerOK(c, t)'
    BY <1>2, <2>7, ZenonT(60) DEF HandlerOK
  <2>9. ValuesOK'
    BY <1>2, <2>2, <2>4, <2>6, <2>7, <2>8, ValuesStep, Zenon DEF Inv
  <2> QED BY <2>1, <2>5, <2>9, Zenon DEF Inv
<1>5. CASE /\ \E v : AtOnce(call, v) /\ Done(c, v)
           /\ state' = state
           /\ \/ ~SetsFs(call) /\ context' = context
              \/ SetsFs(call) /\ write_context(t, FsbaseRegs(call.arg1))
  <2>1. PICK v : AtOnce(call, v) /\ Done(c, v)
    BY <1>5
  <2>2. v \in Int /\ v \in Answers(call) /\ (v = Sum(Vector(call)) => BytesOf(Vector(call)) = <<>>)
    BY <1>2, <2>1, AtOnceAnswers, Zenon
  <2>3. PrintedAll(t, v)
    BY <1>0, <1>2, <2>2 DEF PrintedAll
  <2>4. CASE ~SetsFs(call) /\ context' = context
    <3>1. SameRegs(t)' /\ FsbaseOK(t)'
      BY <1>0, <1>1, <1>2, <2>4 DEF SameRegs, FsbaseOK
    <3>2. context[t] \in [Registers -> Int]
      BY <1>2, Zenon DEF Inv, Types
    <3> QED BY <1>0, <1>1, <1>2, <1>3, <1>5, <2>1, <2>2, <2>3, <2>4, <3>1, <3>2, DoneInv, Zenon
  <2>5. CASE SetsFs(call) /\ write_context(t, FsbaseRegs(call.arg1))
    <3>0. call.arg1 \in Int /\ context[t] \in [Registers -> Int]
      BY <1>2, Constants DEF Inv, Types
    <3>1. PICK regs \in [Registers -> Int] :
            /\ regs = Overwritten(context[t], FsbaseRegs(call.arg1))
            /\ regs["fsbase"] = call.arg1 /\ \A r \in Registers \ {"fsbase"} : regs[r] = context[t][r]
      <4>1. FsbaseRegs(call.arg1) = [x \in {"fsbase"} |-> call.arg1] /\ "fsbase" \in Registers
        BY Zenon DEF FsbaseRegs, Registers
      <4> QED BY <3>0, <4>1, WrittenContext, SMTT(60)
    <3>2. context' = [context EXCEPT ![t] = regs]
      BY <1>2, <2>5, <3>1, Zenon DEF write_context, Overwritten, Inv, Types
    <3>3. context'[t] = regs
      BY <1>2, <3>2, Zenon DEF Inv, Types
    <3>4. SameRegs(t)' /\ FsbaseOK(t)'
      BY <1>0, <1>1, <1>2, <2>5, <3>1, <3>3, Zenon DEF SameRegs, FsbaseOK
    <3> QED BY <1>0, <1>1, <1>2, <1>5, <2>1, <2>2, <2>3, <3>2, <3>4, DoneInv, Zenon
  <2> QED BY <1>5, <2>4, <2>5, Zenon
<1>6. CASE Prints(call) /\ Write(c, Vector(call), 0) /\ state' = state /\ context' = context
  <2>1. Vector(call) \in Seq(IovecType) /\ Vector(call) # <<>>
    BY <1>2, <1>6, VectorType, PrintAnswers, Zenon
  <2>2. \A f \in Frames : /\ f.iovecs = Vector(call) /\ f.total = 0
                          /\ f.uaddr = Vector(call)[1].iov_base
                          /\ f.remaining = Vector(call)[1].iov_len
                          => Progress(t, f)
    BY <1>0, <1>2, <1>6, ProgressStart
  <2>3. SameRegs(t) /\ FsbaseOK(t)
    BY <1>0, <1>2, <1>6 DEF SameRegs, FsbaseOK, SetsFs, Prints, SYS_ARCH_PRCTL, SYS_WRITE, SYS_WRITEV
  <2>4. 0 \in Nat
    BY Zenon
  <2> QED BY <1>0, <1>1, <1>2, <1>6, <2>1, <2>2, <2>3, <2>4, WriteInv, ZenonT(60)
<1> QED BY <1>0, <1>4, <1>5, <1>6, SyscallCases

\* set_context(Sysret): the answer becomes rax.
LEMMA SetContextInv ==
    ASSUME Inv, NEW c \in CPUs, SetContext(c)
    PROVE  Inv'
<1>0. PICK t, v : t = current[c] /\ v = frame[c].retval
  BY Zenon
<1>1. pc[c] = "set_context"
  BY Zenon DEF SetContext
<1>2. t \in Threads /\ Serves(c, t)
  BY <1>0, <1>1, Zenon DEF Inv, PlaceOK, Serves, ServingPcs, BusyPcs
<1>3. state[t] = "Blocked" /\ v \in Int /\ context[t] \in [Registers -> Int]
  BY <1>0, <1>2, Zenon DEF Inv, PlaceOK, Types, Frames
<1>4. asked[t] \in Calls /\ SameRegs(t) /\ FsbaseOK(t) /\ v \in Answers(asked[t]) /\ PrintedAll(t, v)
  BY <1>0, <1>1, <1>2 DEF Inv, ValuesOK, HandlerOK
<1>5. PICK regs \in [Registers -> Int] :
        /\ regs = Overwritten(context[t], SysretRegs(v))
        /\ regs["rax"] = v /\ \A r \in Registers \ {"rax"} : regs[r] = context[t][r]
  <2>1. SysretRegs(v) = [x \in {"rax"} |-> v] /\ "rax" \in Registers
    BY Zenon DEF SysretRegs, Registers
  <2> QED BY <1>3, <2>1, WrittenContext
<1>6. /\ context' = [context EXCEPT ![t] = regs] /\ pc' = [pc EXCEPT ![c] = "unblock"]
      /\ state' = state /\ runqueue' = runqueue /\ cpu' = cpu /\ current' = current
      /\ frame' = frame /\ left' = left /\ asked' = asked /\ printed' = printed
  <2>1. write_context(t, SysretRegs(v)) /\ Goto(c, AfterSetContext)
    BY <1>0, <1>3, Zenon DEF SetContext
  <2>2. context' = [context EXCEPT ![t] = regs]
    BY <1>2, <1>5, <2>1, Zenon DEF write_context, Overwritten, Inv, Types
  <2> QED BY <2>1, <2>2, Zenon DEF SetContext, ghosts, Goto, AfterSetContext
<1>7. Types'
  BY <1>6, Zenon DEF Inv, Types, Labels
<1>8. OnlyCpu(c) /\ OnlyThread(t)
  BY <1>6 DEF OnlyCpu, OnlyThread, SameThread, Inv, Types
<1>9. pc'[c] = "unblock" /\ current'[c] = t /\ context'[t] = regs
  BY <1>0, <1>2, <1>6, Zenon DEF Inv, Types
<1>10. PrintedPrefix(t)'
  <2>1. PrintedPrefix(t)
    BY <1>2 DEF Inv, ValuesOK, ThreadOK
  <2> QED BY <1>6, <2>1, Zenon DEF PrintedPrefix
<1>11. HandlerOK(c, t)'
  <2>1. SameRegs(t)'
    BY <1>4, <1>5, <1>6, <1>9, ZenonT(60) DEF SameRegs
  <2>2. FsbaseOK(t)'
    BY <1>4, <1>5, <1>6, <1>9, ZenonT(60) DEF FsbaseOK, Registers
  <2>3. RaxOK(t)' /\ PrintedAll(t, context[t]["rax"])'
    <3>1. context'[t]["rax"] = v
      BY <1>5, <1>9, Zenon
    <3> QED BY <1>2, <1>4, <1>6, <3>1, AnsweredRax, Zenon
  <2> QED BY <1>4, <1>6, <1>9, <2>1, <2>2, <2>3, ZenonT(60) DEF HandlerOK
<1> QED BY <1>2, <1>6, <1>7, <1>8, <1>9, <1>10, <1>11, ServeStep, Zenon DEF ServingPcs

\* unblock: t is answered and goes to the run queue.
LEMMA UnblockInv ==
    ASSUME Inv, NEW c \in CPUs, Unblock(c)
    PROVE  Inv'
<1>0. PICK t : t = current[c]
  BY Zenon
<1>1. pc[c] = "unblock"
  BY Zenon DEF Unblock
<1>2. t \in Threads /\ Serves(c, t) /\ Busy(c, t)
  BY <1>0, <1>1, Zenon DEF Inv, PlaceOK, Serves, Busy, ServingPcs, BusyPcs
<1>3. state[t] = "Blocked" /\ ~Queued(t) /\ \A d \in CPUs \ {c} : ~Busy(d, t)
  BY <1>2 DEF Inv, PlaceOK
<1>4. SameRegs(t) /\ FsbaseOK(t) /\ RaxOK(t) /\ PrintedAll(t, context[t]["rax"]) /\ PrintedPrefix(t)
  BY <1>1, <1>2, Zenon DEF Inv, ValuesOK, HandlerOK, ThreadOK
<1>4a. \/ /\ runqueue' = Append(runqueue, t) /\ state' = [state EXCEPT ![t] = "Runnable"]
          /\ pc' = [pc EXCEPT ![c] = "return"]
       \/ runqueue' = runqueue /\ state' = state /\ pc' = [pc EXCEPT ![c] = "oom"]
  BY <1>0, <1>3, Zenon DEF Unblock, Push, RunOut, Goto
<1>5. CASE /\ runqueue' = Append(runqueue, t) /\ state' = [state EXCEPT ![t] = "Runnable"]
           /\ pc' = [pc EXCEPT ![c] = "return"]
  <2>5. /\ runqueue' = Append(runqueue, t) /\ state' = [state EXCEPT ![t] = "Runnable"]
        /\ pc' = [pc EXCEPT ![c] = "return"] /\ context' = context /\ cpu' = cpu
        /\ current' = current /\ frame' = frame /\ left' = left /\ asked' = asked
        /\ printed' = printed
    BY <1>5, Zenon DEF Unblock, ghosts
  <2>6. /\ runqueue' \in Seq(Threads) /\ Injective(runqueue')
        /\ \A u : Queued(u)' <=> Queued(u) \/ u = t
    <3>1. runqueue \in Seq(Threads) /\ Injective(runqueue) /\ t \notin Elems(runqueue)
      BY <1>3, QueuedElems DEF Inv, Types, PlaceOK, Injective
    <3>2. runqueue' \in Seq(Threads) /\ Elems(runqueue') = Elems(runqueue) \cup {t} /\ Injective(runqueue')
      BY <1>2, <2>5, <3>1, PushedQueue, Zenon
    <3> QED BY <3>2, QueuedElems, Zenon
  <2>7. Types'
    BY <2>5, <2>6, Zenon DEF Inv, Types, Labels
  <2>8. OnlyCpu(c) /\ OnlyThread(t)
    BY <2>5, Zenon DEF OnlyCpu, OnlyThread, SameThread, Inv, Types
  <2>9. pc'[c] = "return" /\ state'[t] = "Runnable"
    BY <1>2, <2>5, Zenon DEF Inv, Types
  <2>10. PlaceOK'
    <3>1. \A u \in Threads \ {t} : state'[u] = state[u] /\ (Queued(u)' <=> Queued(u))
      BY <2>6, <2>8, Zenon DEF OnlyThread, SameThread
    <3> QED BY <1>2, <1>3, <2>6, <2>8, <2>9, <3>1, PlaceStep, ZenonT(60) DEF Inv, BusyPcs, ServingPcs
  <2>11. ThreadOK(t)'
    BY <1>4, <2>5, <2>9, ZenonT(60) DEF ThreadOK, PrintedPrefix, SameRegs, FsbaseOK, RaxOK, PrintedAll
  <2>12. \A u \in Threads : ~Busy(c, u)' /\ ~Serves(c, u)' /\ ~RunsOn(c, u)'
    BY <2>9, Zenon DEF Busy, Serves, RunsOn, BusyPcs, ServingPcs
  <2>13. HandlerOK(c, t)'
    BY <1>2, <2>12, ZenonT(60) DEF HandlerOK
  <2>14. ValuesOK'
    BY <1>2, <1>3, <2>8, <2>11, <2>12, <2>13, ValuesStep, Zenon DEF Inv
  <2> QED BY <2>7, <2>10, <2>14, Zenon DEF Inv
<1>6. CASE runqueue' = runqueue /\ state' = state /\ pc' = [pc EXCEPT ![c] = "oom"]
  <2>1. /\ context' = context /\ cpu' = cpu /\ current' = current /\ frame' = frame
        /\ left' = left /\ asked' = asked /\ printed' = printed
    BY Zenon DEF Unblock, ghosts
  <2>2. Types'
    BY <1>6, <2>1, Zenon DEF Inv, Types, Labels
  <2>3. OnlyCpu(c) /\ pc'[c] = "oom" /\ \A u \in Threads : SameThread(u)
    BY <1>6, <2>1, Zenon DEF OnlyCpu, SameThread, Inv, Types
  <2>4. PlaceOK'
    BY <1>6, <2>3, PlaceIdle, Zenon DEF Inv, BusyPcs, ServingPcs
  <2>5. ValuesOK'
    BY <2>3, ValuesIdle, Zenon DEF Inv, BusyPcs, ServingPcs
  <2> QED BY <2>2, <2>4, <2>5, Zenon DEF Inv
<1> QED BY <1>4a, <1>5, <1>6, Zenon

\* What Progress says, with iovec j of the vector s and its place among the bytes of s.
Position(t, f, s, j) ==
    /\ s = Vector(asked[t]) /\ s \in Seq(IovecType) /\ Len(s) \in Nat
    /\ j = Len(s) - Len(f.iovecs) + 1 /\ j \in 1..Len(s) /\ Len(f.iovecs) \in 1..Len(s)
    /\ \A i \in 1..Len(f.iovecs) : f.iovecs[i] = s[j - 1 + i]
    /\ s[j].iov_base \in Nat /\ s[j].iov_len \in Nat
    /\ f.remaining \in Nat /\ f.uaddr \in Nat /\ f.total \in Nat
    /\ f.remaining <= s[j].iov_len
    /\ f.uaddr = s[j].iov_base + (s[j].iov_len - f.remaining)
    /\ f.total = SumUpTo(s)[j - 1] /\ SumUpTo(s)[j] = f.total + s[j].iov_len
    /\ SumUpTo(s)[j] <= Sum(s) /\ Sum(s) \in Nat
    /\ BytesOf(s) \in Seq(Nat) /\ Len(BytesOf(s)) = Sum(s)
    /\ \A m \in 1..s[j].iov_len : BytesOf(s)[f.total + m] = s[j].iov_base + (m - 1)
    /\ AllMapped(s) =>
        printed[t] = SubSeq(BytesOf(s), 1, f.total + (s[j].iov_len - f.remaining))

LEMMA ProgressPosition ==
    ASSUME VectorsOK, NEW t \in Threads, asked[t] \in Calls, NEW f \in Frames, Progress(t, f)
    PROVE  \E s, j : Position(t, f, s, j)
<1>0. PICK s : s = Vector(asked[t])
  BY Zenon
<1>1. PICK j : j = Len(s) - Len(f.iovecs) + 1
  BY ZenonT(60)
<1>2. s \in Seq(IovecType)
  BY <1>0, VectorType, Zenon
<1>3. Len(s) \in Nat /\ \A k \in 1..Len(s) : s[k] \in IovecType
  BY <1>2
<1>4. /\ Len(f.iovecs) \in 1..Len(s)
      /\ \A i \in 1..Len(f.iovecs) : f.iovecs[i] = s[j - 1 + i]
      /\ f.total = SumUpTo(s)[j - 1]
      /\ f.remaining <= s[j].iov_len
      /\ f.uaddr = s[j].iov_base + (s[j].iov_len - f.remaining)
      /\ AllMapped(s) =>
            printed[t] = SubSeq(BytesOf(s), 1, f.total + (s[j].iov_len - f.remaining))
  BY <1>0, <1>1, Zenon DEF Progress
<1>5. j \in 1..Len(s)
  BY <1>1, <1>3, <1>4
<1>6. s[j].iov_base \in Nat /\ s[j].iov_len \in Nat
  BY <1>3, <1>5, Zenon DEF IovecType
<1>7. f.remaining \in Nat /\ f.uaddr \in Nat /\ f.total \in Nat
  BY Zenon DEF Frames
<1>8. SumUpTo(s)[j] = f.total + s[j].iov_len
  BY <1>2, <1>4, <1>5, Sums, Zenon
<1>9. /\ SumUpTo(s)[j] <= Sum(s) /\ Sum(s) \in Nat
      /\ BytesOf(s) \in Seq(Nat) /\ Len(BytesOf(s)) = Sum(s)
      /\ \A m \in 1..s[j].iov_len : BytesOf(s)[f.total + m] = s[j].iov_base + (m - 1)
  BY <1>2, <1>4, <1>5, VectorBytes
<1>10. Position(t, f, s, j)
  BY <1>0, <1>1, <1>2, <1>3, <1>4, <1>5, <1>6, <1>7, <1>8, <1>9, Zenon DEF Position
<1> QED BY <1>10, Zenon

\* One iteration of sys_write's loop.
LEMMA WriteChunkInv ==
    ASSUME VectorsOK, Inv, NEW c \in CPUs, WriteChunk(c)
    PROVE  Inv'
<1>0. PICK t, f, n : t = current[c] /\ f = frame[c] /\ n = Piece(f.remaining)
  BY Zenon
<1>1. pc[c] = "write" /\ f.remaining > 0
  BY <1>0, Zenon DEF WriteChunk
<1>2. t \in Threads /\ Serves(c, t) /\ f \in Frames
  BY <1>0, <1>1 DEF Inv, PlaceOK, Types, Serves, ServingPcs, BusyPcs
<1>3. asked[t] \in Calls /\ SameRegs(t) /\ FsbaseOK(t) /\ Progress(t, f)
  BY <1>0, <1>1, <1>2, Zenon DEF Inv, ValuesOK, HandlerOK
<1>4. PICK s, j : Position(t, f, s, j)
  BY <1>2, <1>3, ProgressPosition, Zenon
<1>5. Prints(asked[t])
  BY <1>3 DEF Progress
<1>6. /\ f.remaining \in Nat /\ f.uaddr \in Nat /\ s[j].iov_base \in Nat /\ s[j].iov_len \in Nat
      /\ f.remaining <= s[j].iov_len /\ f.uaddr = s[j].iov_base + (s[j].iov_len - f.remaining)
      /\ j \in DOMAIN s /\ MemStart \in Nat /\ MemEnd \in Nat /\ ChunkLen \in Nat \ {0}
  <2>1. DOMAIN s = 1..Len(s)
    BY <1>4, SMTT(60) DEF Position
  <2>2. j \in DOMAIN s
    BY <1>4, <2>1, ZenonT(60) DEF Position
  <2>3. MemStart \in Nat /\ MemEnd \in Nat /\ ChunkLen \in Nat \ {0}
    BY Constants, Zenon
  <2> QED BY <1>4, <2>2, <2>3, ZenonT(60) DEF Position
<1>6a. f.total \in Nat /\ Sum(s) \in Nat /\ f.total + s[j].iov_len <= Sum(s)
  BY <1>4, Zenon DEF Position
<1>7. n \in 1..f.remaining /\ n <= ChunkLen
  BY <1>0, <1>1, <1>6 DEF Piece
<1>8. AllMapped(s) => \A a \in f.uaddr..(f.uaddr + (f.remaining - 1)) : Readable(a)
  <2>1. SUFFICES ASSUME AllMapped(s), NEW a \in f.uaddr..(f.uaddr + (f.remaining - 1))
                 PROVE  MemStart <= a /\ a < MemEnd
    BY DEF Readable
  <2>2. s[j].iov_base..(s[j].iov_base + (s[j].iov_len - 1)) \subseteq MemStart..(MemEnd - 1)
    BY <1>6, <2>1 DEF AllMapped, Mapped, Extent
  <2>3. a \in s[j].iov_base..(s[j].iov_base + (s[j].iov_len - 1))
    BY <1>6
  <2>4. a \in MemStart..(MemEnd - 1)
    BY <2>2, <2>3, Zenon
  <2> QED BY <1>6, <2>4
<1>9. /\ state' = state /\ runqueue' = runqueue /\ context' = context /\ cpu' = cpu
      /\ current' = current /\ left' = left /\ asked' = asked
  BY Zenon DEF WriteChunk
<1>10. context[t] \in [Registers -> Int] /\ context' = [context EXCEPT ![t] = context[t]]
  BY <1>2, <1>9, Zenon DEF Inv, Types
<1>11. CASE ~Readable(f.uaddr)
  <2>1. Done(c, -EFAULT) /\ printed' = printed
    BY <1>0, <1>11, Zenon DEF WriteChunk
  <2>2. ~AllMapped(s) /\ s = Vector(asked[t])
    <3>1. f.uaddr \in f.uaddr..(f.uaddr + (f.remaining - 1))
      BY <1>1, <1>6, SMTT(60)
    <3>2. s = Vector(asked[t])
      BY <1>4, Zenon DEF Position
    <3> QED BY <1>8, <1>11, <3>1, <3>2, Zenon
  <2>3. -EFAULT \in Int /\ -EFAULT \in Answers(asked[t])
    BY <1>3, <1>5, <2>2, PrintAnswers DEF EFAULT
  <2>4. PrintedAll(t, -EFAULT)
    BY <2>2, Zenon DEF PrintedAll
  <2>5. SameRegs(t)' /\ FsbaseOK(t)'
    BY <1>3, <1>9 DEF SameRegs, FsbaseOK
  <2> QED BY <1>2, <1>3, <1>9, <1>10, <2>1, <2>3, <2>4, <2>5, DoneInv, Zenon
<1>12. CASE Readable(f.uaddr)
  <2>1. PICK chunk : chunk = ReadInto(f.chunk, f.uaddr, n)
    BY Zenon
  <2>2. PICK e : e = [k \in 1..n |-> chunk[k - 1]]
    BY Zenon
  <2>3. /\ frame' = [frame EXCEPT ![c].chunk = chunk, ![c].uaddr = @ + n, ![c].remaining = @ - n]
        /\ printed' = [printed EXCEPT ![t] = printed[t] \o e] /\ pc' = pc
    BY <1>0, <1>2, <1>12, <2>1, <2>2, ZenonT(60) DEF WriteChunk, Inv, Types
  <2>4. chunk \in [0..(ChunkLen - 1) -> Int]
    <3>1. f.chunk \in [0..(ChunkLen - 1) -> Int]
      BY <1>2, Zenon DEF Frames
    <3> QED BY <1>6, <2>1, <3>1 DEF ReadInto
  <2>5. e \in Seq(Int) /\ Len(e) = n
    <3>1. \A k \in 1..n : chunk[k - 1] \in Int
      BY <1>6, <1>7, <2>4
    <3> QED BY <1>7, <2>2, <3>1
  <2>6. PICK g : g = [f EXCEPT !.chunk = chunk, !.uaddr = @ + n, !.remaining = @ - n]
    BY Zenon
  <2>7. /\ g \in Frames /\ g.iovecs = f.iovecs /\ g.total = f.total
        /\ g.uaddr = f.uaddr + n /\ g.remaining = f.remaining - n
    <3>1. f.remaining - n \in Nat /\ f.uaddr + n \in Nat
      BY <1>6, <1>7
    <3> QED BY <1>2, <2>4, <2>6, <3>1, Zenon DEF Frames
  <2>8. frame' = [frame EXCEPT ![c] = g]
    BY <1>0, <2>3, <2>6, ZenonT(60) DEF Inv, Types
  <2>9. printed[t] \in Seq(Int) /\ printed[t] \o e \in Seq(Int)
    <3>1. printed[t] \in Seq(Int)
      BY <1>2 DEF Inv, Types
    <3> QED BY ONLY <2>5, <3>1
  <2>10. Types'
    <3>1. frame \in [CPUs -> Frames] /\ printed \in [Threads -> Seq(Int)]
      BY Zenon DEF Inv, Types
    <3>2. frame' \in [CPUs -> Frames]
      BY ONLY <2>7, <2>8, <3>1
    <3>3. PICK z : z = printed[t] \o e
      BY Zenon
    <3>4. printed' = [printed EXCEPT ![t] = z] /\ z \in Seq(Int)
      BY <2>3, <2>9, <3>3, Zenon
    <3>5. printed' \in [Threads -> Seq(Int)]
      BY ONLY <3>1, <3>4, ZenonT(60)
    <3> QED BY <1>9, <2>3, <3>2, <3>5, Zenon DEF Inv, Types
  <2>11. OnlyCpu(c) /\ OnlyThread(t)
    BY <1>9, <2>3, <2>8 DEF OnlyCpu, OnlyThread, SameThread, Inv, Types
  <2>12. pc'[c] = "write" /\ frame'[c] = g /\ current'[c] = t /\ printed'[t] = printed[t] \o e
    BY <1>0, <1>1, <1>2, <1>9, <2>3, <2>8, ZenonT(60) DEF Inv, Types
  <2>13. PICK p : p = f.total + (s[j].iov_len - f.remaining)
    BY Zenon
  <2>14. p \in Nat /\ p + n <= Sum(s) /\ p + n = g.total + (s[j].iov_len - g.remaining)
    BY <1>6, <1>6a, <1>7, <2>7, <2>13, SMTT(60)
  <2>15. AllMapped(s) => printed'[t] = SubSeq(BytesOf(s), 1, p + n)
    <3>1. SUFFICES ASSUME AllMapped(s) PROVE printed'[t] = SubSeq(BytesOf(s), 1, p + n)
      BY Zenon
    <3>2. printed[t] = SubSeq(BytesOf(s), 1, p)
      BY <1>4, <2>13, <3>1, ZenonT(60) DEF Position
    <3>3. Filled(f.uaddr, n) = n
      <4>1. Readable(f.uaddr + (n - 1))
        <5>1. f.uaddr + (n - 1) \in f.uaddr..(f.uaddr + (f.remaining - 1))
          BY <1>6, <1>7, LastByte, Zenon
        <5> QED BY <1>8, <3>1, <5>1, Zenon
      <4>2. n \in Nat
        BY <1>6, <1>7, LastByte, Zenon
      <4> QED BY <1>6, <4>1, <4>2, FilledAll, ZenonT(60)
    <3>4. ASSUME NEW k \in 1..n PROVE e[k] = BytesOf(s)[p + k]
      <4>1. f.chunk \in [0..(ChunkLen - 1) -> Int]
        BY <1>2, SMTT(60) DEF Frames
      <4>2. k - 1 \in 0..(ChunkLen - 1) /\ k - 1 < n
        BY <1>6, <1>7, SMTT(60)
      <4>3. chunk[k - 1] = f.uaddr + (k - 1)
        BY <2>1, <3>3, <4>1, <4>2, ZenonT(60) DEF ReadInto
      <4>4. e[k] = f.uaddr + (k - 1)
        BY <2>2, <4>3, Zenon
      <4>5. PICK m : m = (s[j].iov_len - f.remaining) + k
        BY Zenon
      <4>6. m \in 1..s[j].iov_len /\ p + k = f.total + m /\ s[j].iov_base + (m - 1) = f.uaddr + (k - 1)
        BY <1>6, <1>6a, <1>7, <2>13, <4>5, SMTT(60)
      <4>7. BytesOf(s)[f.total + m] = s[j].iov_base + (m - 1)
        BY <1>4, <4>6, ZenonT(60) DEF Position
      <4> QED BY <4>4, <4>6, <4>7, Zenon
    <3>5. BytesOf(s) \in Seq(Nat) /\ p + n <= Len(BytesOf(s))
      BY <1>4, <2>14, ZenonT(60) DEF Position
    <3>6. n \in Nat
      BY <1>7, SMTT(60)
    <3>7. PICK B : B = BytesOf(s)
      BY Zenon
    <3>8. SubSeq(B, 1, p) \o e = SubSeq(B, 1, p + n)
      <4>1. B \in Seq(Nat) /\ p + n <= Len(B) /\ \A k \in 1..n : e[k] = B[p + k]
        BY <3>4, <3>5, <3>7, Zenon
      <4> QED BY <2>5, <2>14, <3>6, <4>1, LongerPrefix, Zenon
    <3> QED BY <2>12, <3>2, <3>7, <3>8, Zenon
  <2>16. s = Vector(asked'[t]) /\ BytesOf(s) \in Seq(Nat) /\ Len(BytesOf(s)) = Sum(s) /\ Sum(s) \in Nat
    BY <1>4, <1>9, Zenon DEF Position
  <2>17. PrintedPrefix(t)'
    <3>1. SUFFICES ASSUME AllMapped(s)
                   PROVE  /\ Len(printed'[t]) <= Len(BytesOf(s))
                          /\ printed'[t] = SubSeq(BytesOf(s), 1, Len(printed'[t]))
      BY <2>16, Zenon DEF PrintedPrefix
    <3>2. PICK q : q = p + n
      BY Zenon
    <3>3. q \in Nat /\ q <= Len(BytesOf(s))
      BY <1>7, <2>14, <2>16, <3>2, SMTT(60)
    <3>4. printed'[t] = SubSeq(BytesOf(s), 1, q)
      BY <2>15, <3>1, <3>2
    <3>5. Len(SubSeq(BytesOf(s), 1, q)) = q
      BY ONLY <2>16, <3>3
    <3> QED BY <3>3, <3>4, <3>5, Zenon
  <2>18. Progress(t, frame[c])'
    <3>1. /\ Len(g.iovecs) \in 1..Len(s) /\ j = Len(s) - Len(g.iovecs) + 1
          /\ \A i \in 1..Len(g.iovecs) : g.iovecs[i] = s[j - 1 + i]
          /\ g.total = SumUpTo(s)[j - 1]
      BY <1>4, <2>7, ZenonT(60) DEF Position
    <3>2. /\ g.remaining <= s[j].iov_len
          /\ g.uaddr = s[j].iov_base + (s[j].iov_len - g.remaining)
      BY <1>6, <1>7, <2>7
    <3>3. AllMapped(s) =>
            printed'[t] = SubSeq(BytesOf(s), 1, g.total + (s[j].iov_len - g.remaining))
      BY <2>14, <2>15, Zenon
    <3>4. Prints(asked'[t])
      BY <1>5, <1>9, Zenon
    <3> QED BY <2>12, <2>16, <3>1, <3>2, <3>3, <3>4, ZenonT(60) DEF Progress
  <2>19. HandlerOK(c, t)'
    <3>1. SameRegs(t)' /\ FsbaseOK(t)'
      BY <1>3, <1>9, Zenon DEF SameRegs, FsbaseOK
    <3> QED BY <1>3, <1>9, <2>12, <2>18, <3>1, Zenon DEF HandlerOK
  <2> QED BY <1>2, <1>9, <2>10, <2>11, <2>12, <2>17, <2>19, ServeStep, Zenon DEF ServingPcs
<1> QED BY <1>11, <1>12, Zenon

\* sys_write is through with an iovec: the call is answered, or the next one follows.
LEMMA WriteDoneInv ==
    ASSUME VectorsOK, Inv, NEW c \in CPUs, WriteDone(c)
    PROVE  Inv'
<1>0. PICK t, f : t = current[c] /\ f = frame[c]
  BY Zenon
<1>1. pc[c] = "write" /\ f.remaining = 0
  BY <1>0, Zenon DEF WriteDone
<1>2. t \in Threads /\ Serves(c, t) /\ f \in Frames
  BY <1>0, <1>1, Zenon DEF Inv, PlaceOK, Types, Serves, ServingPcs, BusyPcs
<1>3. asked[t] \in Calls /\ SameRegs(t) /\ FsbaseOK(t) /\ Progress(t, f)
  BY <1>0, <1>1, <1>2, ZenonT(60) DEF Inv, ValuesOK, HandlerOK
<1>4. PICK s, j : Position(t, f, s, j)
  BY <1>2, <1>3, ProgressPosition, Zenon
<1>5. Prints(asked[t])
  BY <1>3, Zenon DEF Progress
<1>6. /\ s = Vector(asked[t]) /\ s \in Seq(IovecType) /\ Len(s) \in Nat
      /\ j = Len(s) - Len(f.iovecs) + 1 /\ j \in 1..Len(s) /\ Len(f.iovecs) \in 1..Len(s)
      /\ \A i \in 1..Len(f.iovecs) : f.iovecs[i] = s[j - 1 + i]
      /\ f.total \in Nat /\ s[j].iov_len \in Nat
  BY <1>4, Zenon DEF Position
<1>6a. /\ j \in Int /\ f.total \in Int /\ s[j].iov_len \in Int /\ Len(f.iovecs) \in Int
       /\ Len(f.iovecs) >= 1
  <2>1. /\ Len(s) \in Nat /\ j \in 1..Len(s) /\ Len(f.iovecs) \in 1..Len(s)
        /\ f.total \in Nat /\ s[j].iov_len \in Nat
    BY <1>6, Zenon
  <2>2. PICK p, q, x, y : p = Len(s) /\ q = Len(f.iovecs) /\ x = f.total /\ y = s[j].iov_len
    BY Zenon
  <2>3. p \in Nat /\ j \in 1..p /\ q \in 1..p /\ x \in Nat /\ y \in Nat
    BY <2>1, <2>2, Zenon
  <2>4. j \in Int /\ q \in Int /\ q >= 1 /\ x \in Int /\ y \in Int
    BY ONLY <2>3
  <2> QED BY <2>2, <2>4, Zenon
<1>7. f.iovecs \in Seq(IovecType) /\ f.iovecs # <<>> /\ Head(f.iovecs) = s[j]
  <2>1. f.iovecs \in Seq(IovecType)
    BY <1>2, Zenon DEF Frames
  <2>2. f.iovecs[1] = s[j]
    <3>1. 1 \in 1..Len(f.iovecs) /\ j - 1 + 1 = j
      BY ONLY <1>6a
    <3> QED BY <1>6, <3>1, Zenon
  <2>3. f.iovecs # <<>>
    BY ONLY <1>6a, <2>1
  <2>4. Head(f.iovecs) = f.iovecs[1]
    BY ONLY <2>1, <2>3
  <2> QED BY <2>1, <2>2, <2>3, <2>4, Zenon
<1>8. PICK sum : sum = TotalAfter(f)
  BY Zenon
<1>9. sum = f.total + s[j].iov_len /\ sum \in Nat /\ sum = SumUpTo(s)[j]
  <2>1. SumUpTo(s)[j] = f.total + s[j].iov_len
    BY <1>4, Zenon DEF Position
  <2>2. sum = f.total + s[j].iov_len
    BY <1>7, <1>8, Zenon DEF TotalAfter
  <2>3. f.total + s[j].iov_len \in Nat
    <3>1. f.total \in Nat /\ s[j].iov_len \in Nat
      BY <1>6, Zenon
    <3> QED BY ONLY <3>1
  <2> QED BY <2>1, <2>2, <2>3, Zenon
<1>10. AllMapped(s) => printed[t] = SubSeq(BytesOf(s), 1, sum)
  <2>1. f.total + (s[j].iov_len - f.remaining) = sum
    BY ONLY <1>1, <1>6a, <1>9
  <2> QED BY <1>4, <2>1, Zenon DEF Position
<1>11. /\ state' = state /\ runqueue' = runqueue /\ context' = context /\ cpu' = cpu
       /\ current' = current /\ left' = left /\ asked' = asked /\ printed' = printed
  BY Zenon DEF WriteDone, ghosts
<1>12. CASE Len(f.iovecs) = 1 /\ Done(c, sum)
  <2>1. sum = Sum(s)
    BY <1>6, <1>9, <1>12 DEF Sum
  <2>2. sum \in Answers(asked[t])
    BY <1>3, <1>5, <1>6, <2>1, PrintAnswers, Zenon
  <2>3. PrintedAll(t, sum)
    <3>1. BytesOf(s) \in Seq(Nat) /\ Len(BytesOf(s)) = sum
      BY <1>4, <2>1, Zenon DEF Position
    <3>2. SubSeq(BytesOf(s), 1, sum) = BytesOf(s)
      BY ONLY <3>1
    <3> QED BY <1>6, <1>10, <3>2, Zenon DEF PrintedAll
  <2>4. SameRegs(t)' /\ FsbaseOK(t)'
    BY <1>3, <1>11, Zenon DEF SameRegs, FsbaseOK
  <2>5. context[t] \in [Registers -> Int] /\ context' = [context EXCEPT ![t] = context[t]]
    BY <1>2, <1>11, Zenon DEF Inv, Types
  <2>6. sum \in Int
    BY <1>9
  <2> QED BY <1>2, <1>3, <1>11, <1>12, <2>2, <2>3, <2>4, <2>5, <2>6, DoneInv, Zenon
<1>13. CASE Len(f.iovecs) > 1 /\ Write(c, Tail(f.iovecs), sum)
  <2>1. PICK rest : rest = Tail(f.iovecs)
    BY Zenon
  <2>2. /\ rest \in Seq(IovecType) /\ Len(rest) = Len(f.iovecs) - 1
        /\ \A i \in 1..Len(rest) : rest[i] = f.iovecs[i + 1]
    BY <1>6, <1>7, <2>1
  <2>3. rest # <<>>
    BY <1>6, <1>13, <2>2
  <2>4. PICK m : m = j + 1
    BY Zenon
  <2>5. m \in 1..Len(s) /\ m = Len(s) - Len(rest) + 1 /\ Len(rest) \in 1..Len(s)
    BY <1>6, <1>13, <2>2, <2>4
  <2>6. \A i \in 1..Len(rest) : rest[i] = s[m - 1 + i]
    <3>1. SUFFICES ASSUME NEW i \in 1..Len(rest) PROVE rest[i] = s[m - 1 + i]
      BY Zenon
    <3>2. i + 1 \in 1..Len(f.iovecs) /\ j - 1 + (i + 1) = m - 1 + i
      BY ONLY <1>6a, <2>2, <2>4, <3>1, i \in 1..Len(rest), SMTT(60)
    <3>3. f.iovecs[i + 1] = s[j - 1 + (i + 1)]
      BY <1>6, <3>2, Zenon
    <3> QED BY <2>2, <3>2, <3>3, Zenon
  <2>7. rest[1] = s[m] /\ s[m].iov_len \in Nat /\ s[m].iov_base \in Nat
    <3>1. rest[1] = s[m]
      BY <2>5, <2>6
    <3>2. s[m] \in IovecType
      BY <1>6, <2>5, SMTT(60)
    <3> QED BY <3>1, <3>2, Zenon DEF IovecType
  <2>8. sum = SumUpTo(s)[m - 1]
    <3>1. m - 1 = j
      BY ONLY <1>6a, <2>4, SMTT(60)
    <3> QED BY <1>9, <3>1, Zenon
  <2>9. ASSUME NEW g \in Frames, g.iovecs = rest, g.total = sum,
               g.uaddr = rest[1].iov_base, g.remaining = rest[1].iov_len
        PROVE  Progress(t, g)
    <3>1. /\ g.remaining <= s[m].iov_len
          /\ g.uaddr = s[m].iov_base + (s[m].iov_len - g.remaining)
          /\ g.total + (s[m].iov_len - g.remaining) = sum
      BY <1>9, <2>7, <2>9, SMTT(60)
    <3>2. AllMapped(s) =>
            printed[t] = SubSeq(BytesOf(s), 1, g.total + (s[m].iov_len - g.remaining))
      BY <1>10, <3>1, Zenon
    <3>3. /\ m = Len(s) - Len(g.iovecs) + 1 /\ Len(g.iovecs) \in 1..Len(s)
          /\ \A i \in 1..Len(g.iovecs) : g.iovecs[i] = s[m - 1 + i]
          /\ g.total = SumUpTo(s)[m - 1] /\ s = Vector(asked[t])
      BY <1>6, <2>5, <2>6, <2>8, <2>9, Zenon
    <3> QED BY <1>5, <3>1, <3>2, <3>3, Zenon DEF Progress
  <2> QED BY <1>2, <1>3, <1>9, <1>11, <1>13, <2>1, <2>2, <2>3, <2>9, WriteInv, ZenonT(60)
<1>14. \/ Len(f.iovecs) = 1 /\ Done(c, sum)
       \/ Len(f.iovecs) > 1 /\ Write(c, Tail(f.iovecs), sum)
  BY <1>0, <1>8, Zenon DEF WriteDone
<1> QED BY <1>12, <1>13, <1>14, Zenon

-------------------------------------------------------------------------------
(* All steps.                                                                 *)

LEMMA InitInv ==
    ASSUME VectorsOK
    PROVE  Init => Inv
<1>1. SUFFICES ASSUME Init PROVE Inv
  BY Zenon
<1> USE DEF Init
<1>2. Types
  <2>1. <<>> \in Seq(Threads) /\ <<>> \in Seq(Int)
    OBVIOUS
  <2> QED BY <1>1, <2>1, RegisterTypes, Zenon DEF Types, Labels
<1>3. PlaceOK
  <2>1. \A c \in CPUs : pc[c] \in {"boot", "schedule"}
    BY <1>1, Zenon
  <2>2. \A t : ~Queued(t)
    BY <1>1 DEF Queued
  <2>3. \A i, j \in DOMAIN runqueue : runqueue[i] = runqueue[j] => i = j
    BY <1>1
  <2> QED BY <2>1, <2>2, <2>3, Zenon DEF PlaceOK, Serves, RunsOn, Busy, BusyPcs, ServingPcs
<1>4. ASSUME NEW t \in Threads, NEW c \in CPUs PROVE ~Serves(c, t) /\ ~RunsOn(c, t)
  BY <1>1, Zenon DEF Serves, RunsOn, ServingPcs
<1>5. ASSUME NEW t \in Threads PROVE ThreadOK(t)
  <2>1. /\ state[t] = "Unborn" /\ asked[t] = NoCall /\ printed[t] = <<>>
        /\ context[t] = FreshContext /\ left[t] = FreshContext
    BY <1>1, Zenon
  <2>2. PrintedPrefix(t)
    BY <2>1, NothingPrinted, Zenon DEF PrintedPrefix
  <2> QED BY <2>1, <2>2, Zenon DEF ThreadOK
<1> QED BY <1>2, <1>3, <1>4, <1>5, Zenon DEF Inv, ValuesOK, HandlerOK

LEMMA NextInv ==
    ASSUME VectorsOK
    PROVE  Inv /\ [Next]_vars => Inv'
<1>1. SUFFICES ASSUME Inv, [Next]_vars PROVE Inv'
  BY Zenon
<1>2. CASE UNCHANGED vars
  <2>1. Types' /\ PlaceOK'
    BY <1>1, <1>2 DEF vars, ghosts, Inv, Types, PlaceOK, Serves, RunsOn, Busy, Queued
  <2>2. ASSUME NEW u \in Threads PROVE SameThread(u)
    BY <1>2, ZenonT(60) DEF vars, ghosts, SameThread
  <2>3. ASSUME NEW u \in Threads PROVE ThreadOK(u)'
    <3>1. ThreadOK(u)
      BY <1>1, Zenon DEF Inv, ValuesOK
    <3> QED BY <2>2, <3>1, ThreadKept, Zenon
  <2>4. ASSUME NEW u \in Threads, NEW d \in CPUs
        PROVE  HandlerOK(d, u)' /\ (RunsOn(d, u)' => cpu'[d]["fsbase"] = context'[u]["fsbase"])
    <3>1. HandlerOK(d, u) /\ (RunsOn(d, u) => cpu[d]["fsbase"] = context[u]["fsbase"])
      BY <1>1, Zenon DEF Inv, ValuesOK
    <3>2. frame'[d] = frame[d] /\ pc'[d] = pc[d] /\ current'[d] = current[d] /\ cpu'[d] = cpu[d]
      BY <1>2, Zenon DEF vars
    <3>3. HandlerOK(d, u)'
      BY <2>2, <3>1, <3>2, HandlerKept, Zenon
    <3> QED BY <2>2, <3>1, <3>2, <3>3, ZenonT(60) DEF SameThread, RunsOn
  <2> QED BY <2>1, <2>3, <2>4, Zenon DEF Inv, ValuesOK
<1>3. CASE Next
  <2>1. ASSUME NEW c \in CPUs, HandlerStep(c) PROVE Inv'
    BY <1>1, <2>1, SyscallInv, WriteChunkInv, WriteDoneInv, SetContextInv, UnblockInv, LeaveInv, Zenon
       DEF HandlerStep
  <2>2. ASSUME NEW c \in CPUs, Schedule(c) \/ Interrupt(c) \/ BootDone(c) PROVE Inv'
    BY <1>1, <2>2, ScheduleInv, InterruptInv, LeaveInv, Zenon
  <2>3. ASSUME NEW c \in CPUs, NEW v \in Stamps, UserRun(c, v) PROVE Inv'
    BY <1>1, <2>3, UserRunInv, Zenon
  <2>4. ASSUME NEW c \in CPUs, NEW call \in Calls, SyscallEntry(c, call) PROVE Inv'
    BY <1>1, <2>4, SyscallEntryInv, Zenon
  <2>5. ASSUME NEW c \in CPUs, NEW t \in Threads, spawn(c, t) PROVE Inv'
    BY <1>1, <2>5, spawnInv, Zenon
  <2>6. CASE AllIdle
    BY <1>2, <2>6, Zenon DEF AllIdle
  <2> QED BY <1>3, <2>1, <2>2, <2>3, <2>4, <2>5, <2>6, Zenon DEF Next
<1> QED BY <1>1, <1>2, <1>3, Zenon

-------------------------------------------------------------------------------
(* Sums and bytes of a vector of iovecs.                                      *)

INSTANCE FiniteSetTheorems
INSTANCE WellFoundedInduction

\* A set of naturals that is not empty has a least element: what an induction needs.
LEMMA Least ==
    ASSUME NEW T \in SUBSET Nat, T # {}
    PROVE  \E n \in T : \A m \in T : n <= m
<1>. DEFINE UpTo(n) == 0..n
            Intervals == {UpTo(n) : n \in T}
<1>1. Intervals \subseteq FiniteSubsetsOf(Nat)
  <2>. SUFFICES ASSUME NEW n \in T PROVE UpTo(n) \in SUBSET Nat /\ IsFiniteSet(UpTo(n))
    BY Zenon DEF FiniteSubsetsOf
  <2>. QED
    BY FS_Interval
<1>2. Intervals # {}
  BY Zenon
<1>3. PICK J \in Intervals :
        \A K \in Intervals : ~(<<K, J>> \in StrictSubsetOrdering(Nat))
  BY <1>1, <1>2, WFMin, FS_StrictSubsetOrderingWellFounded, Zenon
<1>4. PICK n \in T : J = UpTo(n)
  BY Zenon
<1>5. ASSUME NEW m \in T, m < n PROVE FALSE
  <2>1. /\ UpTo(m) \in SUBSET Nat /\ UpTo(n) \in SUBSET Nat
        /\ UpTo(m) \subseteq UpTo(n) /\ UpTo(m) # UpTo(n)
    BY <1>5
  <2>. HIDE DEF UpTo
  <2>2. <<UpTo(m), UpTo(n)>> \in StrictSubsetOrdering(Nat)
    BY <2>1, Zenon DEF StrictSubsetOrdering
  <2>. QED
    BY <1>3, <1>4, <2>2
<1>. QED
  BY <1>5

\* f starts with v0 and goes on by step.
Follows(f, N, v0, step) == f[0] = v0 /\ \A k \in 1..N : f[k] = step[<<k, f[k - 1]>>]

\* A recursive function over 0..N exists, whatever its step.
LEMMA Recursion ==
    ASSUME NEW N \in Nat, NEW V, NEW v0 \in V, NEW D, D = (1..N) \X V, NEW step \in [D -> V]
    PROVE  \E f \in [0..N -> V] : Follows(f, N, v0, step)
<1> DEFINE P(n) == \E f \in [0..n -> V] :
                        f[0] = v0 /\ \A k \in 1..n : f[k] = step[<<k, f[k - 1]>>]
           Bad == {n \in 0..N : ~P(n)}
<1>0. Bad \in SUBSET Nat
  OBVIOUS
<1>1. ASSUME Bad # {} PROVE FALSE
  <2>1. PICK n \in Bad : \A m \in Bad : n <= m
    <3> HIDE DEF Bad
    <3> QED BY <1>0, <1>1, Least, Zenon
  <2>2. n # 0
    <3>1. P(0)
      <4> DEFINE f == [k \in 0..0 |-> v0]
      <4>1. f \in [0..0 -> V] /\ f[0] = v0 /\ \A k \in 1..0 : f[k] = step[<<k, f[k - 1]>>]
        OBVIOUS
      <4> QED BY <4>1, Zenon
    <3> QED BY <3>1, Zenon
  <2>3. n - 1 \in 0..N /\ n \in 1..N /\ ~(n <= n - 1)
    BY <2>2
  <2>4. P(n - 1)
    BY <2>1, <2>3, Zenon
  <2>5. PICK g \in [0..(n - 1) -> V] :
            g[0] = v0 /\ \A k \in 1..(n - 1) : g[k] = step[<<k, g[k - 1]>>]
    BY <2>4, Zenon
  <2> DEFINE f == [k \in 0..n |-> IF k = n THEN step[<<n, g[n - 1]>>] ELSE g[k]]
  <2>6. step[<<n, g[n - 1]>>] \in V
    <3>1. g[n - 1] \in V
      BY <2>3
    <3> QED BY <2>3, <3>1, Zenon
  <2>7. f \in [0..n -> V] /\ f[0] = v0
    BY <2>2, <2>3, <2>5, <2>6
  <2>8. ASSUME NEW k \in 1..n PROVE f[k] = step[<<k, f[k - 1]>>]
    <3>1. f[k - 1] = g[k - 1]
      BY <2>3
    <3>2. f[k] = IF k = n THEN step[<<n, g[n - 1]>>] ELSE g[k]
      BY <2>3
    <3> HIDE DEF f
    <3>3. CASE k = n
      BY <3>1, <3>2, <3>3, Zenon
    <3>4. CASE k # n
      <4>1. k \in 1..(n - 1)
        BY <2>3, <3>4
      <4> QED BY <2>5, <3>1, <3>2, <3>4, <4>1
    <3> QED BY <3>3, <3>4, Zenon
  <2> HIDE DEF f
  <2>9. P(n)
    BY <2>7, <2>8, Zenon
  <2> QED BY <2>9, Zenon
<1>2. N \notin Bad /\ N \in 0..N
  BY <1>1
<1> QED BY <1>2, Zenon DEF Follows

\* The partial sums of the lengths.
LEMMA SumsHold ==
    ASSUME NEW s \in Seq(IovecType)
    PROVE  /\ SumUpTo(s) \in [0..Len(s) -> Nat] /\ SumUpTo(s)[0] = 0
           /\ \A k \in 1..Len(s) : SumUpTo(s)[k] = SumUpTo(s)[k - 1] + s[k].iov_len
<1> DEFINE step == [p \in (1..Len(s)) \X Nat |-> p[2] + s[p[1]].iov_len]
           Eq(f) == f = [k \in 0..Len(s) |-> IF k = 0 THEN 0 ELSE f[k - 1] + s[k].iov_len]
<1>0. 0 \in Nat /\ Len(s) \in Nat /\ \A k \in 1..Len(s) : s[k] \in IovecType
  OBVIOUS
<1>1. \A k \in 1..Len(s) : s[k].iov_len \in Nat
  BY <1>0 DEF IovecType
<1>2. step \in [(1..Len(s)) \X Nat -> Nat]
  BY <1>1
<1>3. \A k \in 1..Len(s), x \in Nat : step[<<k, x>>] = x + s[k].iov_len
  BY Zenon
<1> HIDE DEF step
<1>4. PICK f \in [0..Len(s) -> Nat] : f[0] = 0 /\ \A k \in 1..Len(s) : f[k] = step[<<k, f[k - 1]>>]
  <2>1. \E f \in [0..Len(s) -> Nat] : Follows(f, Len(s), 0, step)
    BY <1>0, <1>2, Recursion, Zenon
  <2> QED BY <2>1, Zenon DEF Follows
<1>5. ASSUME NEW k \in 1..Len(s) PROVE k - 1 \in 0..Len(s) /\ f[k] = f[k - 1] + s[k].iov_len
  <2>1. k - 1 \in 0..Len(s)
    BY <1>0
  <2>2. f[k - 1] \in Nat
    BY <1>4, <2>1, Zenon
  <2> QED BY <1>3, <1>4, <2>1, <2>2, Zenon
<1>6. Eq(f)
  BY <1>4, <1>5
<1>7. SumUpTo(s) = CHOOSE g : Eq(g)
  BY Zenon DEF SumUpTo
<1>8. Eq(SumUpTo(s))
  <2> HIDE DEF Eq
  <2> QED BY <1>6, <1>7, Zenon
<1> DEFINE g == SumUpTo(s)
<1>9. /\ DOMAIN g = 0..Len(s) /\ g[0] = 0
      /\ \A k \in 1..Len(s) : g[k] = g[k - 1] + s[k].iov_len
  <2> HIDE DEF g
  <2>1. g = [k \in 0..Len(s) |-> IF k = 0 THEN 0 ELSE g[k - 1] + s[k].iov_len]
    BY <1>8, Zenon DEF g
  <2>2. \A k \in 0..Len(s) : g[k] = IF k = 0 THEN 0 ELSE g[k - 1] + s[k].iov_len
    BY <2>1, Zenon
  <2>3. DOMAIN g = 0..Len(s)
    BY <2>1, Zenon
  <2>4. 0 \in 0..Len(s) /\ \A k \in 1..Len(s) : k \in 0..Len(s) /\ k # 0
    OBVIOUS
  <2> QED BY ONLY <2>2, <2>3, <2>4
<1> HIDE DEF g, Eq
<1>10. \A k \in 0..Len(s) : g[k] = f[k]
  <2> DEFINE Bad == {k \in 0..Len(s) : g[k] # f[k]}
  <2>0. Bad \in SUBSET Nat
    OBVIOUS
  <2>1. ASSUME Bad # {} PROVE FALSE
    <3>1. PICK k \in Bad : \A m \in Bad : k <= m
      <4> HIDE DEF Bad
      <4> QED BY <2>0, <2>1, Least
    <3>2. k \in 1..Len(s) /\ k - 1 \in 0..Len(s) /\ k - 1 \notin Bad
      BY <1>4, <1>9, <3>1
    <3> QED BY <1>5, <1>9, <3>2, Zenon
  <2> QED BY <2>1, Zenon
<1>11. g \in [0..Len(s) -> Nat]
  <2>1. \A k \in 0..Len(s) : g[k] \in Nat
    BY <1>10
  <2>2. g = [k \in 0..Len(s) |-> g[k]]
    BY <1>8, Zenon DEF g, Eq
  <2> QED BY ONLY <1>9, <2>1, <2>2
<1> QED BY <1>9, <1>11, Zenon DEF g

\* The bytes of one iovec.
IovecBytes(v) == [m \in 1..v.iov_len |-> v.iov_base + (m - 1)]

\* An iovec has as many bytes as it says.
LEMMA IovecBytesType ==
    ASSUME NEW v \in IovecType
    PROVE  /\ IovecBytes(v) \in Seq(Nat) /\ Len(IovecBytes(v)) = v.iov_len
           /\ \A m \in 1..v.iov_len : IovecBytes(v)[m] = v.iov_base + (m - 1)
<1>1. v.iov_len \in Nat /\ v.iov_base \in Nat
  BY Zenon DEF IovecType
<1> QED BY <1>1 DEF IovecBytes

\* The bytes of the first iovecs.
LEMMA Bytes ==
    ASSUME NEW s \in Seq(IovecType)
    PROVE  /\ BytesUpTo(s) \in [0..Len(s) -> Seq(Nat)] /\ BytesUpTo(s)[0] = <<>>
           /\ \A k \in 1..Len(s) : BytesUpTo(s)[k] = BytesUpTo(s)[k - 1] \o IovecBytes(s[k])
<1> DEFINE step == [p \in (1..Len(s)) \X Seq(Nat) |-> p[2] \o IovecBytes(s[p[1]])]
           Eq(f) == f = [k \in 0..Len(s) |-> IF k = 0 THEN <<>> ELSE f[k - 1] \o IovecBytes(s[k])]
<1>0. <<>> \in Seq(Nat) /\ Len(s) \in Nat /\ \A k \in 1..Len(s) : s[k] \in IovecType
  OBVIOUS
<1>1. \A k \in 1..Len(s) : IovecBytes(s[k]) \in Seq(Nat)
  BY <1>0, IovecBytesType, Zenon
<1>2. step \in [(1..Len(s)) \X Seq(Nat) -> Seq(Nat)]
  BY <1>1
<1>3. \A k \in 1..Len(s), x \in Seq(Nat) : step[<<k, x>>] = x \o IovecBytes(s[k])
  BY Zenon
<1> HIDE DEF step
<1>4. PICK f \in [0..Len(s) -> Seq(Nat)] : f[0] = <<>> /\ \A k \in 1..Len(s) : f[k] = step[<<k, f[k - 1]>>]
  <2>1. \E f \in [0..Len(s) -> Seq(Nat)] : Follows(f, Len(s), <<>>, step)
    BY <1>0, <1>2, Recursion, Zenon
  <2> QED BY <2>1, Zenon DEF Follows
<1>5. ASSUME NEW k \in 1..Len(s) PROVE k - 1 \in 0..Len(s) /\ f[k] = f[k - 1] \o IovecBytes(s[k])
  <2>1. k - 1 \in 0..Len(s)
    BY <1>0
  <2>2. f[k - 1] \in Seq(Nat)
    BY <1>4, <2>1, Zenon
  <2> QED BY <1>3, <1>4, <2>1, <2>2, Zenon
<1>6. Eq(f)
  <2>1. \A k \in 0..Len(s) : k = 0 \/ k \in 1..Len(s)
    BY <1>0
  <2>2. \A k \in 0..Len(s) : f[k] = IF k = 0 THEN <<>> ELSE f[k - 1] \o IovecBytes(s[k])
    BY <1>4, <1>5, <2>1, Zenon
  <2> QED BY <1>4, <2>2, Zenon
<1>7. BytesUpTo(s) = CHOOSE g : Eq(g)
  BY Zenon DEF BytesUpTo, IovecBytes
<1>8. Eq(BytesUpTo(s))
  <2> HIDE DEF Eq
  <2> QED BY <1>6, <1>7, Zenon
<1> DEFINE g == BytesUpTo(s)
<1>9. /\ DOMAIN g = 0..Len(s) /\ g[0] = <<>>
      /\ \A k \in 1..Len(s) : g[k] = g[k - 1] \o IovecBytes(s[k])
  <2> HIDE DEF g
  <2>1. g = [k \in 0..Len(s) |-> IF k = 0 THEN <<>> ELSE g[k - 1] \o IovecBytes(s[k])]
    BY <1>8, Zenon DEF g
  <2>2. \A k \in 0..Len(s) : g[k] = IF k = 0 THEN <<>> ELSE g[k - 1] \o IovecBytes(s[k])
    BY <2>1, Zenon
  <2>3. DOMAIN g = 0..Len(s)
    BY <2>1, Zenon
  <2>4. 0 \in 0..Len(s) /\ \A k \in 1..Len(s) : k \in 0..Len(s) /\ k # 0
    OBVIOUS
  <2> QED BY ONLY <2>2, <2>3, <2>4, Zenon
<1> HIDE DEF g, Eq
<1>10. \A k \in 0..Len(s) : g[k] = f[k]
  <2> DEFINE Bad == {k \in 0..Len(s) : g[k] # f[k]}
  <2>0. Bad \in SUBSET Nat
    OBVIOUS
  <2>1. ASSUME Bad # {} PROVE FALSE
    <3>1. PICK k \in Bad : \A m \in Bad : k <= m
      <4> HIDE DEF Bad
      <4> QED BY <2>0, <2>1, Least, Zenon
    <3>2. k \in 1..Len(s) /\ k - 1 \in 0..Len(s) /\ k - 1 \notin Bad
      BY <1>4, <1>9, <3>1
    <3> QED BY <1>5, <1>9, <3>2, Zenon
  <2> QED BY <2>1, Zenon
<1>11. g \in [0..Len(s) -> Seq(Nat)]
  <2>1. \A k \in 0..Len(s) : g[k] \in Seq(Nat)
    BY <1>10, Zenon
  <2>2. g = [k \in 0..Len(s) |-> g[k]]
    BY <1>8, Zenon DEF g, Eq
  <2> QED BY ONLY <1>9, <2>1, <2>2
<1> QED BY <1>9, <1>11, Zenon DEF g

\* Byte m of iovec j is where the lengths before it add up to, in every longer prefix.
ByteAt(s, k, j, m) ==
    /\ SumUpTo(s)[j - 1] + m <= SumUpTo(s)[k]
    /\ BytesUpTo(s)[k][SumUpTo(s)[j - 1] + m] = s[j].iov_base + (m - 1)
BytesPlaced(s, k) ==
    /\ Len(BytesUpTo(s)[k]) = SumUpTo(s)[k]
    /\ \A j \in 1..k : \A m \in 1..s[j].iov_len : ByteAt(s, k, j, m)

\* The prefixes are as long as the sums say, and have every byte at its place.
LEMMA BytesInOrder ==
    ASSUME NEW s \in Seq(IovecType)
    PROVE  \A k \in 0..Len(s) : BytesPlaced(s, k)
<1> DEFINE S == SumUpTo(s)
           B == BytesUpTo(s)
           Bad == {k \in 0..Len(s) : ~BytesPlaced(s, k)}
<1>0. Len(s) \in Nat /\ \A k \in 1..Len(s) : s[k] \in IovecType
  OBVIOUS
<1>1. /\ S \in [0..Len(s) -> Nat] /\ S[0] = 0
      /\ \A k \in 1..Len(s) : S[k] = S[k - 1] + s[k].iov_len
  BY SumsHold, Zenon
<1>2. /\ B \in [0..Len(s) -> Seq(Nat)] /\ B[0] = <<>>
      /\ \A k \in 1..Len(s) : B[k] = B[k - 1] \o IovecBytes(s[k])
  BY Bytes, Zenon
<1>3. BytesPlaced(s, 0)
  BY <1>0, <1>1, <1>2 DEF BytesPlaced
<1>4. ASSUME NEW k \in 1..Len(s), BytesPlaced(s, k - 1) PROVE BytesPlaced(s, k)
  <2> DEFINE v == s[k]
             b == B[k - 1]
             c == IovecBytes(s[k])
             n == S[k - 1]
  <2>1. k - 1 \in 0..Len(s) /\ k \in Nat /\ v \in IovecType
    BY <1>0
  <2>2. n \in Nat /\ v.iov_len \in Nat /\ v.iov_base \in Nat /\ S[k] = n + v.iov_len
    BY <1>1, <2>1, ZenonT(60) DEF IovecType
  <2>3. /\ c \in Seq(Nat) /\ Len(c) = v.iov_len
        /\ \A m \in 1..v.iov_len : c[m] = v.iov_base + (m - 1)
    BY <2>1, IovecBytesType, Zenon
  <2>4. b \in Seq(Nat) /\ Len(b) = n /\ B[k] = b \o c
    BY <1>2, <1>4, <2>1, Zenon DEF BytesPlaced
  <2>5. \A j \in 1..(k - 1) : \A m \in 1..s[j].iov_len :
            S[j - 1] + m <= n /\ b[S[j - 1] + m] = s[j].iov_base + (m - 1)
    BY <1>4, Zenon DEF BytesPlaced, ByteAt
  <2>6. /\ Len(B[k]) = n + v.iov_len
        /\ \A i \in 1..n : B[k][i] = b[i]
        /\ \A i \in 1..v.iov_len : B[k][n + i] = c[i]
    <3> HIDE DEF b, c, n, v
    <3>0. b \in Seq(Nat) /\ c \in Seq(Nat)
      BY <2>3, <2>4
    <3>1. Len(b \o c) = Len(b) + Len(c)
      BY ONLY <3>0
    <3>2. \A i \in 1..Len(b) : (b \o c)[i] = b[i]
      BY ONLY <3>0
    <3>3. \A i \in 1..Len(c) : (b \o c)[Len(b) + i] = c[i]
      BY ONLY <3>0
    <3> QED BY <2>3, <2>4, <3>1, <3>2, <3>3, Zenon
  <2>7. ASSUME NEW j \in 1..k, NEW m \in 1..s[j].iov_len PROVE ByteAt(s, k, j, m)
    <3>1. CASE j = k
      BY <2>2, <2>3, <2>6, <3>1, SMTT(60) DEF ByteAt
    <3>2. CASE j # k
      <4>1. j \in 1..(k - 1) /\ j \in 1..Len(s) /\ j - 1 \in 0..Len(s)
        BY <1>0, <2>1, <3>2
      <4>2. S[j - 1] \in Nat /\ s[j].iov_len \in Nat
        BY <1>0, <1>1, <4>1, ZenonT(60) DEF IovecType
      <4>3. S[j - 1] + m <= n /\ b[S[j - 1] + m] = s[j].iov_base + (m - 1)
        BY <2>5, <4>1, Zenon
      <4>4. S[j - 1] + m \in 1..n /\ S[j - 1] + m <= S[k]
        <5>1. PICK x \in Nat : x = S[j - 1]
          BY <4>2
        <5>2. x + m <= n /\ m \in Nat \ {0} /\ n \in Nat /\ v.iov_len \in Nat
          BY <2>2, <4>2, <4>3, <5>1
        <5> HIDE DEF S, n, v
        <5>3. x + m \in 1..n /\ x + m <= n + v.iov_len
          BY ONLY <5>2, x \in Nat
        <5> QED BY ONLY <2>2, <5>1, <5>3
      <4>5. B[k][S[j - 1] + m] = b[S[j - 1] + m]
        BY <2>6, <4>4, SMTT(60)
      <4> QED BY <4>3, <4>4, <4>5, Zenon DEF ByteAt
    <3> QED BY <3>1, <3>2, Zenon
  <2> QED BY <2>2, <2>6, <2>7, Zenon DEF BytesPlaced
<1>5. Bad \in SUBSET Nat
  OBVIOUS
<1>6. ASSUME Bad # {} PROVE FALSE
  <2>1. PICK k \in Bad : \A m \in Bad : k <= m
    <3> HIDE DEF Bad
    <3> QED BY <1>5, <1>6, Least
  <2>2. k \in 1..Len(s) /\ k - 1 \in 0..Len(s) /\ ~(k <= k - 1)
    BY <1>0, <1>3, <2>1
  <2>3. BytesPlaced(s, k - 1)
    BY <2>1, <2>2
  <2> QED BY <1>4, <2>2, <2>3, Zenon
<1> QED BY <1>6

\* What the proofs below use of the two: the whole, and the place of a byte in it.
LEMMA VectorBytesHold ==
    ASSUME NEW s \in Seq(IovecType)
    PROVE  /\ Sum(s) \in Nat /\ BytesOf(s) \in Seq(Nat) /\ Len(BytesOf(s)) = Sum(s)
           /\ \A j \in 1..Len(s) :
                /\ SumUpTo(s)[j] <= Sum(s)
                /\ \A m \in 1..s[j].iov_len :
                    BytesOf(s)[SumUpTo(s)[j - 1] + m] = s[j].iov_base + (m - 1)
           /\ s = <<>> => Sum(s) = 0 /\ BytesOf(s) = <<>>
<1>1. Len(s) \in Nat /\ Len(s) \in 0..Len(s) /\ (s = <<>> => Len(s) = 0)
  OBVIOUS
<1>2. Sum(s) \in Nat /\ BytesOf(s) \in Seq(Nat) /\ Len(BytesOf(s)) = Sum(s)
  BY <1>1, SumsHold, Bytes, BytesInOrder, Zenon DEF Sum, BytesOf, BytesPlaced
<1>3. ASSUME NEW j \in 1..Len(s), NEW m \in 1..s[j].iov_len
      PROVE  BytesOf(s)[SumUpTo(s)[j - 1] + m] = s[j].iov_base + (m - 1)
  BY <1>1, BytesInOrder, Zenon DEF BytesPlaced, ByteAt, BytesOf
<1>4. ASSUME NEW j \in 1..Len(s) PROVE SumUpTo(s)[j] <= Sum(s)
  <2> DEFINE S == SumUpTo(s)
             Bad == {k \in j..Len(s) : ~(S[j] <= S[k])}
  <2>1. /\ S \in [0..Len(s) -> Nat]
        /\ \A k \in 1..Len(s) : S[k] = S[k - 1] + s[k].iov_len
    BY SumsHold
  <2>2. Bad \in SUBSET Nat
    OBVIOUS
  <2>3. ASSUME Bad # {} PROVE FALSE
    <3>1. PICK k \in Bad : \A m \in Bad : k <= m
      <4> HIDE DEF Bad
      <4> QED BY <2>2, <2>3, Least
    <3>2. k # j
      <4>1. S[j] \in Nat
        BY <2>1
      <4> HIDE DEF S
      <4> QED BY <4>1
    <3>3. k \in 1..Len(s) /\ k - 1 \in j..Len(s) /\ k - 1 \in 0..Len(s) /\ ~(k <= k - 1)
      BY <1>1, <3>2
    <3>4. S[j] <= S[k - 1]
      BY <3>1, <3>3, Zenon
    <3>5. S[j] \in Nat /\ S[k - 1] \in Nat /\ S[k] = S[k - 1] + s[k].iov_len /\ s[k] \in IovecType
      BY <2>1, <3>3, SMTT(60)
    <3>6. s[k].iov_len \in Nat
      BY <3>5, Zenon DEF IovecType
    <3> HIDE DEF S
    <3>7. S[j] <= S[k]
      BY <3>4, <3>5, <3>6
    <3> QED BY <3>7, Zenon
  <2>4. Len(s) \in j..Len(s)
    BY <1>1
  <2> QED BY <2>3, <2>4 DEF Sum
<1>5. s = <<>> => Sum(s) = 0 /\ BytesOf(s) = <<>>
  BY <1>1, SumsHold, Bytes, Zenon DEF Sum, BytesOf
<1> QED BY <1>2, <1>3, <1>4, <1>5, Zenon

LEMMA Vectors == VectorsOK
BY SumsHold, VectorBytesHold, Zenon DEF VectorsOK, SumsOK, BytesOK

-------------------------------------------------------------------------------
(* The theorems.                                                              *)

\* Inv is an invariant of the lx server and the threads it serves.
THEOREM Invariance == Spec => []Inv
<1>1. Init => Inv
  BY InitInv, Vectors
<1>2. Inv /\ [Next]_vars => Inv'
  BY NextInv, Vectors
<1> QED BY <1>1, <1>2, PTL DEF Spec

\* The queue holds a thread once: with one missing it has fewer entries than threads.
LEMMA RoomInQueue ==
    ASSUME Inv, NEW t \in Threads, ~Queued(t)
    PROVE  Len(runqueue) < Cardinality(Threads)
<1> DEFINE others == Threads \ {t}
<1>1. /\ IsFiniteSet(others) /\ Cardinality(others) = Cardinality(Threads) - 1
      /\ Cardinality(Threads) \in Nat
  BY LxAssumption, FS_RemoveElement, FS_CardinalityType, Zenon
<1>2. /\ runqueue \in [1..Len(runqueue) -> others] /\ Len(runqueue) \in Nat
      /\ DOMAIN runqueue = 1..Len(runqueue)
  <2>1. runqueue \in Seq(Threads)
    BY Zenon DEF Inv, Types
  <2> QED BY <2>1, SMTT(15) DEF Queued
<1>3. IsFiniteSet(1..Len(runqueue)) /\ Cardinality(1..Len(runqueue)) = Len(runqueue)
  BY <1>2, FS_Interval, SMTT(15)
<1>4. CASE Cardinality(others) < Len(runqueue)
  <2>1. \E i, j \in 1..Len(runqueue) : i # j /\ runqueue[i] = runqueue[j]
    BY <1>1, <1>2, <1>3, <1>4, FS_PigeonHole
  <2> QED BY <1>2, <2>1, Zenon DEF Inv, PlaceOK
<1> HIDE DEF others
<1> QED BY <1>1, <1>2, <1>4

\* A push of a thread that has no slot runs out of memory only if some thread has none.
LEMMA RunsOutForThread ==
    ASSUME Inv, NoServerPanic, NEW c \in CPUs, NEW t \in Threads, ~Queued(t), RunOut(c)
    PROVE  QueueCap < Cardinality(Threads)
<1>1. CASE ~QueueUnlocked
  BY <1>1, Zenon DEF QueueUnlocked, NoServerPanic
<1>2. CASE Len(runqueue) >= QueueCap
  <2>1. Len(runqueue) < Cardinality(Threads)
    BY RoomInQueue, Zenon
  <2>2. Len(runqueue) \in Nat /\ Cardinality(Threads) \in Nat /\ QueueCap \in Nat
    BY LxAssumption, FS_CardinalityType DEF Inv, Types
  <2> QED BY <1>2, <2>1, <2>2
<1> QED BY <1>1, <1>2, Zenon DEF RunOut, MayRunOut

\* NoServerPanic: get_context, set_context and unblock find the thread blocked, so the
\* expect()s of Handler::syscall hold, whatever the other threads and handlers do; and the
\* kernel runs out of memory below them only if the run queue has no slot for some thread.
THEOREM HandlersNeverPanic == Spec => []NoServerPanic
<1>1. Init => NoServerPanic
  BY Zenon DEF Init, NoServerPanic
<1>2. Inv /\ Inv' /\ NoServerPanic /\ [Next]_vars => NoServerPanic'
  <2> SUFFICES ASSUME Inv, Inv', NoServerPanic, [Next]_vars, NEW d \in CPUs, pc'[d] = "oom"
               PROVE  QueueCap < Cardinality(Threads)
    BY Zenon DEF NoServerPanic, Inv, PlaceOK
  <2>1. CASE pc[d] = "oom"
    BY <2>1, Zenon DEF NoServerPanic
  <2>2. ASSUME NEW c \in CPUs, Interrupt(c), pc[d] # "oom" PROVE QueueCap < Cardinality(Threads)
    <3>1. current[c] \in Threads /\ ~Queued(current[c])
      BY <2>2, Zenon DEF Interrupt, Inv, PlaceOK, RunsOn, BusyPcs
    <3>2. RunOut(c)
      BY <2>2, Zenon DEF Interrupt, Goto, Inv, Types
    <3> QED BY <3>1, <3>2, RunsOutForThread, Zenon
  <2>3. ASSUME NEW c \in CPUs, Unblock(c), pc[d] # "oom" PROVE QueueCap < Cardinality(Threads)
    <3>1. current[c] \in Threads /\ Serves(c, current[c])
      BY <2>3, Zenon DEF Unblock, Inv, PlaceOK, Serves, ServingPcs, BusyPcs
    <3>2. ~Queued(current[c])
      BY <3>1 DEF Inv, PlaceOK
    <3>3. RunOut(c)
      BY <2>3, Zenon DEF Unblock, Goto, Inv, Types
    <3> QED BY <3>1, <3>2, <3>3, RunsOutForThread, Zenon
  <2>4. ASSUME NEW c \in CPUs, NEW t \in Threads, spawn(c, t), pc[d] # "oom"
        PROVE  QueueCap < Cardinality(Threads)
    <3>1. ~Queued(t)
      BY <2>4 DEF spawn, Inv, PlaceOK
    <3>2. RunOut(c)
      BY <2>4, Zenon DEF spawn
    <3> QED BY <3>1, <3>2, RunsOutForThread, Zenon
  <2>5. ASSUME NEW c \in CPUs, NEW l, l # "oom", pc' = [pc EXCEPT ![c] = l] \/ pc' = pc
        PROVE  pc[d] = "oom"
    BY <2>5, Zenon DEF Inv, Types
  <2>6. ASSUME NEW c \in CPUs,
               \/ Syscall(c) \/ WriteChunk(c) \/ WriteDone(c) \/ SetContext(c) \/ Return(c)
               \/ Schedule(c) \/ BootDone(c)
               \/ \E v \in Stamps : UserRun(c, v)
               \/ \E call \in Calls : SyscallEntry(c, call)
        PROVE  pc[d] = "oom"
    BY <2>5, <2>6, ZenonT(60) DEF Syscall, handle_syscall, sys_write, sys_writev, sys_arch_prctl,
       Done, Write, Goto, WriteChunk, WriteDone, SetContext, Return, Schedule, enter, BootDone,
       UserRun, SyscallEntry, AfterExit, AfterSetContext
  <2>7. CASE UNCHANGED vars
    BY <2>1, <2>7, Zenon DEF vars
  <2>8. CASE AllIdle
    BY <2>7, <2>8, Zenon DEF AllIdle
  <2> QED BY <2>1, <2>2, <2>3, <2>4, <2>6, <2>7, <2>8, Zenon DEF Next, HandlerStep
<1> QED BY <1>1, <1>2, Invariance, PTL DEF Spec

\* WriteExact: sys_write and sys_writev print the bytes their call names, in order and
\* each once, and all of them when they answer their number.
THEOREM WritesExactly == Spec => []WriteExact
<1>1. Inv => WriteExact
  <2>1. SUFFICES ASSUME Inv PROVE WriteExact
    OBVIOUS
  <2>2. TypeOK
    BY <2>1, Zenon DEF Inv, Types, TypeOK, Labels, Frames
  <2>3. ASSUME NEW t \in Threads
        PROVE  AllMapped(Vector(asked[t])) =>
                 /\ Len(printed[t]) <= Len(BytesOf(Vector(asked[t])))
                 /\ printed[t] = SubSeq(BytesOf(Vector(asked[t])), 1, Len(printed[t]))
                 /\ state[t] = "Runnable" /\ context[t]["rax"] = Sum(Vector(asked[t]))
                     => printed[t] = BytesOf(Vector(asked[t]))
    BY <2>1, Zenon DEF Inv, ValuesOK, ThreadOK, PrintedPrefix, PrintedAll
  <2> QED BY <2>2, <2>3, Zenon DEF WriteExact
<1> QED BY <1>1, Invariance, PTL

\* ResumeExact: a thread goes on with the registers it left user mode with, but for the
\* answer in rax and the fsbase it asked for.
THEOREM ResumesExactly == Spec => ResumeExact
<1> DEFINE Resumed(c, t) ==
        /\ \A r \in Registers \ {"rax", "fsbase"} : cpu'[c][r] = left[t][r]
        /\ IF asked[t] = NoCall THEN cpu'[c]["rax"] = left[t]["rax"]
                                ELSE cpu'[c]["rax"] \in Answers(asked[t])
        /\ cpu'[c]["fsbase"] = IF SetsFs(asked[t]) THEN asked[t].arg1
                                                   ELSE left[t]["fsbase"]
<1>1. ASSUME Inv, Next, NEW c \in CPUs, pc[c] = "schedule", pc'[c] = "user"
      PROVE  Resumed(c, current'[c])
  <2>1. Schedule(c)
    <3>1. ASSUME NEW d \in CPUs, d # c, pc' = [pc EXCEPT ![d] = pc'[d]] PROVE FALSE
      BY <1>1, <3>1 DEF Inv, Types
    <3>2. ASSUME NEW d \in CPUs,
                 \/ HandlerStep(d) \/ Interrupt(d) \/ BootDone(d)
                 \/ \E v \in Stamps : UserRun(d, v)
                 \/ \E call \in Calls : SyscallEntry(d, call)
                 \/ \E t \in Threads : spawn(d, t)
          PROVE  FALSE
      <4>1. pc[d] # "schedule" /\ \A e \in CPUs \ {d} : pc'[e] = pc[e]
        BY <1>1, <3>2, ZenonT(60) DEF HandlerStep, Syscall, handle_syscall, sys_write, sys_writev, sys_arch_prctl,
           Done, Write, Goto, Push, RunOut, WriteChunk, WriteDone, SetContext, Unblock, Return, Interrupt, BootDone,
           UserRun, SyscallEntry, spawn, Inv, Types
      <4> QED BY <1>1, <4>1, SMTT(60)
    <3>3. ASSUME NEW d \in CPUs, Schedule(d) PROVE d = c
      <4>1. pc[d] = "schedule" /\ \A e \in CPUs \ {d} : pc'[e] = pc[e]
        BY <1>1, <3>3 DEF Schedule, enter, Goto, Inv, Types
      <4> QED BY <1>1, <4>1, Zenon
    <3>4. ~AllIdle
      BY <1>1, Zenon DEF AllIdle, vars
    <3> QED BY <1>1, <3>2, <3>3, <3>4 DEF Next
  <2>2. runqueue # <<>>
    BY <1>1, <2>1, Zenon DEF Schedule, Goto, Inv, Types
  <2>3. PICK t : t = Head(runqueue)
    BY Zenon
  <2>4. cpu' = [cpu EXCEPT ![c] = context[t]] /\ current' = [current EXCEPT ![c] = t]
    BY <2>1, <2>2, <2>3, Zenon DEF Schedule, enter
  <2>5. cpu'[c] = context[t] /\ current'[c] = t
    BY <1>1, <2>4 DEF Inv, Types
  <2>6. t \in Threads /\ Queued(t)
    <3>1. runqueue \in Seq(Threads)
      BY <1>1, Zenon DEF Inv, Types
    <3> QED BY <2>2, <2>3, <3>1 DEF Queued
  <2>7. SameRegs(t) /\ RaxOK(t) /\ FsbaseOK(t)
    BY <1>1, <2>6, ZenonT(60) DEF Inv, PlaceOK, ValuesOK, ThreadOK
  <2> QED BY <2>5, <2>7 DEF SameRegs, RaxOK, FsbaseOK
<1>2. Inv /\ [Next]_vars =>
        [\A c \in CPUs : pc[c] = "schedule" /\ pc'[c] = "user" => Resumed(c, current'[c])]_vars
  BY <1>1, Zenon
<1> QED BY <1>2, Invariance, PTL DEF Spec, ResumeExact

===============================================================================
