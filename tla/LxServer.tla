------------------------------- MODULE LxServer -------------------------------
(***************************************************************************)
(* The lx server and the user threads it serves: how the registers of a    *)
(* thread travel between the CPUs, its saved context and the system call   *)
(* handlers.                                                               *)
(*   servers/lx/src/{process,syscall,errno}.rs                             *)
(*   kernel/src/arch/x64/{thread,syscall,idt}.rs                           *)
(*                                                                         *)
(* The thread and scheduler operations of the kernel are single steps      *)
(* here: KernelThread has their interleavings.  A handler's variables are  *)
(* on the kernel stack of the CPU it runs on: two handlers of one thread   *)
(* overlap when the first has unblocked the thread and not returned yet.   *)
(*                                                                         *)
(* Of the registers that every path treats alike only rbx is kept (for     *)
(* rbp, r8 to r10 and r12 to r15).  A byte of user memory is identified by *)
(* its address; user memory is one mapped range.                           *)
(***************************************************************************)
EXTENDS Integers, Sequences, FiniteSets

CONSTANTS
    CPUs, Bsp,        \* as in KernelThread
    Threads,          \* one per process
    NoThread,
    QueueCap,         \* slots of the run queue there is memory for; there may be more
    Calls,            \* the system calls made: records [n, arg0, arg1, arg2]
    Stamps,           \* what user code leaves in its registers
    MemStart, MemEnd, \* the mapped range of a process
    IovecsAt,         \* address |-> the iovecs a process keeps there
    ChunkLen,         \* size of sys_write's buffer
    MaxIovecs         \* size of sys_writev's array

SYS_WRITE == 1
SYS_WRITEV == 20
SYS_EXIT == 60
SYS_EXIT_GROUP == 231
SYS_ARCH_PRCTL == 158
SYS_SET_TID_ADDRESS == 218
ARCH_SET_FS == 4098
EBADF == 9
EFAULT == 14
EINVAL == 22
ENOSYS == 38

Iovec(b, n) == [iov_base |-> b, iov_len |-> n]

ASSUME LxAssumption ==
    /\ Bsp \in CPUs /\ NoThread \notin Threads
    /\ IsFiniteSet(Threads) /\ QueueCap \in Nat
    /\ Calls \subseteq [n : Nat, arg0 : Nat, arg1 : Nat, arg2 : Nat]
    /\ Stamps \subseteq Nat
    /\ MemStart \in Nat \ {0} /\ MemEnd \in Nat /\ MemStart <= MemEnd
    /\ ChunkLen \in Nat \ {0} /\ MaxIovecs \in Nat
    /\ \A a \in DOMAIN IovecsAt : IovecsAt[a] \in Seq([iov_base : Nat, iov_len : Nat])

VARIABLES
    state,     \* Thread.mutable.state, "Unborn" before Thread::new
    runqueue,  \* SCHEDULER.runqueue
    context,   \* Thread.arch: the saved registers
    cpu,       \* the registers of a CPU in user mode
    current,   \* the thread that runs on a CPU, or whose handler does
    pc,        \* where a CPU is
    frame,     \* the variables of the handler on a CPU
    left,      \* the registers with which a thread last left user mode
    asked,     \* the system call a thread made, NoCall after an interrupt
    printed    \* the bytes that call has handed to from_utf8 and info!, piece by piece

ghosts == <<left, asked, printed>>
vars == <<state, runqueue, context, cpu, current, pc, frame, ghosts>>

Registers == {"rip", "rsp", "rflags", "rax", "rbx", "rcx", "r11", "rdi", "rsi",
              "rdx", "fsbase"}
NoCall == [n |-> -1, arg0 |-> 0, arg1 |-> 0, arg2 |-> 0]

\* arch::Thread::new: all zero but cs, ss and rflags.
FreshContext == [[r \in Registers |-> 0] EXCEPT !["rflags"] = 514]

\* sys_write's buffer, and the locals of syscall(), sys_write() and sys_writev().
ZeroChunk == [k \in 0..(ChunkLen - 1) |-> 0]
NoFrame == [iovecs |-> <<>>, uaddr |-> 0, remaining |-> 0, chunk |-> ZeroChunk,
            total |-> 0, retval |-> 0]

Init ==
    /\ state = [t \in Threads |-> "Unborn"]
    /\ runqueue = <<>>
    /\ context = [t \in Threads |-> FreshContext]
    /\ cpu = [c \in CPUs |-> FreshContext]
    /\ current = [c \in CPUs |-> NoThread]
    /\ pc = [c \in CPUs |-> IF c = Bsp THEN "boot" ELSE "schedule"]
    /\ frame = [c \in CPUs |-> NoFrame]
    /\ left = [t \in Threads |-> FreshContext]
    /\ asked = [t \in Threads |-> NoCall]
    /\ printed = [t \in Threads |-> <<>>]

Goto(c, label) == pc' = [pc EXCEPT ![c] = label]

-------------------------------------------------------------------------------
(* kernel/src/arch/x64: saving and loading registers                          *)

\* write_context(kind, regs); `new` maps the registers of the kind to their values.
write_context(t, new) ==
    context' = [context EXCEPT ![t] =
                   [r \in Registers |-> IF r \in DOMAIN new THEN new[r] ELSE @[r]]]

SysretRegs(v) == [r \in {"rax"} |-> v]
FsbaseRegs(v) == [r \in {"fsbase"} |-> v]
InitRegs(v) == [r \in {"rip", "rsp"} |-> v]

\* read_context(SyscallArgs)
SyscallArgs(t) ==
    [n |-> context[t]["rax"], arg0 |-> context[t]["rdi"],
     arg1 |-> context[t]["rsi"], arg2 |-> context[t]["rdx"]]

\* What the SYSCALL instruction does to the registers.
SyscallInstruction(regs) == [regs EXCEPT !["rcx"] = regs["rip"], !["r11"] = regs["rflags"]]

\* syscall_handler: rip and rflags are taken from rcx and r11, fsbase is not saved.
\* Faulty variant: rdi is used as a scratch register before it is saved.
SaveOnSyscallRdi(old, regs) ==
    [r \in Registers |-> CASE r = "rip" -> regs["rcx"]
                           [] r = "rflags" -> regs["r11"]
                           [] r = "fsbase" -> old["fsbase"]
                           [] r = "rdi" -> regs["rax"]
                           [] OTHER -> regs[r]]
SaveOnSyscall(old, regs) ==
    [r \in Registers |-> CASE r = "rip" -> regs["rcx"]
                           [] r = "rflags" -> regs["r11"]
                           [] r = "fsbase" -> old["fsbase"]
                           [] OTHER -> regs[r]]

\* interrupt_entry: rip, rflags and rsp come from the frame the CPU pushed.
\* Faulty variant: it is taken for a SYSCALL.
SaveOnInterruptAsSyscall(old, regs) == SaveOnSyscall(old, regs)
SaveOnInterrupt(old, regs) ==
    [r \in Registers |-> IF r = "fsbase" THEN old["fsbase"] ELSE regs[r]]

-------------------------------------------------------------------------------
(* User code and the entries into the kernel                                  *)

\* User code of the thread on c runs; it does not change its fsbase by itself.
UserRun(c, v) ==
    /\ pc[c] = "user"
    /\ cpu' = [cpu EXCEPT ![c] = [r \in Registers |-> IF r = "fsbase" THEN @[r] ELSE v]]
    /\ UNCHANGED <<state, runqueue, context, current, pc, frame, ghosts>>

WithArgs(regs, call) ==
    [regs EXCEPT !["rax"] = call.n, !["rdi"] = call.arg0, !["rsi"] = call.arg1,
                 !["rdx"] = call.arg2]

\* The SYSCALL instruction, syscall_handler, and handle_syscall up to the upcall.  (No
\* other thread terminates this one, so handle_syscall does not return early.)
SyscallEntry(c, call) ==
    LET t == current[c]
        regs == SyscallInstruction(WithArgs(cpu[c], call))
    IN
    /\ pc[c] = "user"
    /\ context' = [context EXCEPT ![t] = SaveOnSyscall(@, regs)]
    /\ state' = [state EXCEPT ![t] = "Blocked"]
    /\ Goto(c, "syscall")
    /\ cpu' = [cpu EXCEPT ![c] = FreshContext]
    /\ left' = [left EXCEPT ![t] = regs]
    /\ asked' = [asked EXCEPT ![t] = call]
    /\ printed' = [printed EXCEPT ![t] = <<>>]
    /\ UNCHANGED <<runqueue, current, frame>>

\* Scheduler::try_push and push_front.  A try_reserve that finds no memory panics in the
\* allocator and returns no error: the CPU stays at "oom" and keeps the queue's lock, and
\* a push that then waits for the lock does not return either.
QueueUnlocked == \A c \in CPUs : pc[c] # "oom"
MayRunOut == Len(runqueue) >= QueueCap \/ ~QueueUnlocked
Push(q) == QueueUnlocked /\ runqueue' = q
RunOut(c) == MayRunOut /\ Goto(c, "oom") /\ UNCHANGED runqueue

\* An interrupt or a page fault: interrupt_entry, then return_to_user puts the thread
\* back to the front of the run queue.
Interrupt(c) ==
    LET t == current[c] IN
    /\ pc[c] = "user"
    /\ context' = [context EXCEPT ![t] = SaveOnInterrupt(@, cpu[c])]
    /\ \/ /\ Push(<<t>> \o runqueue)
          /\ current' = [current EXCEPT ![c] = NoThread]
          /\ Goto(c, "schedule")
       \/ RunOut(c) /\ UNCHANGED current
    /\ cpu' = [cpu EXCEPT ![c] = FreshContext]
    /\ left' = [left EXCEPT ![t] = cpu[c]]
    /\ asked' = [asked EXCEPT ![t] = NoCall]
    /\ printed' = [printed EXCEPT ![t] = <<>>]
    /\ UNCHANGED <<state, frame>>

\* arch::Thread::enter loads every register.
enter(c, t) ==
    /\ cpu' = [cpu EXCEPT ![c] = context[t]]
    /\ current' = [current EXCEPT ![c] = t]
    /\ Goto(c, "user")

\* return_to_user's loop; an empty queue idles for good.
Schedule(c) ==
    /\ pc[c] = "schedule" /\ QueueUnlocked
    /\ \/ /\ runqueue = <<>>
          /\ Goto(c, "idle")
          /\ UNCHANGED <<runqueue, cpu, current>>
       \/ /\ runqueue # <<>>
          /\ runqueue' = Tail(runqueue)
          /\ enter(c, Head(runqueue))
    /\ UNCHANGED <<state, context, frame, ghosts>>

-------------------------------------------------------------------------------
(* ThreadContext: spawn and the syscall handler                               *)

\* ThreadContext::spawn in the server's main code: create, set_context, unblock.
spawn(c, t) ==
    /\ pc[c] = "boot" /\ state[t] = "Unborn"
    /\ \E v \in Stamps :
        /\ write_context(t, InitRegs(v))
        /\ left' = [left EXCEPT ![t]["rip"] = v, ![t]["rsp"] = v]
    /\ \/ /\ Push(Append(runqueue, t))
          /\ state' = [state EXCEPT ![t] = "Runnable"]
          /\ UNCHANGED pc
       \/ RunOut(c) /\ state' = [state EXCEPT ![t] = "Blocked"]
    /\ UNCHANGED <<cpu, current, frame, asked, printed>>

BootDone(c) ==
    /\ pc[c] = "boot"
    /\ Goto(c, "schedule")
    /\ UNCHANGED <<state, runqueue, context, cpu, current, frame, ghosts>>

\* handle_syscall() is done with the value v.
Done(c, v) ==
    /\ frame' = [frame EXCEPT ![c] = [NoFrame EXCEPT !.retval = v]]
    /\ Goto(c, "set_context")

\* sys_write is entered for the iovecs, one after the other.
Write(c, iovecs, total) ==
    /\ frame' = [frame EXCEPT ![c] = [NoFrame EXCEPT
           !.iovecs = iovecs, !.total = total,
           !.uaddr = Head(iovecs).iov_base, !.remaining = Head(iovecs).iov_len]]
    /\ Goto(c, "write")

BadFd(fd) == fd # 1 /\ fd # 2

\* The array that sys_writev reads from user memory; what is not there stays zero.
Iovecs(a, n) ==
    [k \in 1..n |-> IF k <= Len(IovecsAt[a]) THEN IovecsAt[a][k] ELSE Iovec(0, 0)]

sys_write(c, args) ==
    \/ BadFd(args.arg0) /\ Done(c, -EBADF)
    \/ ~BadFd(args.arg0) /\ Write(c, <<Iovec(args.arg1, args.arg2)>>, 0)

sys_writev(c, args) ==
    \/ BadFd(args.arg0) /\ Done(c, -EBADF)
    \/ ~BadFd(args.arg0) /\ args.arg2 > MaxIovecs /\ Done(c, -EINVAL)
    \/ ~BadFd(args.arg0) /\ args.arg2 = 0 /\ Done(c, 0)
    \/ /\ ~BadFd(args.arg0) /\ args.arg2 \in 1..MaxIovecs
       /\ \/ args.arg1 \notin DOMAIN IovecsAt /\ Done(c, -EFAULT)
          \/ args.arg1 \in DOMAIN IovecsAt /\ Write(c, Iovecs(args.arg1, args.arg2), 0)

sys_arch_prctl(c, t, args) ==
    \/ args.arg0 = ARCH_SET_FS /\ write_context(t, FsbaseRegs(args.arg1)) /\ Done(c, 0)
    \/ args.arg0 # ARCH_SET_FS /\ Done(c, -ENOSYS) /\ UNCHANGED context

\* What follows terminate.  Faulty variant: the exit is answered like other calls.
AnswerExit == "set_context"
AfterExit == "return"

\* handle_syscall().  terminate() leaves the Terminated upcall to the return of this
\* handler.  The thread is still as get_context found it, blocked, so that terminate()
\* and arch_prctl's set_context succeed.
handle_syscall(c, t, args) ==
    \/ /\ args.n \in {SYS_EXIT, SYS_EXIT_GROUP}
       /\ state' = [state EXCEPT ![t] = "Terminated"]
       /\ Goto(c, AfterExit)
       /\ UNCHANGED <<context, frame>>
    \/ args.n = SYS_WRITE /\ sys_write(c, args) /\ UNCHANGED <<context, state>>
    \/ args.n = SYS_WRITEV /\ sys_writev(c, args) /\ UNCHANGED <<context, state>>
    \/ args.n = SYS_ARCH_PRCTL /\ sys_arch_prctl(c, t, args) /\ UNCHANGED state
    \/ args.n = SYS_SET_TID_ADDRESS /\ Done(c, 1000) /\ UNCHANGED <<context, state>>
    \/ /\ args.n \notin {SYS_EXIT, SYS_EXIT_GROUP, SYS_WRITE, SYS_WRITEV,
                         SYS_ARCH_PRCTL, SYS_SET_TID_ADDRESS}
       /\ Done(c, -ENOSYS)
       /\ UNCHANGED <<context, state>>

\* Handler::syscall up to the result: get_context and its expect(), handle_syscall.
Syscall(c) ==
    LET t == current[c] IN
    /\ pc[c] = "syscall"
    /\ IF state[t] = "Blocked"
       THEN handle_syscall(c, t, SyscallArgs(t))
       ELSE Goto(c, "panic") /\ UNCHANGED <<state, context, frame>>
    /\ UNCHANGED <<runqueue, cpu, current, ghosts>>

\* VmSpace::read_bytes: how many bytes of n it copies from u; it reports no error when
\* the mapped memory ends behind u.
Readable(u) == MemStart <= u /\ u < MemEnd
Filled(u, n) == IF n <= MemEnd - u THEN n ELSE MemEnd - u

\* The buffer after read_bytes: what is not copied keeps its old contents.
ReadInto(chunk, u, n) ==
    [k \in DOMAIN chunk |-> IF k < Filled(u, n) THEN u + k ELSE chunk[k]]

\* The length of the next piece.  Faulty variant: always the whole buffer.
PieceWhole(remaining) == ChunkLen
Piece(remaining) == IF remaining < ChunkLen THEN remaining ELSE ChunkLen

\* One iteration of sys_write's loop.
WriteChunk(c) ==
    LET f == frame[c]
        n == Piece(f.remaining)
        chunk == ReadInto(f.chunk, f.uaddr, n)
        t == current[c]
    IN
    /\ pc[c] = "write" /\ f.remaining > 0
    /\ \/ /\ ~Readable(f.uaddr)
          /\ Done(c, -EFAULT)
          /\ UNCHANGED printed
       \/ /\ Readable(f.uaddr)
          /\ frame' = [frame EXCEPT ![c].chunk = chunk, ![c].uaddr = @ + n,
                                    ![c].remaining = @ - n]
          /\ printed' = [printed EXCEPT ![t] = @ \o [k \in 1..n |-> chunk[k - 1]]]
          /\ UNCHANGED pc
    /\ UNCHANGED <<state, runqueue, context, cpu, current, left, asked>>

\* sys_write returns count; sys_writev adds it up and goes on to the next iovec.
TotalAfter(f) == f.total + Head(f.iovecs).iov_len

WriteDone(c) ==
    LET f == frame[c] IN
    /\ pc[c] = "write" /\ f.remaining = 0
    /\ \/ Len(f.iovecs) = 1 /\ Done(c, TotalAfter(f))
       \/ Len(f.iovecs) > 1 /\ Write(c, Tail(f.iovecs), TotalAfter(f))
    /\ UNCHANGED <<state, runqueue, context, cpu, current, ghosts>>

\* What follows set_context.  Faulty variant: unblock is forgotten.
ForgetUnblock == "return"
AfterSetContext == "unblock"

\* set_context(Sysret) and its expect().
SetContext(c) ==
    LET t == current[c] IN
    /\ pc[c] = "set_context"
    /\ IF state[t] = "Blocked"
       THEN write_context(t, SysretRegs(frame[c].retval)) /\ Goto(c, AfterSetContext)
       ELSE UNCHANGED context /\ Goto(c, "panic")
    /\ UNCHANGED <<state, runqueue, cpu, current, frame, ghosts>>

\* unblock() and its expect(), which a push that runs out of memory does not come to.
Unblock(c) ==
    LET t == current[c] IN
    /\ pc[c] = "unblock"
    /\ \/ /\ state[t] = "Blocked" /\ Push(Append(runqueue, t))
          /\ state' = [state EXCEPT ![t] = "Runnable"]
          /\ Goto(c, "return")
       \/ state[t] = "Blocked" /\ RunOut(c) /\ UNCHANGED state
       \/ state[t] # "Blocked" /\ Goto(c, "panic") /\ UNCHANGED <<state, runqueue>>
    /\ UNCHANGED <<context, cpu, current, frame, ghosts>>

\* The handler returns; handle_syscall drops the thread and schedules.
Return(c) ==
    /\ pc[c] = "return"
    /\ current' = [current EXCEPT ![c] = NoThread]
    /\ frame' = [frame EXCEPT ![c] = NoFrame]
    /\ Goto(c, "schedule")
    /\ UNCHANGED <<state, runqueue, context, cpu, ghosts>>

HandlerStep(c) ==
    Syscall(c) \/ WriteChunk(c) \/ WriteDone(c) \/ SetContext(c) \/ Unblock(c) \/ Return(c)

\* Every CPU is idle, has stopped or waits for the run queue: nothing happens any more.
AllIdle ==
    /\ \A c \in CPUs :
        pc[c] \in {"idle", "panic", "oom"} \/ (pc[c] = "schedule" /\ ~QueueUnlocked)
    /\ UNCHANGED vars

Next ==
    \/ \E c \in CPUs :
        \/ HandlerStep(c) \/ Schedule(c) \/ Interrupt(c) \/ BootDone(c)
        \/ \E v \in Stamps : UserRun(c, v)
        \/ \E call \in Calls : SyscallEntry(c, call)
        \/ \E t \in Threads : spawn(c, t)
    \/ AllIdle

Spec == Init /\ [][Next]_vars

\* Kernel and handler code goes on.
FairSpec == Spec /\ \A c \in CPUs : WF_vars(HandlerStep(c))

-------------------------------------------------------------------------------
(* Properties                                                                 *)

\* Every variable keeps its type.
TypeOK ==
    /\ state \in [Threads -> {"Unborn", "Blocked", "Runnable", "Terminated"}]
    /\ runqueue \in Seq(Threads)
    /\ context \in [Threads -> [Registers -> Int]]
    /\ cpu \in [CPUs -> [Registers -> Int]]
    /\ current \in [CPUs -> Threads \cup {NoThread}]
    /\ pc \in [CPUs -> {"boot", "user", "syscall", "write", "set_context", "unblock",
                        "return", "schedule", "idle", "panic", "oom"}]
    /\ \A c \in CPUs : frame[c].remaining \in Nat /\ frame[c].uaddr \in Nat

\* The memory a call names, piece after piece, and what Linux answers to it.
Extent(v) == v.iov_base..(v.iov_base + v.iov_len - 1)
Mapped(v) == Extent(v) \subseteq MemStart..(MemEnd - 1)
Vector(call) ==
    CASE call.n = SYS_WRITE -> <<Iovec(call.arg1, call.arg2)>>
      [] call.n = SYS_WRITEV /\ call.arg1 \in DOMAIN IovecsAt -> Iovecs(call.arg1, call.arg2)
      [] OTHER -> <<>>
SumUpTo(s) ==
    LET upTo[k \in 0..Len(s)] == IF k = 0 THEN 0 ELSE upTo[k - 1] + s[k].iov_len
    IN  upTo
BytesUpTo(s) ==
    LET upTo[k \in 0..Len(s)] ==
            IF k = 0 THEN <<>>
            ELSE upTo[k - 1] \o [m \in 1..s[k].iov_len |-> s[k].iov_base + (m - 1)]
    IN  upTo
Sum(s) == SumUpTo(s)[Len(s)]
BytesOf(s) == BytesUpTo(s)[Len(s)]
AllMapped(s) == \A k \in DOMAIN s : Mapped(s[k])

WriteAnswers(call) ==
    IF call.arg0 \notin {1, 2} THEN {-EBADF}
    ELSE IF call.n = SYS_WRITEV /\ call.arg2 > MaxIovecs THEN {-EINVAL}
    ELSE IF call.n = SYS_WRITEV /\ call.arg2 > 0 /\ Vector(call) = <<>> THEN {-EFAULT}
    ELSE {Sum(Vector(call))} \cup (IF AllMapped(Vector(call)) THEN {} ELSE {-EFAULT})

SetsFs(call) == call.n = SYS_ARCH_PRCTL /\ call.arg0 = ARCH_SET_FS

Answers(call) ==
    CASE call.n \in {SYS_WRITE, SYS_WRITEV} -> WriteAnswers(call)
      [] SetsFs(call) -> {0}
      [] call.n = SYS_SET_TID_ADDRESS -> {1000}
      [] OTHER -> {-ENOSYS}

\* A thread goes on, on whichever CPU, with exactly the registers it left user mode
\* with; after a system call rax holds an answer to the call it made, and fsbase what
\* arch_prctl set.  (syscall_handler and interrupt_entry save, the handler answers,
\* Thread::enter loads.)
ResumeExact ==
    [][\A c \in CPUs : pc[c] = "schedule" /\ pc'[c] = "user" =>
        LET t == current'[c] IN
        /\ \A r \in Registers \ {"rax", "fsbase"} : cpu'[c][r] = left[t][r]
        /\ IF asked[t] = NoCall THEN cpu'[c]["rax"] = left[t]["rax"]
                                ELSE cpu'[c]["rax"] \in Answers(asked[t])
        /\ cpu'[c]["fsbase"] = IF SetsFs(asked[t]) THEN asked[t].arg1
                                                   ELSE left[t]["fsbase"]]_vars

\* sys_write and sys_writev take the bytes to print from user memory in order and each
\* once, whatever the pieces they are read in; if all of them are mapped and the call is
\* over, all of them.  (How a piece is shown, from_utf8 and trim_ascii_end, is left out.)
WriteExact ==
    TypeOK /\ \A t \in Threads :
        LET bytes == BytesOf(Vector(asked[t])) IN
        AllMapped(Vector(asked[t])) =>
            /\ Len(printed[t]) <= Len(bytes)
            /\ printed[t] = SubSeq(bytes, 1, Len(printed[t]))
            /\ state[t] = "Runnable" /\ context[t]["rax"] = Sum(Vector(asked[t]))
                => printed[t] = bytes

\* The expect()s of the handler hold: the thread stays blocked until it is answered,
\* although other threads and their handlers run meanwhile.  And no push of a thread runs
\* out of memory below them when there is a slot for every thread: Interrupt, unblock and
\* spawn never queue a thread that has a slot already.
NoServerPanic ==
    \A c \in CPUs :
        /\ pc[c] # "panic"
        /\ pc[c] = "oom" => QueueCap < Cardinality(Threads)

\* Every system call is answered or ends the thread: a handler never leaves its thread
\* blocked, as long as the memory for the run queue has not run out.
SyscallAnswered ==
    \A t \in Threads :
        state[t] = "Blocked" ~> state[t] # "Blocked" \/ \E c \in CPUs : pc[c] = "oom"
===============================================================================
