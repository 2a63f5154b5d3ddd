----------------------------- MODULE KernelThread -----------------------------
(***************************************************************************)
(* Threads, the scheduler and upcalls of the kernel:                       *)
(*   kernel/src/{thread,scheduler,syscall,shared_ref,cpuvar,boot,server}.rs *)
(*   libs/rust/ftl_api/src/{thread,upcall}.rs                              *)
(*                                                                         *)
(* Every CPU runs one activity, named by pc[c]:                            *)
(*   "user"      user code of current_thread[c]; interrupts are enabled    *)
(*   "boot"      server main code, called from boot() on the BSP           *)
(*   "handler"   server code, in the syscall upcall of thread me[c]        *)
(*   "halted"    arch::idle(), a todo!() that never returns                *)
(*   "exception" handle_interrupt panicked on an unhandled exception       *)
(*   "panic"     handle_syscall's assert failed                            *)
(*   "push_front_oom", "unblock_oom"  the push to the run queue does not   *)
(*               return: the allocator under try_reserve panicked, or      *)
(*               another CPU on which it did keeps the queue's lock        *)
(* and the other values are points inside the kernel, where interrupts are *)
(* disabled.  A step is a critical section of Thread::mutable, or an       *)
(* operation on the run queue, or CPU-local work with atomic updates of    *)
(* reference counts.  Two critical sections are split because other CPUs   *)
(* act meanwhile on what they do not protect: unblock (it pushes to the    *)
(* run queue before it sets the state) and read/write_context (they access *)
(* the register file).                                                     *)
(***************************************************************************)
EXTENDS Integers, Sequences, FiniteSets

CONSTANTS
    CPUs,      \* the CPUs that run the kernel
    Bsp,       \* the CPU that boots and loads the servers
    Threads,   \* the Thread objects that may ever be created
    Faulty,    \* threads whose code can raise an exception other than #PF
    Peers,     \* Peers[t]: the threads that the handler of t may address
    QueueCap,  \* run queue entries for which the allocator finds memory
    NoThread,  \* CurrentThread's null pointer, an empty local variable
    NoCpu      \* the spin lock is free

ASSUME ConstantsAssumption ==
    /\ IsFiniteSet(CPUs) /\ Bsp \in CPUs /\ NoCpu \notin CPUs
    /\ IsFiniteSet(Threads) /\ NoThread \notin Threads
    /\ Faulty \subseteq Threads
    /\ Peers \in [Threads -> SUBSET Threads]
    /\ QueueCap \in Nat

VARIABLES
    state,          \* Mutable.state, "Unborn" before Thread::new
    in_upcalls,     \* Mutable.in_upcalls
    mutable,        \* the CPU holding Thread::mutable across steps, or NoCpu
    refs,           \* RefCounted<Thread>::counter; 0 once freed
    user_data,      \* the UserData box of the thread's upcall
    arcs,           \* who holds an Arc<ftl_api::thread::Thread>
    runqueue,       \* Scheduler.runqueue
    current_thread, \* CpuVar.current_thread
    me,             \* the SharedRef<Thread> the CPU's control path holds:
                    \* `current` of handle_syscall and return_to_user, `thread`
                    \* and `next` of return_to_user
    arg,            \* the SharedRef<Thread> a supercall in progress holds
    pc

threadVars == <<state, in_upcalls, mutable>>
objectVars == <<refs, user_data, arcs>>
cpuVars == <<current_thread, me, arg>>
vars == <<threadVars, objectVars, runqueue, cpuVars, pc>>

ThreadStates == {"Unborn", "Runnable", "Blocked", "Terminated"}
UserDataStates == {"none", "uninit", "init", "freed"}
ArcHolders == {"ctx", "server"}
ServerPcs == {"boot", "handler"}
OomPcs == {"push_front_oom", "unblock_oom"}
StoppedPcs == {"halted", "exception", "panic"} \cup OomPcs
Labels == ServerPcs \cup StoppedPcs \cup
    {"user", "sys_block", "sys_unpin", "sys_reclaim", "sys_drop",
     "resched", "requeue", "push_front", "pick", "check", "enter",
     "create", "unblock", "unblock_set", "terminate", "reclaim",
     "context", "context_access"}

\* The types of Mutable, RefCounted, Scheduler and CpuVar; in_upcalls is a usize that
\* handle_syscall counts down.
TypeOK ==
    /\ state \in [Threads -> ThreadStates]
    /\ in_upcalls \in [Threads -> Nat]
    /\ mutable \in [Threads -> CPUs \cup {NoCpu}]
    /\ refs \in [Threads -> Int]
    /\ user_data \in [Threads -> UserDataStates]
    /\ arcs \in [Threads -> SUBSET ArcHolders]
    /\ runqueue \in Seq(Threads)
    /\ current_thread \in [CPUs -> Threads \cup {NoThread}]
    /\ me \in [CPUs -> Threads \cup {NoThread}]
    /\ arg \in [CPUs -> Threads \cup {NoThread}]
    /\ pc \in [CPUs -> Labels]

-------------------------------------------------------------------------------
(* boot(): the BSP runs the servers' main code and then return_to_user.  A    *)
(* further CPU would enter the scheduler with no current thread (cpuvar.rs    *)
(* has a todo!() there: only the BSP starts today).                           *)
Init ==
    /\ state = [t \in Threads |-> "Unborn"]
    /\ in_upcalls = [t \in Threads |-> 0]
    /\ mutable = [t \in Threads |-> NoCpu]
    /\ refs = [t \in Threads |-> 0]
    /\ user_data = [t \in Threads |-> "none"]
    /\ arcs = [t \in Threads |-> {}]
    /\ runqueue = <<>>
    /\ current_thread = [c \in CPUs |-> NoThread]
    /\ me = [c \in CPUs |-> NoThread]
    /\ arg = [c \in CPUs |-> NoThread]
    /\ pc = [c \in CPUs |-> IF c = Bsp THEN "boot" ELSE "resched"]

At(c, label) == pc[c] = label
Goto(c, label) == pc' = [pc EXCEPT ![c] = label]

\* SharedRef::clone and SharedRef::drop, on the counters r; a null CurrentThread
\* holds no reference.
Clone(r, t) == [r EXCEPT ![t] = @ + 1]
Drop(r, t) == IF t = NoThread THEN r ELSE [r EXCEPT ![t] = @ - 1]

\* An Arc<ftl_api Thread> held by h is dropped; the last one runs
\* Thread::drop, whose thread_destroy releases the handle's reference.
DropArc(r, t, h) == IF arcs[t] = {h} THEN Drop(r, t) ELSE r

\* SpinLock::lock() can return.
LockFree(t) == mutable[t] = NoCpu

\* Thread::is_runnable takes the lock ("TODO: Avoid locking the spin lock").
\* Faulty variant: the TODO done with a plain read.
CanReadStateUnlocked(t) == TRUE
CanReadState(t) == LockFree(t)

\* Faulty variant: only a blocked thread is refused.
is_not_blocked(t) == state[t] # "Blocked"
is_runnable(t) == state[t] = "Runnable"

\* VecDeque::try_reserve(1) succeeds.  It never returns the error its callers
\* handle: GlobalAllocator::alloc panics when memory is out, with the queue's
\* lock held.
CanReserve == Len(runqueue) < QueueCap

\* The lock of the run queue can be taken.
QueueUnlocked == \A c \in CPUs : pc[c] \notin OomPcs

\* Scheduler::push_front, push_back and pop, once memory is reserved.
push_front(t) == <<t>> \o runqueue
\* Faulty variant: an unblocked thread overtakes the waiting ones.
push_back_first(t) == <<t>> \o runqueue
push_back(t) == Append(runqueue, t)

\* CurrentThread::update and clear release the reference of the old thread.
\* Faulty variant: they forget it.
ForgetCurrent(c) == refs
ReleaseCurrent(c) == Drop(refs, current_thread[c])

-------------------------------------------------------------------------------
(* System calls: syscall.rs handle_syscall() around Thread::handle_syscall.   *)

\* Faulty variant of SyscallEntry: CurrentThread is not cleared.
SyscallEntryNoClear(c) ==
    /\ At(c, "user")
    /\ me' = [me EXCEPT ![c] = current_thread[c]]
    /\ refs' = Clone(refs, current_thread[c])
    /\ Goto(c, "sys_block")
    /\ UNCHANGED <<threadVars, user_data, arcs, runqueue, current_thread, arg>>

\* The SYSCALL instruction: registers are saved into the current thread, the
\* reference of CurrentThread moves to the local `current`.
SyscallEntry(c) ==
    /\ At(c, "user")
    /\ me' = [me EXCEPT ![c] = current_thread[c]]
    /\ current_thread' = [current_thread EXCEPT ![c] = NoThread]
    /\ Goto(c, "sys_block")
    /\ UNCHANGED <<threadVars, objectVars, runqueue, arg>>

\* handle_syscall returns early for a thread that was terminated meanwhile.
\* Faulty variant: it does not.
NeverIgnored(t) == FALSE
SyscallIgnored(t) == state[t] = "Terminated"

\* The thread is referenced by one more upcall.  Faulty variant: not counted.
NotPinned(t) == in_upcalls
Pinned(t) == [in_upcalls EXCEPT ![t] = @ + 1]

\* handle_syscall, first critical section.
SyscallBlock(c) ==
    LET t == me[c] IN
    /\ At(c, "sys_block")
    /\ LockFree(t)
    /\ \/ /\ SyscallIgnored(t)
          /\ Goto(c, "sys_drop")
          /\ UNCHANGED threadVars
       \/ /\ ~SyscallIgnored(t) /\ state[t] # "Runnable"  \* assert_eq! fails
          /\ mutable' = [mutable EXCEPT ![t] = c]
          /\ Goto(c, "panic")
          /\ UNCHANGED <<state, in_upcalls>>
       \/ /\ ~SyscallIgnored(t) /\ state[t] = "Runnable"
          /\ state' = [state EXCEPT ![t] = "Blocked"]
          /\ in_upcalls' = Pinned(t)
          /\ Goto(c, "handler")
          /\ UNCHANGED mutable
    /\ UNCHANGED <<objectVars, runqueue, cpuVars>>

\* The server's syscall handler returns from the upcall.
HandlerReturn(c) ==
    /\ At(c, "handler")
    /\ Goto(c, "sys_unpin")
    /\ UNCHANGED <<threadVars, objectVars, runqueue, cpuVars>>

\* handle_syscall makes the Terminated upcall that terminate() left to it: n
\* upcalls are still in flight.  Faulty variant: it does not look.
NeverLeftToUs(t, n) == FALSE
TerminateNow(t, n) == n = 0 /\ state[t] = "Terminated"

\* handle_syscall, second critical section.
SyscallUnpin(c) ==
    LET t == me[c] IN
    /\ At(c, "sys_unpin")
    /\ LockFree(t)
    /\ in_upcalls' = [in_upcalls EXCEPT ![t] = @ - 1]
    /\ Goto(c, IF TerminateNow(t, in_upcalls'[t])
               THEN "sys_reclaim" ELSE "sys_drop")
    /\ UNCHANGED <<state, mutable, objectVars, runqueue, cpuVars>>

\* The Terminated upcall of t: upcall_entry reclaims the UserData box, calls
\* Handler::terminated (which does nothing in the lx server) and drops the box
\* contents with the Arc in it.  r is the counters the caller goes on with.
TerminatedUpcall(t, r) ==
    /\ user_data' = [user_data EXCEPT ![t] = "freed"]
    /\ arcs' = [arcs EXCEPT ![t] = @ \ {"ctx"}]
    /\ refs' = DropArc(r, t, "ctx")

SyscallReclaim(c) ==
    /\ At(c, "sys_reclaim")
    /\ TerminatedUpcall(me[c], refs)
    /\ Goto(c, "sys_drop")
    /\ UNCHANGED <<threadVars, runqueue, cpuVars>>

\* drop(current), then return_to_user().
SyscallDrop(c) ==
    /\ At(c, "sys_drop")
    /\ refs' = Drop(refs, me[c])
    /\ me' = [me EXCEPT ![c] = NoThread]
    /\ Goto(c, "resched")
    /\ UNCHANGED <<threadVars, user_data, arcs, runqueue, current_thread, arg>>

-------------------------------------------------------------------------------
(* Interrupts and return_to_user().                                           *)

\* handle_interrupt on #PF, the timer or another IRQ.
Interrupt(c) ==
    /\ At(c, "user")
    /\ Goto(c, "resched")
    /\ UNCHANGED <<threadVars, objectVars, runqueue, cpuVars>>

\* handle_interrupt on any other exception: panic!(), which loops forever.
UnhandledException(c) ==
    /\ At(c, "user")
    /\ current_thread[c] \in Faulty
    /\ Goto(c, "exception")
    /\ UNCHANGED <<threadVars, objectVars, runqueue, cpuVars>>

\* `if let Some(current) = current.thread()`.
ReturnToUser(c) ==
    /\ At(c, "resched")
    /\ \/ /\ current_thread[c] = NoThread
          /\ Goto(c, "pick")
          /\ UNCHANGED <<refs, me>>
       \/ /\ current_thread[c] # NoThread
          /\ me' = [me EXCEPT ![c] = current_thread[c]]
          /\ refs' = Clone(refs, current_thread[c])
          /\ Goto(c, "requeue")
    /\ UNCHANGED <<threadVars, user_data, arcs, runqueue, current_thread, arg>>

\* `&& current.is_runnable()`.
Requeue(c) ==
    /\ At(c, "requeue")
    /\ CanReadState(me[c])
    /\ \/ /\ is_runnable(me[c])
          /\ Goto(c, "push_front")
          /\ UNCHANGED <<refs, me>>
       \/ /\ ~is_runnable(me[c])
          /\ refs' = Drop(refs, me[c])
          /\ me' = [me EXCEPT ![c] = NoThread]
          /\ Goto(c, "pick")
    /\ UNCHANGED <<threadVars, user_data, arcs, runqueue, current_thread, arg>>

\* Scheduler::push_front.  A full queue stays full once a CPU has stopped with
\* its lock, so that the second disjunct is also that of a CPU that waits for it.
PushFront(c) ==
    /\ At(c, "push_front")
    /\ \/ /\ CanReserve
          /\ runqueue' = push_front(me[c])
          /\ me' = [me EXCEPT ![c] = NoThread]
          /\ Goto(c, "pick")
       \/ /\ ~CanReserve
          /\ Goto(c, "push_front_oom")
          /\ UNCHANGED <<runqueue, me>>
    /\ UNCHANGED <<threadVars, objectVars, current_thread, arg>>

\* Scheduler::pop; an empty queue clears the current thread and idles.
Pick(c) ==
    /\ At(c, "pick")
    /\ QueueUnlocked
    /\ \/ /\ runqueue = <<>>
          /\ refs' = ReleaseCurrent(c)
          /\ current_thread' = [current_thread EXCEPT ![c] = NoThread]
          /\ Goto(c, "halted")
          /\ UNCHANGED <<runqueue, me>>
       \/ /\ runqueue # <<>>
          /\ me' = [me EXCEPT ![c] = Head(runqueue)]
          /\ runqueue' = Tail(runqueue)
          /\ Goto(c, "check")
          /\ UNCHANGED <<refs, current_thread>>
    /\ UNCHANGED <<threadVars, user_data, arcs, arg>>

\* `if thread.is_runnable() { break thread; }`, else `thread` is dropped.
Check(c) ==
    /\ At(c, "check")
    /\ CanReadState(me[c])
    /\ \/ /\ is_runnable(me[c])
          /\ Goto(c, "enter")
          /\ UNCHANGED <<refs, me>>
       \/ /\ ~is_runnable(me[c])
          /\ refs' = Drop(refs, me[c])
          /\ me' = [me EXCEPT ![c] = NoThread]
          /\ Goto(c, "pick")
    /\ UNCHANGED <<threadVars, user_data, arcs, runqueue, current_thread, arg>>

\* CurrentThread::enter: `next` becomes the current thread, the previous one
\* is released, and the registers are loaded from the thread.
Enter(c) ==
    /\ At(c, "enter")
    /\ current_thread' = [current_thread EXCEPT ![c] = me[c]]
    /\ refs' = ReleaseCurrent(c)
    /\ me' = [me EXCEPT ![c] = NoThread]
    /\ Goto(c, "user")
    /\ UNCHANGED <<threadVars, user_data, arcs, runqueue, arg>>

-------------------------------------------------------------------------------
(* Server code: boot-time main code and syscall handlers call the kernel      *)
(* through StartInfo.  A supercall on t clones t's reference from the handle  *)
(* (from_borrowed_handle) and drops it when it returns.                       *)

InServer(c) == pc[c] \in ServerPcs
ServerPc(c) == IF me[c] = NoThread THEN "boot" ELSE "handler"

\* Server code on c holds a `&ftl_api::Thread` for t: the Arc in its own
\* upcall's UserData, or an Arc the server keeps.
CanAddress(c, t) ==
    \/ me[c] = t
    \/ /\ "server" \in arcs[t]
       /\ me[c] # NoThread => t \in Peers[me[c]]

Supercall(c, t, label) ==
    /\ InServer(c)
    /\ CanAddress(c, t)
    /\ refs' = Clone(refs, t)
    /\ arg' = [arg EXCEPT ![c] = t]
    /\ Goto(c, label)
    /\ UNCHANGED <<threadVars, user_data, arcs, runqueue, current_thread, me>>

\* The supercall returns to the server: its SharedRef is dropped from r.
SupercallReturn(c, r) ==
    /\ refs' = Drop(r, arg[c])
    /\ arg' = [arg EXCEPT ![c] = NoThread]
    /\ Goto(c, ServerPc(c))

\* return_to_user() at the end of boot().
BootDone(c) ==
    /\ At(c, "boot")
    /\ Goto(c, "resched")
    /\ UNCHANGED <<threadVars, objectVars, runqueue, cpuVars>>

\* Thread::create: Upcall::new allocates the UserData box uninitialised and
\* thread_create makes the kernel object, owned by the handle.
Create(c, t) ==
    /\ InServer(c)
    /\ state[t] = "Unborn"
    /\ state' = [state EXCEPT ![t] = "Blocked"]
    /\ refs' = [refs EXCEPT ![t] = 1]
    /\ user_data' = [user_data EXCEPT ![t] = "uninit"]
    /\ arg' = [arg EXCEPT ![c] = t]
    /\ Goto(c, "create")
    /\ UNCHANGED <<in_upcalls, mutable, arcs, runqueue, current_thread, me>>

\* Upcall::new fills the box in and hands out the Arc.
CreateFill(c) ==
    /\ At(c, "create")
    /\ user_data' = [user_data EXCEPT ![arg[c]] = "init"]
    /\ arcs' = [arcs EXCEPT ![arg[c]] = {"ctx", "server"}]
    /\ arg' = [arg EXCEPT ![c] = NoThread]
    /\ Goto(c, ServerPc(c))
    /\ UNCHANGED <<threadVars, refs, runqueue, current_thread, me>>

\* The server drops its Arc; nobody is inside a call through it.
ServerDropArc(c, t) ==
    /\ InServer(c)
    /\ "server" \in arcs[t]
    /\ \A d \in CPUs : arg[d] = t => me[d] = t
    /\ arcs' = [arcs EXCEPT ![t] = @ \ {"server"}]
    /\ refs' = DropArc(refs, t, "server")
    /\ UNCHANGED <<threadVars, user_data, runqueue, cpuVars, pc>>

\* Faulty variant of Unblock: the state is not looked at.
UnblockUnchecked(c) ==
    LET t == arg[c] IN
    /\ At(c, "unblock")
    /\ LockFree(t)
    /\ mutable' = [mutable EXCEPT ![t] = c]
    /\ refs' = Clone(refs, t)
    /\ runqueue' = IF CanReserve THEN push_back(t) ELSE runqueue
    /\ Goto(c, IF CanReserve THEN "unblock_set" ELSE "unblock_oom")
    /\ UNCHANGED <<state, in_upcalls, user_data, arcs, cpuVars>>

\* Thread::unblock up to the push: the queue gets its reference before the
\* state changes, under the thread's lock.  A push that does not return keeps
\* the lock and the clone.
Unblock(c) ==
    LET t == arg[c] IN
    /\ At(c, "unblock")
    /\ LockFree(t)
    /\ \/ /\ state[t] # "Blocked"  \* INVALID_STATE
          /\ SupercallReturn(c, refs)
          /\ UNCHANGED <<mutable, runqueue>>
       \/ /\ state[t] = "Blocked"
          /\ mutable' = [mutable EXCEPT ![t] = c]
          /\ refs' = Clone(refs, t)
          /\ \/ /\ CanReserve
                /\ runqueue' = push_back(t)
                /\ Goto(c, "unblock_set")
             \/ /\ ~CanReserve
                /\ Goto(c, "unblock_oom")
                /\ UNCHANGED runqueue
          /\ UNCHANGED arg
    /\ UNCHANGED <<state, in_upcalls, user_data, arcs, current_thread, me>>

\* Thread::unblock, the rest.
UnblockSet(c) ==
    /\ At(c, "unblock_set")
    /\ state' = [state EXCEPT ![arg[c]] = "Runnable"]
    /\ mutable' = [mutable EXCEPT ![arg[c]] = NoCpu]
    /\ SupercallReturn(c, refs)
    /\ UNCHANGED <<in_upcalls, user_data, arcs, runqueue, current_thread, me>>

\* terminate() makes the upcall itself unless a handler is at work.
\* Faulty variant: it always does.
AlwaysSafe(t) == TRUE
SafeToTerminate(t) == in_upcalls[t] = 0

\* Thread::terminate's critical section.
Terminate(c) ==
    LET t == arg[c] IN
    /\ At(c, "terminate")
    /\ LockFree(t)
    /\ \/ /\ state[t] = "Terminated"  \* INVALID_STATE
          /\ SupercallReturn(c, refs)
          /\ UNCHANGED state
       \/ /\ state[t] # "Terminated"
          /\ state' = [state EXCEPT ![t] = "Terminated"]
          /\ \/ /\ SafeToTerminate(t)
                /\ Goto(c, "reclaim")
                /\ UNCHANGED <<refs, arg>>
             \/ /\ ~SafeToTerminate(t)
                /\ SupercallReturn(c, refs)
    /\ UNCHANGED <<in_upcalls, mutable, user_data, arcs, runqueue,
                   current_thread, me>>

\* Thread::terminate invokes the Terminated upcall itself and returns.
TerminateReclaim(c) ==
    /\ At(c, "reclaim")
    /\ TerminatedUpcall(arg[c], Drop(refs, arg[c]))
    /\ arg' = [arg EXCEPT ![c] = NoThread]
    /\ Goto(c, ServerPc(c))
    /\ UNCHANGED <<threadVars, runqueue, current_thread, me>>

\* read_context and write_context accept a blocked thread only.
\* Faulty variant: any thread that is not terminated.
NotTerminated(t) == state[t] # "Terminated"
ContextAllowed(t) == state[t] = "Blocked"

\* Thread::read_context and write_context: check, access the registers, return.
ContextLock(c) ==
    LET t == arg[c] IN
    /\ At(c, "context")
    /\ LockFree(t)
    /\ \/ /\ ~ContextAllowed(t)  \* INVALID_STATE
          /\ SupercallReturn(c, refs)
          /\ UNCHANGED mutable
       \/ /\ ContextAllowed(t)
          /\ mutable' = [mutable EXCEPT ![t] = c]
          /\ Goto(c, "context_access")
          /\ UNCHANGED <<refs, arg>>
    /\ UNCHANGED <<state, in_upcalls, user_data, arcs, runqueue,
                   current_thread, me>>

ContextUnlock(c) ==
    /\ At(c, "context_access")
    /\ mutable' = [mutable EXCEPT ![arg[c]] = NoCpu]
    /\ SupercallReturn(c, refs)
    /\ UNCHANGED <<state, in_upcalls, user_data, arcs, runqueue,
                   current_thread, me>>

-------------------------------------------------------------------------------
\* The kernel's own steps on CPU c: never waiting for user or server code.
KernelStep(c) ==
    \/ SyscallBlock(c) \/ SyscallUnpin(c) \/ SyscallReclaim(c) \/ SyscallDrop(c)
    \/ ReturnToUser(c) \/ Requeue(c) \/ PushFront(c) \/ Pick(c) \/ Check(c)
    \/ Enter(c) \/ CreateFill(c) \/ Unblock(c) \/ UnblockSet(c) \/ Terminate(c)
    \/ TerminateReclaim(c) \/ ContextLock(c) \/ ContextUnlock(c)

ServerStep(c) ==
    \/ HandlerReturn(c)
    \/ BootDone(c)
    \/ \E t \in Threads :
        \/ Create(c, t)
        \/ ServerDropArc(c, t)
        \/ \E call \in {"unblock", "terminate", "context"} : Supercall(c, t, call)

UserStep(c) == SyscallEntry(c) \/ Interrupt(c) \/ UnhandledException(c)

\* c spins for a lock that a stopped CPU keeps: the run queue's or a thread's.
SpinsForever(c) ==
    \/ pc[c] = "pick" /\ ~QueueUnlocked
    \/ \E d \in CPUs :
        /\ pc[d] \in StoppedPcs
        /\ \/ /\ pc[c] \in {"sys_block", "sys_unpin", "requeue", "check"}
              /\ mutable[me[c]] = d
           \/ /\ pc[c] \in {"unblock", "terminate", "context"}
              /\ mutable[arg[c]] = d

\* Every CPU has stopped for good.
AllStopped ==
    /\ \A c \in CPUs : pc[c] \in StoppedPcs \/ SpinsForever(c)
    /\ UNCHANGED vars

Next ==
    \/ \E c \in CPUs : KernelStep(c) \/ ServerStep(c) \/ UserStep(c)
    \/ AllStopped

Spec == Init /\ [][Next]_vars

-------------------------------------------------------------------------------
(* What the properties talk about.                                            *)

\* c has t in its hands to run it: t is popped, entered, running in user mode,
\* or entering the kernel and not yet blocked or put back to the queue.
Holds(c, t) ==
    \/ /\ me[c] = t
       /\ pc[c] \in {"sys_block", "requeue", "push_front", "push_front_oom",
                    "check", "enter"}
    \/ /\ current_thread[c] = t
       /\ pc[c] \in {"user", "resched", "exception"}

Queued(t) == \E i \in DOMAIN runqueue : runqueue[i] = t

\* The registers of t are loaded in c, or being loaded.
Runs(c, t) ==
    \/ pc[c] = "user" /\ current_thread[c] = t
    \/ pc[c] = "enter" /\ me[c] = t

SupercallPcs == {"unblock", "unblock_set", "unblock_oom", "terminate", "reclaim",
                 "context", "context_access"}
UpcallPcs == {"handler", "create"} \cup SupercallPcs

\* Server code on c is inside the syscall upcall of t.
InUpcall(c, t) == me[c] = t /\ pc[c] \in UpcallPcs

\* c is about to make the Terminated upcall of t.
Reclaims(c, t) ==
    \/ pc[c] = "sys_reclaim" /\ me[c] = t
    \/ pc[c] = "reclaim" /\ arg[c] = t

-------------------------------------------------------------------------------
(* Safety                                                                     *)

\* "No other CPUs can run the same thread" (thread.rs, SAFETY of Sync): a thread
\* is in one place at most, one slot of the run queue or the hands of one CPU.
OneOwner ==
    /\ \A i, j \in DOMAIN runqueue : runqueue[i] = runqueue[j] => i = j
    /\ \A t \in Threads, c, d \in CPUs : Holds(c, t) /\ Holds(d, t) => c = d
    /\ \A t \in Threads, c \in CPUs : Holds(c, t) => ~Queued(t)

\* A runnable thread is never lost: it is in the run queue or in the hands of a
\* CPU.  (unblock pushes before it sets the state; a CPU that pops in between
\* must wait for the lock in is_runnable, or it would drop the thread.)
NoLostThread ==
    \A t \in Threads :
        state[t] = "Runnable" => Queued(t) \/ \E c \in CPUs : Holds(c, t)

\* read_context and write_context access a register file nobody else uses
\* (thread.rs, SAFETY of Sync and of the two accesses).
ArchExclusive ==
    \A t \in Threads, c, d \in CPUs :
        pc[c] = "context_access" /\ arg[c] = t =>
            /\ ~Runs(d, t)
            /\ pc[d] = "context_access" /\ arg[d] = t => d = c

\* "While in_upcalls > 0, the thread must not be terminated since it frees the
\* upcall's user data while it is being referenced" (thread.rs): a handler has
\* its UserData, the box is reclaimed after every handler returned, and once.
UserDataPinned ==
    \A t \in Threads, c \in CPUs :
        /\ InUpcall(c, t) => user_data[t] = "init"
        /\ Reclaims(c, t) =>
             /\ user_data[t] = "init"
             /\ state[t] = "Terminated"
             /\ \A d \in CPUs : ~InUpcall(d, t) /\ (Reclaims(d, t) => d = c)

\* The reference counter is the number of SharedRefs: slots of the run queue,
\* CurrentThreads, local variables, the argument of a push_back that does not
\* return, and the handle.  So nothing uses a freed thread and none leaks
\* (shared_ref.rs).
RefsExact ==
    \A t \in Threads :
        refs[t] =
            Cardinality({i \in DOMAIN runqueue : runqueue[i] = t})
            + Cardinality({c \in CPUs : current_thread[c] = t})
            + Cardinality({c \in CPUs : me[c] = t})
            + Cardinality({c \in CPUs : arg[c] = t})
            + Cardinality({c \in CPUs : arg[c] = t /\ pc[c] = "unblock_oom"})
            + (IF arcs[t] # {} THEN 1 ELSE 0)

\* Of the panics that threads can run into by scheduling alone, the assert of
\* handle_syscall never fails, whatever other CPUs do to the thread that makes
\* the call; and the push to the run queue ("FIXME" in return_to_user) runs out of
\* memory only when there is not a slot for every thread: entries never pile up.
\* Not meant are the stops the code chooses, an unhandled exception of user code
\* and the todo!() of arch::idle.
PanicOnlyForMemory ==
    \A c \in CPUs :
        /\ pc[c] # "panic"
        /\ pc[c] \in OomPcs => QueueCap < Cardinality(Threads)

\* When every CPU has gone idle there is nothing left to run.
IdleMeansNoWork ==
    (\A c \in CPUs : pc[c] = "halted") =>
        \A t \in Threads : state[t] # "Runnable"

\* With one CPU, a terminated thread never runs again: "Stops the thread
\* permanently" (ftl_api thread.rs).
TerminatedNeverRuns ==
    \A t \in Threads, c \in CPUs :
        state[t] = "Terminated" => ~Runs(c, t)

-------------------------------------------------------------------------------
(* Liveness                                                                   *)

\* The kernel goes on; the timer ticks; handlers and boot code return.
KernelFairness ==
    \A c \in CPUs :
        /\ WF_vars(KernelStep(c))
        /\ WF_vars(Interrupt(c))
        /\ SF_vars(HandlerReturn(c))
        /\ SF_vars(BootDone(c))

\* Every thread that keeps running makes a system call some time.
UserFairness ==
    \A t \in Threads :
        SF_vars(\E c \in CPUs : current_thread[c] = t /\ SyscallEntry(c))

FairSpec == Spec /\ KernelFairness /\ UserFairness

\* "When the thread becomes safe to terminate, the kernel will do an upcall with
\* UpcallArg::Terminated" (thread.rs).
TerminationDelivered ==
    \A t \in Threads : state[t] = "Terminated" ~> user_data[t] = "freed"

\* A thread in the run queue gets a CPU, unless it is terminated first.
QueuedRuns ==
    \A t \in Threads :
        Queued(t) ~>
            state[t] = "Terminated" \/ \E c \in CPUs : Runs(c, t)

\* A terminated thread the server has let go of is freed.
TerminatedFreed ==
    \A t \in Threads :
        state[t] = "Terminated" /\ arcs[t] = {} ~> refs[t] = 0
===============================================================================
