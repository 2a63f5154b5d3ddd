-------------------------- MODULE KernelThreadProofs --------------------------
(***************************************************************************)
(* Proofs about the scheduling in KernelThread, for any number of CPUs and  *)
(* threads: where a thread is, who may touch its context, when CPUs idle.   *)
(***************************************************************************)
EXTENDS KernelThread, TLAPS

\* What each CPU's control path holds, by where it is.
MePcs == {"sys_block", "handler", "sys_unpin", "sys_reclaim", "sys_drop",
          "requeue", "push_front", "push_front_oom", "check", "enter"}
NoMePcs == {"boot", "user", "resched", "pick", "halted", "exception"}
ArgPcs == SupercallPcs \cup {"create"}
NoCurrentPcs == ArgPcs \cup {"boot", "handler", "halted", "sys_block", "sys_unpin",
                             "sys_reclaim", "sys_drop"}

PcOK ==
    \A c \in CPUs :
        /\ pc[c] \in MePcs => me[c] # NoThread
        /\ pc[c] \in NoMePcs => me[c] = NoThread
        /\ pc[c] \in {"user", "exception"} => current_thread[c] # NoThread
        /\ pc[c] \in NoCurrentPcs => current_thread[c] = NoThread
        /\ pc[c] \in {"requeue", "push_front", "push_front_oom"} => current_thread[c] = me[c]
        /\ pc[c] \in ArgPcs <=> arg[c] # NoThread

\* The lock is held across steps by the two split critical sections and by an unblock
\* that ran out of memory, on a blocked thread.
LockPcs == {"unblock_set", "unblock_oom", "context_access"}
LockOK ==
    /\ \A c \in CPUs : pc[c] \in LockPcs =>
        mutable[arg[c]] = c /\ state[arg[c]] = "Blocked"
    /\ \A t \in Threads : mutable[t] # NoCpu =>
        arg[mutable[t]] = t /\ pc[mutable[t]] \in LockPcs

\* Nothing refers to a thread that does not exist yet.
BornOK ==
    \A t \in Threads : state[t] = "Unborn" =>
        /\ ~Queued(t) /\ arcs[t] = {}
        /\ \A c \in CPUs : me[c] # t /\ arg[c] # t /\ current_thread[c] # t

\* unblock has pushed t to the run queue and not yet set its state.
Pushed(t) == \E c \in CPUs : pc[c] = "unblock_set" /\ arg[c] = t

\* A runnable thread has a place; a blocked one has none, except between the two
\* halves of unblock, where a CPU that popped it waits in is_runnable.
TokenOK ==
    \A t \in Threads :
        /\ state[t] = "Runnable" => Queued(t) \/ \E c \in CPUs : Holds(c, t)
        /\ Pushed(t) => Queued(t) \/ \E c \in CPUs : Holds(c, t)
        /\ state[t] = "Blocked" /\ Queued(t) => Pushed(t)
        /\ \A c \in CPUs : state[t] = "Blocked" /\ Holds(c, t) => Pushed(t) /\ pc[c] = "check"

\* The halves of OneOwner.
QueueInjective == \A i, j \in DOMAIN runqueue : runqueue[i] = runqueue[j] => i = j
HoldsUnique ==
    \A t \in Threads : \A c \in CPUs : Holds(c, t) =>
        ~Queued(t) /\ \A d \in CPUs : Holds(d, t) => c = d

\* TypeOK, but for the sign of in_upcalls.
Types ==
    /\ state \in [Threads -> ThreadStates]
    /\ in_upcalls \in [Threads -> Int]
    /\ mutable \in [Threads -> CPUs \cup {NoCpu}]
    /\ refs \in [Threads -> Int]
    /\ user_data \in [Threads -> UserDataStates]
    /\ arcs \in [Threads -> SUBSET ArcHolders]
    /\ runqueue \in Seq(Threads)
    /\ current_thread \in [CPUs -> Threads \cup {NoThread}]
    /\ me \in [CPUs -> Threads \cup {NoThread}]
    /\ arg \in [CPUs -> Threads \cup {NoThread}]
    /\ pc \in [CPUs -> Labels]

Inv == Types /\ PcOK /\ LockOK /\ BornOK /\ QueueInjective /\ HoldsUnique /\ TokenOK

-------------------------------------------------------------------------------

\* What ConstantsAssumption says of the names: NoCpu and NoThread name no CPU, no thread.
LEMMA Constants ==
    /\ Bsp \in CPUs /\ NoCpu \notin CPUs /\ NoThread \notin Threads
BY ConstantsAssumption, Zenon

\* The counters stay integers.
LEMMA RefsType ==
    ASSUME NEW r \in [Threads -> Int]
    PROVE  /\ \A t \in Threads : Clone(r, t) \in [Threads -> Int]
           /\ \A t \in Threads \cup {NoThread} : Drop(r, t) \in [Threads -> Int]
           /\ \A t \in Threads, h \in ArcHolders : DropArc(r, t, h) \in [Threads -> Int]
BY Constants DEF Clone, Drop, DropArc

\* A step of c leaves the other CPUs alone.
OnlyCpu(c) ==
    \A d \in CPUs \ {c} :
        /\ pc'[d] = pc[d] /\ me'[d] = me[d] /\ arg'[d] = arg[d]
        /\ current_thread'[d] = current_thread[d]

\* A step of c that takes no lock, puts no thread in a new place, and lets go of a
\* thread only if that is terminated.
CalmStep(c) ==
    /\ mutable' = mutable /\ runqueue' = runqueue
    /\ pc[c] \notin LockPcs /\ pc'[c] \notin LockPcs
    /\ \A t \in Threads :
        /\ state'[t] = state[t] \/ (state'[t] = "Terminated" /\ mutable[t] = NoCpu)
        /\ Holds(c, t)' => Holds(c, t) /\ state'[t] # "Blocked"
        /\ Holds(c, t) => Holds(c, t)' \/ (state'[t] = "Terminated" /\ mutable[t] = NoCpu)

\* A step of c outside the two split critical sections leaves every held spinlock, and
\* the blocked state of the thread it guards, as they were.
LEMMA LockKept ==
    ASSUME Inv, NEW c \in CPUs, OnlyCpu(c), mutable' = mutable,
           pc[c] \notin LockPcs, pc'[c] \notin LockPcs,
           \A t \in Threads : mutable[t] # NoCpu => state'[t] = state[t]
    PROVE  LockOK'
<1>1. ASSUME NEW d \in CPUs, pc'[d] \in LockPcs
      PROVE  mutable'[arg'[d]] = d /\ state'[arg'[d]] = "Blocked"
  <2>1. d # c /\ pc[d] \in LockPcs /\ arg'[d] = arg[d]
    BY <1>1, Zenon DEF OnlyCpu
  <2>2. arg[d] \in Threads /\ mutable[arg[d]] = d /\ state[arg[d]] = "Blocked"
    BY <2>1 DEF Inv, Types, PcOK, LockOK, LockPcs, ArgPcs, SupercallPcs
  <2> QED BY <2>1, <2>2, Constants, Zenon
<1>2. ASSUME NEW t \in Threads, mutable'[t] # NoCpu
      PROVE  arg'[mutable'[t]] = t /\ pc'[mutable'[t]] \in LockPcs
  <2>1. mutable[t] \in CPUs /\ arg[mutable[t]] = t /\ pc[mutable[t]] \in LockPcs
    BY <1>2 DEF Inv, Types, LockOK
  <2> QED BY <2>1, Zenon DEF OnlyCpu
<1> QED BY <1>1, <1>2, Zenon DEF LockOK

\* A calm step keeps the lock, queue and run-token conjuncts: it moves no thread.
LEMMA Calm ==
    ASSUME Inv, NEW c \in CPUs, OnlyCpu(c), CalmStep(c)
    PROVE  LockOK' /\ QueueInjective' /\ HoldsUnique' /\ TokenOK'
<1>1. \A d \in CPUs \ {c}, t \in Threads : Holds(d, t)' <=> Holds(d, t)
  BY Zenon DEF OnlyCpu, Holds
<1>2. \A t \in Threads : Queued(t)' <=> Queued(t)
  BY Zenon DEF CalmStep, Queued
<1>3. \A t \in Threads : Pushed(t)' <=> Pushed(t)
  BY Zenon DEF CalmStep, OnlyCpu, Pushed, LockPcs
<1>4. \A t \in Threads : Pushed(t) => state[t] = "Blocked" /\ mutable[t] # NoCpu
  BY Constants DEF Inv, LockOK, Pushed, LockPcs
<1>5. LockOK'
  BY LockKept, Zenon DEF CalmStep
<1>6. QueueInjective'
  BY Zenon DEF Inv, QueueInjective, CalmStep
<1>7. HoldsUnique'
  BY <1>1, <1>2 DEF Inv, HoldsUnique, CalmStep
<1>8. TokenOK'
  <2> SUFFICES ASSUME NEW t \in Threads
               PROVE  /\ state'[t] = "Runnable" => Queued(t)' \/ \E d \in CPUs : Holds(d, t)'
                      /\ Pushed(t)' => Queued(t)' \/ \E d \in CPUs : Holds(d, t)'
                      /\ state'[t] = "Blocked" /\ Queued(t)' => Pushed(t)'
                      /\ \A d \in CPUs : state'[t] = "Blocked" /\ Holds(d, t)' =>
                            Pushed(t)' /\ pc'[d] = "check"
    BY Zenon DEF TokenOK
  <2>1. /\ state[t] = "Runnable" => Queued(t) \/ \E d \in CPUs : Holds(d, t)
        /\ Pushed(t) => Queued(t) \/ \E d \in CPUs : Holds(d, t)
        /\ state[t] = "Blocked" /\ Queued(t) => Pushed(t)
        /\ \A d \in CPUs : state[t] = "Blocked" /\ Holds(d, t) => Pushed(t) /\ pc[d] = "check"
    BY Zenon DEF Inv, TokenOK
  <2>2. /\ state'[t] = state[t] \/ (state'[t] = "Terminated" /\ mutable[t] = NoCpu)
        /\ Holds(c, t)' => Holds(c, t) /\ state'[t] # "Blocked"
        /\ Holds(c, t) => Holds(c, t)' \/ (state'[t] = "Terminated" /\ mutable[t] = NoCpu)
    BY Zenon DEF CalmStep
  <2> QED BY <1>1, <1>2, <1>3, <1>4, <2>1, <2>2, Zenon DEF OnlyCpu
<1> QED BY <1>5, <1>6, <1>7, <1>8, Zenon

\* A thread that a CPU has in its hands is not blocked, except where it is about to be
\* checked.
LEMMA HeldNotBlocked ==
    ASSUME Inv, NEW c \in CPUs, NEW t \in Threads, Holds(c, t), pc[c] # "check"
    PROVE  state[t] \in {"Runnable", "Terminated"}
BY DEF Inv, TokenOK, BornOK, Types, ThreadStates, Holds

\* Taking the current thread off the CPU at a syscall keeps the invariant.
LEMMA SyscallEntryInv ==
    ASSUME Inv, NEW c \in CPUs, SyscallEntry(c)
    PROVE  Inv'
<1> USE Constants DEF SyscallEntry, At, Goto, threadVars, objectVars, cpuVars
<1>1. Types'
  BY RefsType, Zenon DEF Inv, Types, PcOK, Labels, ServerPcs, StoppedPcs, ArcHolders, UserDataStates, ThreadStates,
     MePcs, NoMePcs, ArgPcs, NoCurrentPcs, SupercallPcs
<1>2. OnlyCpu(c)
  BY Zenon DEF Inv, Types, OnlyCpu
<1>3. PcOK'
  BY DEF Inv, Types, PcOK, MePcs, NoMePcs, ArgPcs, NoCurrentPcs, SupercallPcs
<1>4. BornOK'
  BY DEF Inv, Types, BornOK, Queued
<1>5. CalmStep(c)
  BY HeldNotBlocked, Zenon DEF Inv, Types, PcOK, CalmStep, Holds, LockPcs,
     MePcs, NoMePcs, ArgPcs, NoCurrentPcs, SupercallPcs
<1> QED BY <1>1, <1>2, <1>3, <1>4, <1>5, Calm, Zenon DEF Inv

\* The return of the server's handler keeps the invariant.
LEMMA HandlerReturnInv ==
    ASSUME Inv, NEW c \in CPUs, HandlerReturn(c)
    PROVE  Inv'
<1> USE Constants DEF HandlerReturn, At, Goto, threadVars, objectVars, cpuVars
<1>1. Types'
  BY RefsType, Zenon DEF Inv, Types, PcOK, Labels, ServerPcs, StoppedPcs, ArcHolders, UserDataStates, ThreadStates,
     MePcs, NoMePcs, ArgPcs, NoCurrentPcs, SupercallPcs
<1>2. OnlyCpu(c)
  BY Zenon DEF Inv, Types, OnlyCpu
<1>3. PcOK'
  BY DEF Inv, Types, PcOK, MePcs, NoMePcs, ArgPcs, NoCurrentPcs, SupercallPcs
<1>4. BornOK'
  BY Zenon DEF Inv, Types, BornOK, Queued
<1>5. CalmStep(c)
  BY HeldNotBlocked, Zenon DEF Inv, Types, PcOK, CalmStep, Holds, LockPcs,
     MePcs, NoMePcs, ArgPcs, NoCurrentPcs, SupercallPcs
<1> QED BY <1>1, <1>2, <1>3, <1>4, <1>5, Calm, Zenon DEF Inv

\* Counting in_upcalls down after the upcall keeps the invariant.
LEMMA SyscallUnpinInv ==
    ASSUME Inv, NEW c \in CPUs, SyscallUnpin(c)
    PROVE  Inv'
<1> USE Constants DEF SyscallUnpin, At, Goto, LockFree, threadVars, objectVars, cpuVars
<1>1. Types'
  BY RefsType DEF Inv, Types, PcOK, Labels, ServerPcs, StoppedPcs, ArcHolders, UserDataStates, ThreadStates,
     MePcs, NoMePcs, ArgPcs, NoCurrentPcs, SupercallPcs
<1>2. OnlyCpu(c)
  BY Zenon DEF Inv, Types, OnlyCpu
<1>3. PcOK'
  BY DEF Inv, Types, PcOK, MePcs, NoMePcs, ArgPcs, NoCurrentPcs, SupercallPcs
<1>4. BornOK'
  BY Zenon DEF Inv, Types, BornOK, Queued
<1>5. CalmStep(c)
  BY HeldNotBlocked, Zenon DEF Inv, Types, PcOK, CalmStep, Holds, LockPcs,
     MePcs, NoMePcs, ArgPcs, NoCurrentPcs, SupercallPcs
<1> QED BY <1>1, <1>2, <1>3, <1>4, <1>5, Calm, Zenon DEF Inv

\* The Terminated upcall of handle_syscall keeps the invariant.
LEMMA SyscallReclaimInv ==
    ASSUME Inv, NEW c \in CPUs, SyscallReclaim(c)
    PROVE  Inv'
<1> USE Constants DEF SyscallReclaim, At, Goto, TerminatedUpcall, threadVars, objectVars, cpuVars
<1>1. Types'
  BY RefsType, Zenon DEF Inv, Types, PcOK, Labels, ServerPcs, StoppedPcs, ArcHolders, UserDataStates, ThreadStates,
     MePcs, NoMePcs, ArgPcs, NoCurrentPcs, SupercallPcs
<1>2. OnlyCpu(c)
  BY Zenon DEF Inv, Types, OnlyCpu
<1>3. PcOK'
  BY DEF Inv, Types, PcOK, MePcs, NoMePcs, ArgPcs, NoCurrentPcs, SupercallPcs
<1>4. BornOK'
  BY Zenon DEF Inv, Types, BornOK, Queued
<1>5. CalmStep(c)
  BY HeldNotBlocked, Zenon DEF Inv, Types, PcOK, CalmStep, Holds, LockPcs,
     MePcs, NoMePcs, ArgPcs, NoCurrentPcs, SupercallPcs
<1> QED BY <1>1, <1>2, <1>3, <1>4, <1>5, Calm, Zenon DEF Inv

\* Dropping handle_syscall's reference keeps the invariant.
LEMMA SyscallDropInv ==
    ASSUME Inv, NEW c \in CPUs, SyscallDrop(c)
    PROVE  Inv'
<1> USE Constants DEF SyscallDrop, At, Goto, threadVars, objectVars, cpuVars
<1>1. Types'
  BY RefsType, Zenon DEF Inv, Types, PcOK, Labels, ServerPcs, StoppedPcs, ArcHolders, UserDataStates, ThreadStates,
     MePcs, NoMePcs, ArgPcs, NoCurrentPcs, SupercallPcs
<1>2. OnlyCpu(c)
  BY Zenon DEF Inv, Types, OnlyCpu
<1>3. PcOK'
  BY DEF Inv, Types, PcOK, MePcs, NoMePcs, ArgPcs, NoCurrentPcs, SupercallPcs
<1>4. BornOK'
  BY DEF Inv, Types, BornOK, Queued
<1>5. CalmStep(c)
  BY HeldNotBlocked DEF Inv, Types, PcOK, CalmStep, Holds, LockPcs,
     MePcs, NoMePcs, ArgPcs, NoCurrentPcs, SupercallPcs
<1> QED BY <1>1, <1>2, <1>3, <1>4, <1>5, Calm, Zenon DEF Inv

\* A timer interrupt keeps the invariant: the current thread stays current.
LEMMA InterruptInv ==
    ASSUME Inv, NEW c \in CPUs, Interrupt(c)
    PROVE  Inv'
<1> USE Constants DEF Interrupt, At, Goto, threadVars, objectVars, cpuVars
<1>1. Types'
  BY RefsType, Zenon DEF Inv, Types, PcOK, Labels, ServerPcs, StoppedPcs, ArcHolders, UserDataStates, ThreadStates,
     MePcs, NoMePcs, ArgPcs, NoCurrentPcs, SupercallPcs
<1>2. OnlyCpu(c)
  BY Zenon DEF Inv, Types, OnlyCpu
<1>3. PcOK'
  BY DEF Inv, Types, PcOK, MePcs, NoMePcs, ArgPcs, NoCurrentPcs, SupercallPcs
<1>4. BornOK'
  BY Zenon DEF Inv, Types, BornOK, Queued
<1>5. CalmStep(c)
  BY HeldNotBlocked, Zenon DEF Inv, Types, PcOK, CalmStep, Holds, LockPcs,
     MePcs, NoMePcs, ArgPcs, NoCurrentPcs, SupercallPcs
<1> QED BY <1>1, <1>2, <1>3, <1>4, <1>5, Calm, Zenon DEF Inv

\* An exception that panics the kernel keeps the invariant.
LEMMA UnhandledExceptionInv ==
    ASSUME Inv, NEW c \in CPUs, UnhandledException(c)
    PROVE  Inv'
<1> USE Constants DEF UnhandledException, At, Goto, threadVars, objectVars, cpuVars
<1>1. Types'
  BY RefsType, Zenon DEF Inv, Types, PcOK, Labels, ServerPcs, StoppedPcs, ArcHolders, UserDataStates, ThreadStates,
     MePcs, NoMePcs, ArgPcs, NoCurrentPcs, SupercallPcs
<1>2. OnlyCpu(c)
  BY Zenon DEF Inv, Types, OnlyCpu
<1>3. PcOK'
  BY DEF Inv, Types, PcOK, MePcs, NoMePcs, ArgPcs, NoCurrentPcs, SupercallPcs
<1>4. BornOK'
  BY Zenon DEF Inv, Types, BornOK, Queued
<1>5. CalmStep(c)
  BY HeldNotBlocked, Zenon DEF Inv, Types, PcOK, CalmStep, Holds, LockPcs,
     MePcs, NoMePcs, ArgPcs, NoCurrentPcs, SupercallPcs
<1> QED BY <1>1, <1>2, <1>3, <1>4, <1>5, Calm, Zenon DEF Inv

\* Entering return_to_user keeps the invariant.
LEMMA ReturnToUserInv ==
    ASSUME Inv, NEW c \in CPUs, ReturnToUser(c)
    PROVE  Inv'
<1> USE Constants DEF ReturnToUser, At, Goto, threadVars, objectVars, cpuVars
<1>1. Types'
  <2>1. refs' \in [Threads -> Int]
    BY RefsType DEF Inv, Types, PcOK, MePcs, NoMePcs, ArgPcs, NoCurrentPcs, SupercallPcs
  <2>2. me' \in [CPUs -> Threads \cup {NoThread}] /\ arg' \in [CPUs -> Threads \cup {NoThread}]
    BY Zenon DEF Inv, Types
  <2>3. pc' \in [CPUs -> Labels] /\ state' \in [Threads -> ThreadStates]
    BY Zenon DEF Inv, Types, Labels, ServerPcs, StoppedPcs, ThreadStates
  <2> QED BY <2>1, <2>2, <2>3, Zenon DEF Inv, Types
<1>2. OnlyCpu(c)
  BY Zenon DEF Inv, Types, OnlyCpu
<1>3. PcOK'
  BY DEF Inv, Types, PcOK, MePcs, NoMePcs, ArgPcs, NoCurrentPcs, SupercallPcs
<1>4. BornOK'
  BY DEF Inv, Types, BornOK, Queued
<1>5. CalmStep(c)
  BY HeldNotBlocked DEF Inv, Types, PcOK, CalmStep, Holds, LockPcs,
     MePcs, NoMePcs, ArgPcs, NoCurrentPcs, SupercallPcs
<1> QED BY <1>1, <1>2, <1>3, <1>4, <1>5, Calm, Zenon DEF Inv

\* return_to_user's test of the current thread keeps the invariant: a thread it lets go
\* of is terminated.
LEMMA RequeueInv ==
    ASSUME Inv, NEW c \in CPUs, Requeue(c)
    PROVE  Inv'
<1> USE Constants DEF Requeue, At, Goto, CanReadState, LockFree, is_runnable, threadVars, objectVars, cpuVars
<1>1. Types'
  <2>1. refs' \in [Threads -> Int]
    BY RefsType DEF Inv, Types, PcOK, MePcs, NoMePcs, ArgPcs, NoCurrentPcs, SupercallPcs
  <2>2. me' \in [CPUs -> Threads \cup {NoThread}] /\ arg' \in [CPUs -> Threads \cup {NoThread}]
    BY Zenon DEF Inv, Types
  <2>3. pc' \in [CPUs -> Labels] /\ state' \in [Threads -> ThreadStates]
    BY Zenon DEF Inv, Types, Labels, ServerPcs, StoppedPcs, ThreadStates
  <2> QED BY <2>1, <2>2, <2>3, Zenon DEF Inv, Types
<1>2. OnlyCpu(c)
  BY Zenon DEF Inv, Types, OnlyCpu
<1>3. PcOK'
  BY DEF Inv, Types, PcOK, MePcs, NoMePcs, ArgPcs, NoCurrentPcs, SupercallPcs
<1>4. BornOK'
  BY DEF Inv, Types, BornOK, Queued
<1>5. CalmStep(c)
  BY HeldNotBlocked DEF Inv, Types, PcOK, CalmStep, Holds, LockPcs,
     MePcs, NoMePcs, ArgPcs, NoCurrentPcs, SupercallPcs
<1> QED BY <1>1, <1>2, <1>3, <1>4, <1>5, Calm, Zenon DEF Inv

\* is_runnable on a popped thread keeps the invariant: it waits out unblock's critical
\* section, so a thread it drops is terminated.
LEMMA CheckInv ==
    ASSUME Inv, NEW c \in CPUs, Check(c)
    PROVE  Inv'
<1> USE Constants DEF Check, At, Goto, CanReadState, LockFree, is_runnable, threadVars, objectVars, cpuVars
<1>1. Types'
  <2>1. refs' \in [Threads -> Int]
    BY RefsType DEF Inv, Types, PcOK, MePcs, NoMePcs, ArgPcs, NoCurrentPcs, SupercallPcs
  <2>2. me' \in [CPUs -> Threads \cup {NoThread}] /\ arg' \in [CPUs -> Threads \cup {NoThread}]
    BY Zenon DEF Inv, Types
  <2>3. pc' \in [CPUs -> Labels] /\ state' \in [Threads -> ThreadStates]
    BY Zenon DEF Inv, Types, Labels, ServerPcs, StoppedPcs, ThreadStates
  <2> QED BY <2>1, <2>2, <2>3, Zenon DEF Inv, Types
<1>2. OnlyCpu(c)
  BY Zenon DEF Inv, Types, OnlyCpu
<1>3. PcOK'
  BY DEF Inv, Types, PcOK, MePcs, NoMePcs, ArgPcs, NoCurrentPcs, SupercallPcs
<1>4. BornOK'
  BY DEF Inv, Types, BornOK, Queued
<1>5. CalmStep(c)
  <2>1. me[c] \in Threads /\ Holds(c, me[c]) /\ mutable[me[c]] = NoCpu
    BY Zenon DEF Inv, Types, PcOK, Holds, MePcs
  <2>2. ~Pushed(me[c])
    BY <2>1 DEF Inv, LockOK, Pushed, LockPcs
  <2>3. state[me[c]] \in {"Runnable", "Terminated"}
    BY <2>1, <2>2 DEF Inv, TokenOK, BornOK, Types, ThreadStates
  <2> QED BY <2>1, <2>3 DEF Inv, Types, PcOK, CalmStep, Holds, LockPcs,
     MePcs, NoMePcs, ArgPcs, NoCurrentPcs, SupercallPcs
<1> QED BY <1>1, <1>2, <1>3, <1>4, <1>5, Calm, Zenon DEF Inv

\* Installing the picked thread as the current one keeps the invariant.
LEMMA EnterInv ==
    ASSUME Inv, NEW c \in CPUs, Enter(c)
    PROVE  Inv'
<1> USE Constants DEF Enter, At, Goto, ReleaseCurrent, threadVars, objectVars, cpuVars
<1>1. Types'
  BY RefsType, Zenon DEF Inv, Types, PcOK, Labels, ServerPcs, StoppedPcs, ArcHolders, UserDataStates, ThreadStates,
     MePcs, NoMePcs, ArgPcs, NoCurrentPcs, SupercallPcs
<1>2. OnlyCpu(c)
  BY Zenon DEF Inv, Types, OnlyCpu
<1>3. PcOK'
  BY DEF Inv, Types, PcOK, MePcs, NoMePcs, ArgPcs, NoCurrentPcs, SupercallPcs
<1>4. BornOK'
  BY DEF Inv, Types, BornOK, Queued
<1>5. CalmStep(c)
  BY HeldNotBlocked, Zenon DEF Inv, Types, PcOK, CalmStep, Holds, LockPcs,
     MePcs, NoMePcs, ArgPcs, NoCurrentPcs, SupercallPcs
<1> QED BY <1>1, <1>2, <1>3, <1>4, <1>5, Calm, Zenon DEF Inv

\* The end of boot keeps the invariant.
LEMMA BootDoneInv ==
    ASSUME Inv, NEW c \in CPUs, BootDone(c)
    PROVE  Inv'
<1> USE Constants DEF BootDone, At, Goto, threadVars, objectVars, cpuVars
<1>1. Types'
  BY RefsType, Zenon DEF Inv, Types, PcOK, Labels, ServerPcs, StoppedPcs, ArcHolders, UserDataStates, ThreadStates,
     MePcs, NoMePcs, ArgPcs, NoCurrentPcs, SupercallPcs
<1>2. OnlyCpu(c)
  BY Zenon DEF Inv, Types, OnlyCpu
<1>3. PcOK'
  BY DEF Inv, Types, PcOK, MePcs, NoMePcs, ArgPcs, NoCurrentPcs, SupercallPcs
<1>4. BornOK'
  BY Zenon DEF Inv, Types, BornOK, Queued
<1>5. CalmStep(c)
  BY HeldNotBlocked DEF Inv, Types, PcOK, CalmStep, Holds, LockPcs,
     MePcs, NoMePcs, ArgPcs, NoCurrentPcs, SupercallPcs
<1> QED BY <1>1, <1>2, <1>3, <1>4, <1>5, Calm, Zenon DEF Inv

\* Filling the UserData of a new thread keeps the invariant.
LEMMA CreateFillInv ==
    ASSUME Inv, NEW c \in CPUs, CreateFill(c)
    PROVE  Inv'
<1> USE Constants DEF CreateFill, At, Goto, ServerPc, threadVars, objectVars, cpuVars
<1>1. Types'
  BY RefsType, Zenon DEF Inv, Types, PcOK, Labels, ServerPcs, StoppedPcs, ArcHolders, UserDataStates, ThreadStates,
     MePcs, NoMePcs, ArgPcs, NoCurrentPcs, SupercallPcs
<1>2. OnlyCpu(c)
  BY Zenon DEF Inv, Types, OnlyCpu
<1>3. PcOK'
  BY DEF Inv, Types, PcOK, MePcs, NoMePcs, ArgPcs, NoCurrentPcs, SupercallPcs
<1>4. BornOK'
  BY DEF Inv, Types, BornOK, Queued
<1>5. CalmStep(c)
  BY HeldNotBlocked DEF Inv, Types, PcOK, CalmStep, Holds, LockPcs,
     MePcs, NoMePcs, ArgPcs, NoCurrentPcs, SupercallPcs
<1> QED BY <1>1, <1>2, <1>3, <1>4, <1>5, Calm, Zenon DEF Inv

\* terminate, which takes the lock, keeps the invariant.
LEMMA TerminateInv ==
    ASSUME Inv, NEW c \in CPUs, Terminate(c)
    PROVE  Inv'
<1> USE Constants DEF Terminate, At, Goto, LockFree, SupercallReturn, ServerPc, threadVars, objectVars, cpuVars
<1>1. Types'
  <2>1. refs' \in [Threads -> Int]
    <3>1. arg[c] \in Threads /\ refs \in [Threads -> Int]
      BY Zenon DEF Inv, Types, PcOK, ArgPcs, SupercallPcs
    <3>2. refs' \in {refs, Drop(refs, arg[c])}
      BY Zenon
    <3> QED BY <3>1, <3>2, RefsType
  <2>2. me' \in [CPUs -> Threads \cup {NoThread}] /\ arg' \in [CPUs -> Threads \cup {NoThread}]
    BY Zenon DEF Inv, Types
  <2>3. pc' \in [CPUs -> Labels] /\ state' \in [Threads -> ThreadStates]
    BY Zenon DEF Inv, Types, Labels, ServerPcs, StoppedPcs, ThreadStates
  <2> QED BY <2>1, <2>2, <2>3, Zenon DEF Inv, Types
<1>2. OnlyCpu(c)
  BY DEF Inv, Types, OnlyCpu
<1>3. PcOK'
  BY DEF Inv, Types, PcOK, MePcs, NoMePcs, ArgPcs, NoCurrentPcs, SupercallPcs
<1>4. BornOK'
  BY DEF Inv, Types, BornOK, Queued
<1>5. CalmStep(c)
  BY HeldNotBlocked DEF Inv, Types, PcOK, CalmStep, Holds, LockPcs,
     MePcs, NoMePcs, ArgPcs, NoCurrentPcs, SupercallPcs
<1> QED BY <1>1, <1>2, <1>3, <1>4, <1>5, Calm, Zenon DEF Inv

\* The Terminated upcall of terminate keeps the invariant.
LEMMA TerminateReclaimInv ==
    ASSUME Inv, NEW c \in CPUs, TerminateReclaim(c)
    PROVE  Inv'
<1> USE Constants DEF TerminateReclaim, At, Goto, TerminatedUpcall, ServerPc, threadVars, objectVars, cpuVars
<1>1. Types'
  BY RefsType, Zenon DEF Inv, Types, PcOK, Labels, ServerPcs, StoppedPcs, ArcHolders, UserDataStates, ThreadStates,
     MePcs, NoMePcs, ArgPcs, NoCurrentPcs, SupercallPcs
<1>2. OnlyCpu(c)
  BY Zenon DEF Inv, Types, OnlyCpu
<1>3. PcOK'
  BY DEF Inv, Types, PcOK, MePcs, NoMePcs, ArgPcs, NoCurrentPcs, SupercallPcs
<1>4. BornOK'
  BY DEF Inv, Types, BornOK, Queued
<1>5. CalmStep(c)
  BY HeldNotBlocked DEF Inv, Types, PcOK, CalmStep, Holds, LockPcs,
     MePcs, NoMePcs, ArgPcs, NoCurrentPcs, SupercallPcs
<1> QED BY <1>1, <1>2, <1>3, <1>4, <1>5, Calm, Zenon DEF Inv

\* Entering a supercall, which clones the Arc's reference, keeps the invariant.
LEMMA SupercallInv ==
    ASSUME Inv, NEW c \in CPUs, NEW t \in Threads,
           NEW call \in {"unblock", "terminate", "context"}, Supercall(c, t, call)
    PROVE  Inv'
<1> USE Constants DEF Supercall, InServer, ServerPcs, Goto, threadVars, objectVars, cpuVars
<1>1. Types'
  BY RefsType, Zenon DEF Inv, Types, Labels
<1>2. OnlyCpu(c)
  BY Zenon DEF Inv, Types, OnlyCpu
<1>3. PcOK'
  BY DEF Inv, Types, PcOK, MePcs, NoMePcs, ArgPcs, NoCurrentPcs, SupercallPcs
<1>4. BornOK'
  BY DEF Inv, Types, BornOK, Queued, CanAddress
<1>5. CalmStep(c)
  BY HeldNotBlocked, SMTT(15) DEF Inv, Types, PcOK, CalmStep, Holds, LockPcs
<1> QED BY <1>1, <1>2, <1>3, <1>4, <1>5, Calm, Zenon DEF Inv

\* Dropping an Arc of the server keeps the invariant.
LEMMA ServerDropArcInv ==
    ASSUME Inv, NEW c \in CPUs, NEW t \in Threads, ServerDropArc(c, t)
    PROVE  Inv'
<1> USE Constants DEF ServerDropArc, InServer, ServerPcs, threadVars, objectVars, cpuVars
<1>1. Types'
  BY RefsType, ZenonT(30) DEF Inv, Types, ArcHolders
<1>2. OnlyCpu(c)
  BY Zenon DEF OnlyCpu
<1>3. PcOK'
  BY Zenon DEF Inv, PcOK
<1>4. BornOK'
  BY DEF Inv, Types, BornOK, Queued
<1>5. CalmStep(c)
  BY Zenon DEF Inv, Types, CalmStep, Holds, LockPcs
<1> QED BY <1>1, <1>2, <1>3, <1>4, <1>5, Calm, Zenon DEF Inv

\* A new thread is blocked and nowhere.
LEMMA CreateInv ==
    ASSUME Inv, NEW c \in CPUs, NEW t \in Threads, Create(c, t)
    PROVE  Inv'
<1> USE Constants DEF Create, InServer, ServerPcs, Goto, threadVars, objectVars, cpuVars
<1>1. Types'
  BY DEF Inv, Types, Labels, UserDataStates, ThreadStates
<1>2. PcOK'
  BY DEF Inv, Types, PcOK, MePcs, NoMePcs, ArgPcs, NoCurrentPcs, SupercallPcs
<1>3. LockOK'
  BY DEF Inv, Types, LockOK, LockPcs, PcOK, ArgPcs, SupercallPcs, BornOK
<1>4. BornOK'
  BY DEF Inv, Types, BornOK, Queued
<1>5. QueueInjective'
  BY Zenon DEF Inv, QueueInjective
<1>6. \A u \in Threads : /\ Queued(u)' <=> Queued(u)
                         /\ Pushed(u)' <=> Pushed(u)
                         /\ \A d \in CPUs : Holds(d, u)' <=> Holds(d, u)
  BY DEF Inv, Types, Queued, Pushed, Holds
<1>7. ~Queued(t) /\ \A d \in CPUs : ~Holds(d, t)
  BY Zenon DEF Inv, BornOK, Holds
<1>8. HoldsUnique'
  BY <1>6, Zenon DEF Inv, HoldsUnique
<1>9. TokenOK'
  BY <1>6, <1>7 DEF Inv, Types, TokenOK, Holds
<1> QED BY <1>1, <1>2, <1>3, <1>4, <1>5, <1>8, <1>9, Zenon DEF Inv

\* The thread of a system call gives up its place and becomes blocked.
LEMMA SyscallBlockInv ==
    ASSUME Inv, NEW c \in CPUs, SyscallBlock(c)
    PROVE  Inv'
<1> DEFINE t == me[c]
<1> USE Constants DEF SyscallBlock, SyscallIgnored, Pinned, LockFree, At, Goto, threadVars, objectVars, cpuVars
<1>1. t \in Threads /\ Holds(c, t) /\ mutable[t] = NoCpu
  BY Zenon DEF Inv, Types, PcOK, Holds, MePcs
<1>2. state[t] \in {"Runnable", "Terminated"}
  BY <1>1, HeldNotBlocked, Zenon
<1>3. Types'
  <2>1. state' \in [Threads -> ThreadStates] /\ mutable' = mutable
    BY <1>2, Zenon DEF Inv, Types, ThreadStates
  <2>2. in_upcalls' \in [Threads -> Int]
    BY <1>2 DEF Inv, Types
  <2>3. pc' \in [CPUs -> Labels]
    BY ZenonT(30) DEF Inv, Types, Labels, ServerPcs, StoppedPcs
  <2> QED BY <2>1, <2>2, <2>3, Zenon DEF Inv, Types
<1>4. PcOK'
  BY <1>2 DEF Inv, Types, PcOK, MePcs, NoMePcs, ArgPcs, NoCurrentPcs, SupercallPcs
<1>5. BornOK'
  BY <1>1, <1>2, ZenonT(30) DEF Inv, Types, BornOK, Queued
<1>6. OnlyCpu(c)
  BY DEF Inv, Types, OnlyCpu
<1>7. CASE state[t] = "Terminated"
  <2>1. CalmStep(c)
    BY <1>1, <1>7 DEF Inv, Types, CalmStep, Holds, LockPcs, PcOK, NoCurrentPcs
  <2> QED BY <1>3, <1>4, <1>5, <1>6, <2>1, Calm, Zenon DEF Inv
<1>8. CASE state[t] = "Runnable"
  <2>1. LockOK'
    BY <1>1, <1>6, <1>8, LockKept, Zenon DEF Inv, Types, LockPcs
  <2>2. QueueInjective'
    BY Zenon DEF Inv, QueueInjective
  <2>3. \A u \in Threads :
          /\ Queued(u)' <=> Queued(u)
          /\ Pushed(u)' <=> Pushed(u)
          /\ \A d \in CPUs : Holds(d, u)' <=> Holds(d, u) /\ d # c
          /\ Holds(c, u) => u = t
    BY <1>8 DEF Inv, Types, Queued, Pushed, Holds, PcOK, NoCurrentPcs
  <2>4. ~Queued(t) /\ ~Pushed(t) /\ \A d \in CPUs : ~Holds(d, t)'
    <3>1. Holds(c, t)
      BY <1>1, Zenon DEF Holds
    <3>2. ~Queued(t) /\ \A d \in CPUs : Holds(d, t) => d = c
      BY <1>1, <3>1, Zenon DEF Inv, HoldsUnique
    <3>3. ~Pushed(t)
      BY <1>1, <1>8 DEF Inv, LockOK, LockPcs, Pushed
    <3> QED BY <1>1, <2>3, <3>2, <3>3, Zenon
  <2>5. HoldsUnique'
    BY <2>3, Zenon DEF Inv, HoldsUnique
  <2>6. TokenOK'
    BY <1>1, <1>8, <2>3, <2>4, <1>6 DEF Inv, Types, TokenOK, OnlyCpu
  <2> QED BY <1>3, <1>4, <1>5, <2>1, <2>2, <2>5, <2>6, Zenon DEF Inv
<1> QED BY <1>2, <1>7, <1>8, Zenon

\* What pushing and popping do to the set of queued threads.
Elems(q) == {q[i] : i \in DOMAIN q}
Injective(q) == \A i, j \in DOMAIN q : q[i] = q[j] => i = j

\* Pushing at either end of the run queue adds that one thread, and no second entry.
LEMMA PushedQueue ==
    ASSUME NEW q \in Seq(Threads), NEW t \in Threads, NEW r,
           r = Append(q, t) \/ r = <<t>> \o q
    PROVE  /\ r \in Seq(Threads)
           /\ Elems(r) = Elems(q) \cup {t}
           /\ Injective(q) /\ t \notin Elems(q) => Injective(r)
<1>1. CASE r = Append(q, t)
  <2>1. r \in Seq(Threads) /\ Len(r) = Len(q) + 1 /\ DOMAIN r = 1..(Len(q) + 1) /\ DOMAIN q = 1..Len(q)
    BY <1>1
  <2>2. r[Len(q) + 1] = t /\ \A i \in 1..Len(q) : r[i] = q[i]
    BY <1>1
  <2>3. ASSUME NEW x PROVE x \in Elems(r) <=> x \in Elems(q) \/ x = t
    BY <2>1, <2>2 DEF Elems
  <2>4. Injective(q) /\ t \notin Elems(q) => Injective(r)
    BY <2>1, <2>2 DEF Elems, Injective
  <2> QED BY <2>1, <2>3, <2>4, Zenon
<1>2. CASE r = <<t>> \o q
  <2>1. r \in Seq(Threads) /\ Len(r) = Len(q) + 1 /\ DOMAIN r = 1..(Len(q) + 1) /\ DOMAIN q = 1..Len(q)
    BY <1>2
  <2>2. r[1] = t /\ \A i \in 1..Len(q) : r[i + 1] = q[i]
    BY <1>2
  <2>3. \A i \in 2..(Len(q) + 1) : i - 1 \in 1..Len(q) /\ r[i] = q[i - 1]
    BY <2>2
  <2>a. 1..(Len(q) + 1) = {1} \cup 2..(Len(q) + 1) /\ \A i \in 1..Len(q) : i + 1 \in 1..(Len(q) + 1)
    OBVIOUS
  <2>4. ASSUME NEW x PROVE x \in Elems(r) <=> x \in Elems(q) \/ x = t
    <3>1. x \in Elems(q) => x \in Elems(r)
      BY <2>1, <2>2, <2>a, Zenon DEF Elems
    <3>2. t \in Elems(r)
      BY <2>1, <2>2, <2>a, Zenon DEF Elems
    <3>3. ASSUME x \in Elems(r) PROVE x \in Elems(q) \/ x = t
      <4>1. PICK i \in 1..(Len(q) + 1) : x = r[i]
        BY <2>1, <3>3 DEF Elems
      <4>2. CASE i \in 2..(Len(q) + 1)
        BY <2>1, <2>3, <4>1, <4>2, Zenon DEF Elems
      <4> QED BY <2>2, <2>a, <4>1, <4>2, Zenon
    <3> QED BY <3>1, <3>2, <3>3, Zenon
  <2>5. ASSUME Injective(q), t \notin Elems(q) PROVE Injective(r)
    <3> SUFFICES ASSUME NEW i \in 1..(Len(q) + 1), NEW j \in 1..(Len(q) + 1), r[i] = r[j]
                 PROVE  i = j
      BY <2>1, Zenon DEF Injective
    <3>1. \A k \in 1..Len(q) : q[k] # t
      BY <2>5, <2>1, Zenon DEF Elems
    <3>2. i = 1 <=> j = 1
      BY <2>2, <2>3, <2>a, <3>1, Zenon
    <3>3. CASE i # 1 /\ j # 1
      <4>1. i \in 2..(Len(q) + 1) /\ j \in 2..(Len(q) + 1)
        BY <2>a, <3>3, Zenon
      <4>2. q[i - 1] = q[j - 1] /\ i - 1 \in 1..Len(q) /\ j - 1 \in 1..Len(q)
        BY <2>3, <4>1, Zenon
      <4>3. i - 1 = j - 1
        BY <2>1, <2>5, <4>2, Zenon DEF Injective
      <4> QED BY <4>1, <4>3
    <3> QED BY <3>2, <3>3, Zenon
  <2> QED BY <2>1, <2>4, <2>5
<1> QED BY <1>1, <1>2, Zenon

\* Popping the run queue removes its head, and only that.
LEMMA PoppedQueue ==
    ASSUME NEW q \in Seq(Threads), q # <<>>, Injective(q)
    PROVE  /\ Head(q) \in Elems(q) /\ Head(q) \in Threads
           /\ Tail(q) \in Seq(Threads)
           /\ Elems(Tail(q)) = Elems(q) \ {Head(q)}
           /\ Injective(Tail(q))
<1>1. Len(q) \in Nat \ {0} /\ DOMAIN q = 1..Len(q) /\ Head(q) = q[1] /\ q[1] \in Threads
  OBVIOUS
<1>2. /\ Tail(q) \in Seq(Threads) /\ DOMAIN Tail(q) = 1..(Len(q) - 1)
      /\ \A i \in 1..(Len(q) - 1) : Tail(q)[i] = q[i + 1]
  BY <1>1
<1>3. Elems(Tail(q)) = Elems(q) \ {Head(q)}
  <2>1. \A i \in 2..Len(q) : i - 1 \in 1..(Len(q) - 1) /\ Tail(q)[i - 1] = q[i]
    BY <1>1, <1>2
  <2>2. ASSUME NEW x, x \in Elems(Tail(q)) PROVE x \in Elems(q) /\ x # q[1]
    <3>1. PICK i \in 1..(Len(q) - 1) : x = q[i + 1]
      BY <1>2, <2>2, Zenon DEF Elems
    <3>2. i + 1 \in 1..Len(q) /\ 1 \in 1..Len(q) /\ i + 1 # 1
      BY <1>1
    <3> QED BY <1>1, <3>1, <3>2, Zenon DEF Elems, Injective
  <2>3. ASSUME NEW x, x \in Elems(q), x # q[1] PROVE x \in Elems(Tail(q))
    <3>1. PICK i \in 1..Len(q) : x = q[i]
      BY <1>1, <2>3, Zenon DEF Elems
    <3>2. i \in 2..Len(q)
      BY <1>1, <2>3, <3>1
    <3> QED BY <1>2, <2>1, <3>1, <3>2, ZenonT(30) DEF Elems
  <2> QED BY <1>1, <2>2, <2>3, Zenon
<1>4. Injective(Tail(q))
  BY <1>1, <1>2 DEF Injective
<1>5. Head(q) \in Elems(q)
  BY <1>1 DEF Elems
<1> QED BY <1>1, <1>2, <1>3, <1>4, <1>5, Zenon

\* Being queued is being an element of the run queue.
LEMMA QueuedElems ==
    /\ \A t : Queued(t) <=> t \in Elems(runqueue)
    /\ QueueInjective <=> Injective(runqueue)
    /\ \A t : Queued(t)' <=> t \in Elems(runqueue')
    /\ QueueInjective' <=> Injective(runqueue')
BY Zenon DEF Queued, Elems, QueueInjective, Injective

\* The current thread moves from the hands of its CPU to the queue.
LEMMA PushFrontInv ==
    ASSUME Inv, NEW c \in CPUs, PushFront(c)
    PROVE  Inv'
<1> DEFINE t == me[c]
<1> USE Constants DEF PushFront, push_front, At, Goto, threadVars, objectVars, cpuVars
<1>1. t \in Threads /\ Holds(c, t) /\ current_thread[c] = t
  BY Zenon DEF Inv, Types, PcOK, Holds, MePcs
<1>2. state[t] \in {"Runnable", "Terminated"}
  BY <1>1, HeldNotBlocked, Zenon
<1>3. ~Queued(t) /\ \A d \in CPUs : Holds(d, t) => d = c
  BY <1>1, Zenon DEF Inv, HoldsUnique
<1>4. PcOK'
  BY <1>1 DEF Inv, Types, PcOK, MePcs, NoMePcs, ArgPcs, NoCurrentPcs, SupercallPcs
<1>5. OnlyCpu(c)
  BY Zenon DEF Inv, Types, OnlyCpu
<1>6. CASE CanReserve
  <2>1. /\ runqueue' \in Seq(Threads)
        /\ \A u \in Threads : Queued(u)' <=> Queued(u) \/ u = t
        /\ QueueInjective'
    <3>1. runqueue' = <<t>> \o runqueue /\ runqueue \in Seq(Threads)
      BY <1>6, Zenon DEF Inv, Types
    <3>2. Injective(runqueue) /\ t \notin Elems(runqueue)
      BY <1>3, QueuedElems, Zenon DEF Inv
    <3>3. runqueue' \in Seq(Threads) /\ Elems(runqueue') = Elems(runqueue) \cup {t} /\ Injective(runqueue')
      BY <1>1, <3>1, <3>2, PushedQueue, Zenon
    <3> QED BY <3>3, QueuedElems, Zenon
  <2>2. Types'
    BY <1>6, <2>1, Zenon DEF Inv, Types, Labels
  <2>3. \A u \in Threads :
          /\ Pushed(u)' <=> Pushed(u)
          /\ \A d \in CPUs : Holds(d, u)' <=> Holds(d, u) /\ d # c
          /\ Holds(c, u) => u = t
    BY <1>6 DEF Inv, Types, Pushed, Holds
  <2>4. LockOK'
    BY <1>5, <1>6, LockKept, ZenonT(30) DEF Inv, Types, LockPcs
  <2>5. BornOK'
    BY <1>1, <1>2, <2>1 DEF Inv, Types, BornOK
  <2>6. HoldsUnique'
    BY <1>3, <2>1, <2>3, SMTT(15) DEF Inv, HoldsUnique
  <2>7. TokenOK'
    BY <1>1, <1>2, <1>5, <2>1, <2>3 DEF Inv, TokenOK, OnlyCpu
  <2> QED BY <1>4, <2>1, <2>2, <2>4, <2>5, <2>6, <2>7, Zenon DEF Inv
<1>7. CASE ~CanReserve
  <2>1. Types'
    BY <1>7, Zenon DEF Inv, Types, Labels, StoppedPcs, OomPcs
  <2>2. BornOK'
    BY <1>7 DEF Inv, Types, BornOK, Queued
  <2>3. CalmStep(c)
    BY <1>1, <1>2, <1>7 DEF Inv, Types, CalmStep, Holds, LockPcs
  <2> QED BY <1>4, <1>5, <2>1, <2>2, <2>3, Calm, Zenon DEF Inv
<1> QED BY <1>6, <1>7, Zenon

\* The first thread of the queue moves to the hands of a CPU.
LEMMA PickInv ==
    ASSUME Inv, NEW c \in CPUs, Pick(c)
    PROVE  Inv'
<1> USE Constants DEF Pick, ReleaseCurrent, At, Goto, threadVars, objectVars, cpuVars
<1>1. OnlyCpu(c)
  BY DEF Inv, Types, OnlyCpu
<1>2. PcOK'
  <2>1. /\ arg'[c] = arg[c]
        /\ \/ pc'[c] = "halted" /\ current_thread'[c] = NoThread /\ me'[c] = me[c]
           \/ pc'[c] = "check" /\ me'[c] \in Threads
    <3>1. runqueue # <<>> => Head(runqueue) \in Threads
      BY DEF Inv, Types
    <3> QED BY <3>1 DEF Inv, Types
  <2>2. pc[c] = "pick"
    BY Zenon
  <2> SUFFICES ASSUME NEW d \in CPUs
               PROVE  /\ pc'[d] \in MePcs => me'[d] # NoThread
                      /\ pc'[d] \in NoMePcs => me'[d] = NoThread
                      /\ pc'[d] \in {"user", "exception"} => current_thread'[d] # NoThread
                      /\ pc'[d] \in NoCurrentPcs => current_thread'[d] = NoThread
                      /\ pc'[d] \in {"requeue", "push_front", "push_front_oom"} =>
                            current_thread'[d] = me'[d]
                      /\ pc'[d] \in ArgPcs <=> arg'[d] # NoThread
    BY Zenon DEF PcOK
  <2>3. CASE d # c
    BY <1>1, <2>3 DEF Inv, PcOK, OnlyCpu
  <2>4. arg[c] = NoThread /\ me[c] = NoThread
    BY <2>2, Zenon DEF Inv, PcOK, MePcs, NoMePcs, ArgPcs, NoCurrentPcs, SupercallPcs
  <2>5. CASE d = c
    BY <2>1, <2>4, <2>5, Zenon DEF MePcs, NoMePcs, ArgPcs, NoCurrentPcs, SupercallPcs
  <2> QED BY <2>3, <2>5, Zenon
<1>3. CASE runqueue = <<>>
  <2>1. Types'
    <3>1. refs' \in [Threads -> Int]
      BY <1>3, RefsType, SMTT(15) DEF Inv, Types
    <3> QED BY <1>3, <3>1, Zenon DEF Inv, Types, Labels, StoppedPcs
  <2>2. BornOK'
    BY <1>3 DEF Inv, Types, BornOK, Queued
  <2>3. CalmStep(c)
    BY <1>3 DEF Inv, Types, CalmStep, Holds, LockPcs
  <2> QED BY <1>1, <1>2, <2>1, <2>2, <2>3, Calm, Zenon DEF Inv
<1>4. CASE runqueue # <<>>
  <2> DEFINE t == Head(runqueue)
  <2>1. /\ t \in Threads /\ Queued(t)
        /\ runqueue' \in Seq(Threads)
        /\ \A u \in Threads : Queued(u)' <=> Queued(u) /\ u # t
        /\ QueueInjective'
    BY <1>4, PoppedQueue, QueuedElems, Zenon DEF Inv, Types
  <2>2. Types'
    <3>1. pc' \in [CPUs -> Labels]
      BY <1>4, Zenon DEF Inv, Types, Labels
    <3>2. me' \in [CPUs -> Threads \cup {NoThread}]
      BY <1>4, <2>1, Zenon DEF Inv, Types
    <3>3. UNCHANGED <<state, in_upcalls, mutable, refs, user_data, arcs, current_thread, arg>>
      BY <1>4, Zenon
    <3> QED BY <2>1, <3>1, <3>2, <3>3, Zenon DEF Inv, Types
  <2>3. \A u \in Threads :
          /\ Pushed(u)' <=> Pushed(u)
          /\ \A d \in CPUs : Holds(d, u)' <=> Holds(d, u) \/ (d = c /\ u = t)
    BY <1>4, <2>1 DEF Inv, Types, Pushed, Holds
  <2>4. \A d \in CPUs : ~Holds(d, t)
    BY <2>1, Zenon DEF Inv, HoldsUnique
  <2>5. LockOK'
    BY <1>1, <1>4, LockKept, ZenonT(30) DEF Inv, Types, LockPcs
  <2>6. BornOK'
    BY <1>4, <2>1 DEF Inv, Types, BornOK
  <2>7. HoldsUnique'
    BY <2>1, <2>3, <2>4 DEF Inv, HoldsUnique
  <2>8. pc'[c] = "check"
    BY <1>4, Zenon DEF Inv, Types
  <2>9. TokenOK'
    BY <1>1, <2>1, <2>3, <2>4, <2>8, SMTT(15) DEF Inv, TokenOK, OnlyCpu
  <2> QED BY <1>2, <2>1, <2>2, <2>5, <2>6, <2>7, <2>9, Zenon DEF Inv
<1> QED BY <1>3, <1>4, Zenon

\* Taking the lock of a blocked thread.
LEMMA LockTaken ==
    ASSUME Inv, NEW c \in CPUs, OnlyCpu(c), arg[c] \in Threads,
           mutable[arg[c]] = NoCpu, state[arg[c]] = "Blocked",
           mutable' = [mutable EXCEPT ![arg[c]] = c], arg' = arg, state' = state,
           pc[c] \notin LockPcs, pc'[c] \in LockPcs
    PROVE  LockOK'
<1>1. ASSUME NEW d \in CPUs, pc'[d] \in LockPcs
      PROVE  mutable'[arg'[d]] = d /\ state'[arg'[d]] = "Blocked"
  <2>1. CASE d = c
    BY <2>1, Zenon DEF Inv, Types
  <2>2. CASE d # c
    <3>1. pc[d] \in LockPcs
      BY <1>1, <2>2, Zenon DEF OnlyCpu
    <3>2. arg[d] \in Threads /\ mutable[arg[d]] = d /\ state[arg[d]] = "Blocked"
      BY <3>1 DEF Inv, Types, PcOK, LockOK, LockPcs, ArgPcs, SupercallPcs
    <3> QED BY <3>2, Constants, Zenon DEF Inv, Types
  <2> QED BY <2>1, <2>2, Zenon
<1>2. ASSUME NEW t \in Threads, mutable'[t] # NoCpu
      PROVE  arg'[mutable'[t]] = t /\ pc'[mutable'[t]] \in LockPcs
  <2>1. CASE t = arg[c]
    BY <2>1, Zenon DEF Inv, Types
  <2>2. CASE t # arg[c]
    <3>1. mutable'[t] = mutable[t]
      BY <2>2, Zenon DEF Inv, Types
    <3>2. mutable[t] \in CPUs /\ arg[mutable[t]] = t /\ pc[mutable[t]] \in LockPcs
      BY <1>2, <3>1, SMTT(15) DEF Inv, Types, LockOK
    <3> QED BY <3>1, <3>2, Zenon DEF OnlyCpu
  <2> QED BY <2>1, <2>2, Zenon
<1> QED BY <1>1, <1>2, Zenon DEF LockOK

\* unblock puts a blocked thread, which has no place, at the end of the queue.
LEMMA UnblockInv ==
    ASSUME Inv, NEW c \in CPUs, Unblock(c)
    PROVE  Inv'
<1> DEFINE t == arg[c]
<1> USE Constants DEF Unblock, SupercallReturn, ServerPc, LockFree, push_back, At, Goto, threadVars, objectVars, cpuVars
<1>1. t \in Threads /\ mutable[t] = NoCpu /\ pc[c] = "unblock"
  BY DEF Inv, Types, PcOK, ArgPcs, SupercallPcs
<1>2. ~Pushed(t)
  <2> HIDE DEF Unblock, SupercallReturn, ServerPc, LockFree, push_back
  <2>1. LockOK
    BY Zenon DEF Inv
  <2> QED BY <1>1, <2>1 DEF LockOK, Pushed, LockPcs
<1>3. OnlyCpu(c)
  BY DEF Inv, Types, OnlyCpu
<1>4. PcOK'
  BY DEF Inv, Types, PcOK, MePcs, NoMePcs, ArgPcs, NoCurrentPcs, SupercallPcs
<1>5. refs' \in [Threads -> Int]
  <2>1. refs' \in {Clone(refs, t), Drop(refs, t)} /\ refs \in [Threads -> Int]
    BY Zenon DEF Inv, Types
  <2> HIDE DEF Unblock, SupercallReturn
  <2> QED BY <1>1, <2>1, RefsType
<1>6. CASE state[t] # "Blocked"
  <2>1. Types'
    BY <1>5, <1>6, ZenonT(30) DEF Inv, Types, Labels, ServerPcs
  <2>2. BornOK'
    BY <1>6, SMTT(15) DEF Inv, Types, BornOK, Queued
  <2>3. CalmStep(c)
    BY <1>6, HeldNotBlocked, SMTT(15) DEF Inv, Types, CalmStep, Holds, LockPcs
  <2> QED BY <1>3, <1>4, <2>1, <2>2, <2>3, Calm, ZenonT(30) DEF Inv
<1>7. CASE state[t] = "Blocked" /\ CanReserve
  <2>1. ~Queued(t) /\ \A d \in CPUs : ~Holds(d, t)
    BY <1>1, <1>2, <1>7, Zenon DEF Inv, TokenOK
  <2>2. /\ runqueue' \in Seq(Threads)
        /\ \A u \in Threads : Queued(u)' <=> Queued(u) \/ u = t
        /\ QueueInjective'
    <3>1. runqueue' = Append(runqueue, t) /\ runqueue \in Seq(Threads)
      BY <1>7, Zenon DEF Inv, Types
    <3>2. Injective(runqueue) /\ t \notin Elems(runqueue)
      BY <2>1, QueuedElems, Zenon DEF Inv
    <3>3. runqueue' \in Seq(Threads) /\ Elems(runqueue') = Elems(runqueue) \cup {t} /\ Injective(runqueue')
      BY <1>1, <3>1, <3>2, PushedQueue, Zenon
    <3> QED BY <3>3, QueuedElems
  <2>3. Types'
    <3>1. mutable' = [mutable EXCEPT ![t] = c] /\ pc' \in [CPUs -> Labels]
      BY <1>7, Zenon DEF Inv, Types, Labels
    <3> QED BY <1>5, <1>7, <2>2, <3>1 DEF Inv, Types
  <2>4. LockOK'
    BY <1>1, <1>3, <1>7, LockTaken, Zenon DEF Inv, Types, LockPcs
  <2>5. BornOK'
    BY <1>7, <2>2 DEF Inv, Types, BornOK
  <2>6. \A u \in Threads :
          /\ Pushed(u)' <=> Pushed(u) \/ u = t
          /\ \A d \in CPUs : Holds(d, u)' <=> Holds(d, u)
    BY <1>1, <1>7 DEF Inv, Types, Pushed, Holds
  <2>7. HoldsUnique'
    <3>1. HoldsUnique
      BY ZenonT(30) DEF Inv
    <3> HIDE DEF Unblock, SupercallReturn, Inv
    <3> QED BY <2>1, <2>2, <2>6, <3>1 DEF HoldsUnique
  <2>8. \A d \in CPUs : pc[d] = "check" => pc'[d] = "check"
    BY <1>1, <1>3, Zenon DEF OnlyCpu
  <2>9. TokenOK'
    BY <1>7, <2>2, <2>6, <2>8, ZenonT(30) DEF Inv, TokenOK
  <2> QED BY <1>4, <2>2, <2>3, <2>4, <2>5, <2>7, <2>9, Zenon DEF Inv
<1>8. CASE state[t] = "Blocked" /\ ~CanReserve
  <2>1. /\ pc' = [pc EXCEPT ![c] = "unblock_oom"] /\ mutable' = [mutable EXCEPT ![t] = c]
        /\ UNCHANGED <<state, in_upcalls, user_data, arcs, runqueue, cpuVars>>
    BY <1>8, Zenon
  <2> HIDE DEF Unblock, SupercallReturn
  <2>2. Types'
    <3>1. pc' \in [CPUs -> Labels]
      BY <2>1, Zenon DEF Inv, Types, Labels, StoppedPcs, OomPcs
    <3> QED BY <1>1, <1>5, <2>1, <3>1 DEF Inv, Types
  <2>3. LockOK'
    BY <1>1, <1>3, <1>8, <2>1, LockTaken, Zenon DEF Inv, Types, LockPcs
  <2>4. BornOK'
    BY <1>8, <2>1, Zenon DEF Inv, BornOK, Queued
  <2>5. QueueInjective'
    BY <2>1, Zenon DEF Inv, QueueInjective
  <2>6. \A u \in Threads :
          /\ Queued(u)' <=> Queued(u)
          /\ Pushed(u)' <=> Pushed(u)
          /\ \A d \in CPUs : Holds(d, u)' <=> Holds(d, u)
    BY <1>1, <2>1 DEF Inv, Types, Queued, Pushed, Holds
  <2>7. HoldsUnique'
    BY <2>6, Zenon DEF Inv, HoldsUnique
  <2>8. \A d \in CPUs : pc[d] = "check" => pc'[d] = "check"
    BY <1>1, <1>3, Zenon DEF OnlyCpu
  <2>9. TokenOK'
    BY <2>1, <2>6, <2>8, ZenonT(30) DEF Inv, TokenOK
  <2> QED BY <1>4, <2>2, <2>3, <2>4, <2>5, <2>7, <2>9, Zenon DEF Inv
<1> QED BY <1>6, <1>7, <1>8, Zenon

\* The second half of unblock: the thread already has its place.
LEMMA UnblockSetInv ==
    ASSUME Inv, NEW c \in CPUs, UnblockSet(c)
    PROVE  Inv'
<1> DEFINE t == arg[c]
<1> USE Constants DEF UnblockSet, SupercallReturn, ServerPc, At, Goto, threadVars, objectVars, cpuVars
<1>1. t \in Threads /\ mutable[t] = c /\ pc[c] = "unblock_set" /\ state[t] = "Blocked"
  BY SMTT(15) DEF Inv, Types, PcOK, LockOK, LockPcs, ArgPcs, SupercallPcs
<1>2. Pushed(t)
  BY <1>1, Zenon DEF Pushed
<1>3. OnlyCpu(c)
  BY Zenon DEF Inv, Types, OnlyCpu
<1>4. PcOK'
  BY DEF Inv, Types, PcOK, MePcs, NoMePcs, ArgPcs, NoCurrentPcs, SupercallPcs
<1>5. Types'
  <2>1. refs' \in [Threads -> Int]
    BY <1>1, RefsType, ZenonT(30) DEF Inv, Types
  <2> QED BY <1>1, <2>1, Zenon DEF Inv, Types, Labels, ServerPcs, ThreadStates
<1>6. LockOK'
  BY <1>1, SMTT(15) DEF Inv, Types, LockOK, LockPcs
<1>7. BornOK'
  BY <1>1, SMTT(15) DEF Inv, Types, BornOK, Queued
<1>8. QueueInjective'
  BY Zenon DEF Inv, QueueInjective
<1>9. \A u \in Threads :
        /\ Queued(u)' <=> Queued(u)
        /\ Pushed(u)' => Pushed(u)
        /\ u # t /\ Pushed(u) => Pushed(u)'
        /\ \A d \in CPUs : Holds(d, u)' <=> Holds(d, u)
  <2>1. \A u \in Threads, d \in CPUs : Holds(d, u)' <=> Holds(d, u)
    BY <1>1, Zenon DEF Inv, Types, Holds
  <2>2. \A u \in Threads : (Pushed(u)' => Pushed(u)) /\ (u # t /\ Pushed(u) => Pushed(u)')
    BY <1>1, Zenon DEF Inv, Types, Pushed
  <2> QED BY <2>1, <2>2, ZenonT(30) DEF Queued
<1>10. HoldsUnique'
  BY <1>9, ZenonT(30) DEF Inv, HoldsUnique
<1>11. \A d \in CPUs : pc[d] = "check" => pc'[d] = "check"
  BY <1>1, <1>3, Zenon DEF OnlyCpu
<1>12. TokenOK'
  BY <1>1, <1>2, <1>9, <1>11 DEF Inv, Types, TokenOK
<1> QED BY <1>4, <1>5, <1>6, <1>7, <1>8, <1>10, <1>12, SMTT(15) DEF Inv

\* The lock of the context accesses.
LEMMA ContextLockInv ==
    ASSUME Inv, NEW c \in CPUs, ContextLock(c)
    PROVE  Inv'
<1> DEFINE t == arg[c]
<1> USE Constants DEF ContextLock, ContextAllowed, SupercallReturn, ServerPc, LockFree, At, Goto, threadVars, objectVars, cpuVars
<1>1. t \in Threads /\ mutable[t] = NoCpu /\ pc[c] = "context"
  BY DEF Inv, Types, PcOK, ArgPcs, SupercallPcs
<1>2. OnlyCpu(c)
  BY Zenon DEF Inv, Types, OnlyCpu
<1>3. PcOK'
  BY DEF Inv, Types, PcOK, MePcs, NoMePcs, ArgPcs, NoCurrentPcs, SupercallPcs
<1>4. Types'
  <2>1. refs' \in [Threads -> Int]
    <3>1. refs' \in {refs, Drop(refs, t)} /\ refs \in [Threads -> Int]
      BY Zenon DEF Inv, Types
    <3> HIDE DEF ContextLock, SupercallReturn
    <3> QED BY <1>1, <3>1, RefsType
  <2>2. mutable' \in [Threads -> CPUs \cup {NoCpu}]
    BY <1>1, Zenon DEF Inv, Types
  <2>3. pc' \in [CPUs -> Labels] /\ arg' \in [CPUs -> Threads \cup {NoThread}]
    BY ZenonT(30) DEF Inv, Types, Labels, ServerPcs
  <2> QED BY <2>1, <2>2, <2>3, Zenon DEF Inv, Types
<1>5. BornOK'
  BY SMTT(15) DEF Inv, Types, BornOK, Queued
<1>6. CASE state[t] # "Blocked"
  <2>1. CalmStep(c)
    BY <1>6 DEF Inv, Types, CalmStep, Holds, LockPcs
  <2> QED BY <1>2, <1>3, <1>4, <1>5, <2>1, Calm, ZenonT(30) DEF Inv
<1>7. CASE state[t] = "Blocked"
  <2>1. LockOK'
    BY <1>1, <1>2, <1>7, LockTaken, ZenonT(30) DEF Inv, Types, LockPcs
  <2>2. \A u \in Threads :
          /\ Queued(u)' <=> Queued(u)
          /\ Pushed(u)' <=> Pushed(u)
          /\ \A d \in CPUs : Holds(d, u)' <=> Holds(d, u)
    BY <1>1, <1>7 DEF Inv, Types, Queued, Pushed, Holds
  <2>3. \A d \in CPUs : pc[d] = "check" => pc'[d] = "check"
    BY <1>1, <1>2, Zenon DEF OnlyCpu
  <2> QED BY <1>3, <1>4, <1>5, <2>1, <2>2, <2>3, ZenonT(30)
          DEF Inv, QueueInjective, HoldsUnique, TokenOK
<1> QED BY <1>6, <1>7, Zenon

\* Releasing the lock after an access to the saved context keeps the invariant.
LEMMA ContextUnlockInv ==
    ASSUME Inv, NEW c \in CPUs, ContextUnlock(c)
    PROVE  Inv'
<1> DEFINE t == arg[c]
<1> USE Constants DEF ContextUnlock, SupercallReturn, ServerPc, At, Goto, threadVars, objectVars, cpuVars
<1>1. t \in Threads /\ mutable[t] = c /\ pc[c] = "context_access"
  BY DEF Inv, Types, PcOK, LockOK, LockPcs, ArgPcs, SupercallPcs
<1>2. OnlyCpu(c)
  BY Zenon DEF Inv, Types, OnlyCpu
<1>3. PcOK'
  BY DEF Inv, Types, PcOK, MePcs, NoMePcs, ArgPcs, NoCurrentPcs, SupercallPcs
<1>4. Types'
  <2>1. refs' \in [Threads -> Int]
    BY <1>1, RefsType, ZenonT(30) DEF Inv, Types
  <2> QED BY <1>1, <2>1, Zenon DEF Inv, Types, Labels, ServerPcs
<1>5. BornOK'
  BY DEF Inv, Types, BornOK, Queued
<1>6. LockOK'
  BY <1>1, SMTT(15) DEF Inv, Types, LockOK, LockPcs
<1>7. \A u \in Threads :
        /\ Queued(u)' <=> Queued(u)
        /\ Pushed(u)' <=> Pushed(u)
        /\ \A d \in CPUs : Holds(d, u)' <=> Holds(d, u)
  BY <1>1 DEF Inv, Types, Queued, Pushed, Holds
<1>8. \A d \in CPUs : pc[d] = "check" => pc'[d] = "check"
  BY <1>1, <1>2, Zenon DEF OnlyCpu
<1> QED BY <1>3, <1>4, <1>5, <1>6, <1>7, <1>8, ZenonT(30)
        DEF Inv, QueueInjective, HoldsUnique, TokenOK

-------------------------------------------------------------------------------

\* No thread exists when the BSP enters boot(), so the invariant holds.
LEMMA InitInv == Init => Inv
<1> SUFFICES ASSUME Init PROVE Inv
  BY Zenon
<1> USE Constants DEF Init
<1>1. Types
  BY DEF Types, ThreadStates, UserDataStates, ArcHolders, Labels, ServerPcs
<1>2. PcOK
  BY Zenon DEF PcOK, MePcs, NoMePcs, ArgPcs, NoCurrentPcs, SupercallPcs
<1>3. LockOK
  BY Zenon DEF LockOK, LockPcs
<1>4. ~\E t : Queued(t)
  BY DEF Queued
<1>5. \A t \in Threads, c \in CPUs : ~Holds(c, t) /\ ~Pushed(t)
  BY Zenon DEF Holds, Pushed
<1>6. BornOK /\ QueueInjective
  BY <1>4 DEF BornOK, QueueInjective
<1>7. HoldsUnique /\ TokenOK
  BY <1>4, <1>5, Zenon DEF HoldsUnique, TokenOK, Pushed
<1> QED BY <1>1, <1>2, <1>3, <1>6, <1>7, Zenon DEF Inv

\* Every step, and stuttering, keeps the invariant.
LEMMA NextInv == Inv /\ [Next]_vars => Inv'
<1> SUFFICES ASSUME Inv, [Next]_vars PROVE Inv'
  BY Zenon
<1>1. ASSUME NEW c \in CPUs, KernelStep(c) \/ ServerStep(c) \/ UserStep(c) PROVE Inv'
  BY <1>1, Zenon, SyscallEntryInv, SyscallBlockInv, HandlerReturnInv, SyscallUnpinInv,
     SyscallReclaimInv, SyscallDropInv, InterruptInv,
     UnhandledExceptionInv, ReturnToUserInv, RequeueInv, PushFrontInv,
     PickInv, CheckInv, EnterInv, BootDoneInv, CreateFillInv, UnblockInv,
     UnblockSetInv, TerminateInv, TerminateReclaimInv, ContextLockInv,
     ContextUnlockInv, CreateInv, ServerDropArcInv, SupercallInv
     DEF KernelStep, ServerStep, UserStep
<1>2. CASE UNCHANGED vars
  <2>1. UNCHANGED <<state, in_upcalls, mutable, refs, user_data, arcs, runqueue, current_thread, me, arg, pc>>
    BY <1>2, Zenon DEF vars, threadVars, objectVars, cpuVars
  <2>2. Types' /\ PcOK' /\ LockOK'
    BY <2>1, Zenon DEF Inv, Types, PcOK, LockOK
  <2>3. BornOK' /\ QueueInjective'
    BY <2>1, ZenonT(30) DEF Inv, BornOK, QueueInjective, Queued
  <2>4. HoldsUnique' /\ TokenOK'
    <3>1. \A t \in Threads :
            /\ Queued(t)' <=> Queued(t)
            /\ Pushed(t)' <=> Pushed(t)
            /\ \A c \in CPUs : Holds(c, t)' <=> Holds(c, t)
      BY <2>1, Zenon DEF Holds, Queued, Pushed
    <3> QED BY <2>1, <3>1, Zenon DEF Inv, HoldsUnique, TokenOK
  <2> QED BY <2>2, <2>3, <2>4, Zenon DEF Inv
<1> QED BY <1>1, <1>2, Zenon DEF Next, AllStopped

\* The inductive invariant holds in every reachable state: a runnable thread sits in one
\* place, the run queue or one CPU, and a locked thread is blocked.
THEOREM Invariance == Spec => []Inv
BY InitInv, NextInv, PTL DEF Spec

\* "No other CPUs can run the same thread": return_to_user, handle_syscall and unblock
\* never give a thread a second place, however the CPUs interleave.
THEOREM OwnerUnique == Spec => []OneOwner
<1>1. Inv => OneOwner
  BY Zenon DEF Inv, OneOwner, QueueInjective, HoldsUnique
<1> QED BY <1>1, Invariance, PTL

\* No runnable thread is lost by unblock, is_runnable and the scheduler.
THEOREM NothingLost == Spec => []NoLostThread
<1>1. Inv => NoLostThread
  BY Zenon DEF Inv, TokenOK, NoLostThread
<1> QED BY <1>1, Invariance, PTL

\* read_context and write_context have the register file to themselves.
THEOREM ContextSafe == Spec => []ArchExclusive
<1>1. Inv => ArchExclusive
  <2> SUFFICES ASSUME Inv, NEW t \in Threads, NEW c \in CPUs, NEW d \in CPUs,
                      pc[c] = "context_access", arg[c] = t
               PROVE  ~Runs(d, t) /\ (pc[d] = "context_access" /\ arg[d] = t => d = c)
    BY Zenon DEF ArchExclusive
  <2>1. mutable[t] = c /\ state[t] = "Blocked"
    BY Zenon DEF Inv, LockOK, LockPcs
  <2>2. ~Runs(d, t)
    BY <2>1, Zenon DEF Inv, TokenOK, Runs, Holds
  <2>3. pc[d] = "context_access" /\ arg[d] = t => d = c
    BY <2>1 DEF Inv, LockOK, LockPcs
  <2> QED BY <2>2, <2>3, Zenon
<1> QED BY <1>1, Invariance, PTL

-------------------------------------------------------------------------------

\* When every CPU is idle the queue is empty.
QueueDrained == (\A c \in CPUs : pc[c] = "halted") => runqueue = <<>>

\* Only a failed assert leads to "panic", only a push runs out of memory, which no step
\* gets over, only Pick leads to "halted", and only Check and Enter to user mode.
LEMMA StopsOnlyThere ==
    ASSUME Inv, NEW c \in CPUs, KernelStep(c) \/ ServerStep(c) \/ UserStep(c)
    PROVE  \A d \in CPUs :
            /\ pc'[d] = "panic" /\ ~SyscallBlock(c) => pc[d] = "panic"
            /\ pc'[d] \in OomPcs /\ ~PushFront(c) /\ ~Unblock(c) => pc[d] \in OomPcs
            /\ pc[c] \notin OomPcs
            /\ d # c => pc'[d] = pc[d]
            /\ ~Pick(c) => pc'[c] # "halted"
            /\ ~Check(c) => pc'[c] # "enter"
            /\ ~Enter(c) => pc'[c] # "user"
<1> USE DEF Goto, At, Inv, Types, OomPcs
<1>1. CASE SyscallBlock(c) \/ SyscallUnpin(c) \/ SyscallReclaim(c) \/ SyscallDrop(c)
  BY <1>1, SMTT(15) DEF SyscallBlock, SyscallUnpin, SyscallReclaim, SyscallDrop
<1>2. CASE ReturnToUser(c) \/ Requeue(c) \/ PushFront(c) \/ Pick(c) \/ Check(c) \/ Enter(c)
  BY <1>2, SMTT(15) DEF ReturnToUser, Requeue, PushFront, Pick, Check, Enter
<1>3. CASE CreateFill(c) \/ Unblock(c) \/ UnblockSet(c) \/ Terminate(c) \/ TerminateReclaim(c)
           \/ ContextLock(c) \/ ContextUnlock(c)
  BY <1>3, SMTT(15) DEF CreateFill, Unblock, UnblockSet, Terminate, TerminateReclaim, ContextLock,
     ContextUnlock, SupercallReturn, ServerPc
<1>4. CASE ServerStep(c)
  BY <1>4 DEF ServerStep, HandlerReturn, BootDone, Create, ServerDropArc, Supercall, InServer,
     ServerPcs
<1>5. CASE UserStep(c)
  BY <1>5 DEF UserStep, SyscallEntry, Interrupt, UnhandledException
<1> HIDE DEF Goto, At, Inv, Types, OomPcs
<1> QED BY <1>1, <1>2, <1>3, <1>4, <1>5, ZenonT(30) DEF KernelStep

\* When the last CPU goes idle there is nothing to run: a CPU idles on an empty queue only.
THEOREM IdleSafe == Spec => []IdleMeansNoWork
<1>1. Init => QueueDrained
  BY Zenon DEF Init, QueueDrained
<1>2. Inv /\ QueueDrained /\ [Next]_vars => QueueDrained'
  <2> SUFFICES ASSUME Inv, QueueDrained, [Next]_vars, \A d \in CPUs : pc'[d] = "halted"
               PROVE  runqueue' = <<>>
    BY Zenon DEF QueueDrained
  <2>1. ASSUME NEW c \in CPUs, Pick(c) PROVE runqueue' = <<>>
    BY <2>1, Zenon DEF Pick, Goto, Inv, Types
  <2>2. ASSUME NEW c \in CPUs, KernelStep(c) \/ ServerStep(c) \/ UserStep(c), ~Pick(c)
        PROVE  FALSE
    BY <2>2, StopsOnlyThere, Zenon
  <2>3. CASE UNCHANGED vars
    BY <2>3, Zenon DEF vars, QueueDrained
  <2> QED BY <2>1, <2>2, <2>3, ZenonT(30) DEF Next, AllStopped
<1>3. Inv /\ QueueDrained => IdleMeansNoWork
  <2> SUFFICES ASSUME Inv, QueueDrained, \A c \in CPUs : pc[c] = "halted",
                      NEW t \in Threads, state[t] = "Runnable"
               PROVE  FALSE
    BY Zenon DEF IdleMeansNoWork
  <2>1. Queued(t) \/ \E c \in CPUs : Holds(c, t)
    BY Zenon DEF Inv, TokenOK
  <2>2. runqueue = <<>>
    BY Zenon DEF QueueDrained
  <2>3. ~Queued(t)
    BY <2>2 DEF Queued
  <2>4. \A c \in CPUs : ~Holds(c, t)
    BY Zenon DEF Holds
  <2> QED BY <2>1, <2>3, <2>4, Zenon
<1> QED BY <1>1, <1>2, <1>3, Invariance, PTL DEF Spec

\* With one CPU, a thread is stopped for good by terminate: is_runnable keeps it out of
\* user mode, and nothing can terminate it between that check and its next system call.
THEOREM StoppedForGood ==
    ASSUME CPUs = {Bsp}
    PROVE  Spec => []TerminatedNeverRuns
<1> DEFINE RunsRunnable ==
        \A t \in Threads, c \in CPUs : Runs(c, t) => state[t] = "Runnable"
<1>1. Init => RunsRunnable
  BY Zenon DEF Init, Runs
<1>2. Inv /\ RunsRunnable /\ [Next]_vars => RunsRunnable'
  <2> SUFFICES ASSUME Inv, RunsRunnable, [Next]_vars, NEW t \in Threads, NEW c \in CPUs, Runs(c, t)'
               PROVE  state'[t] = "Runnable"
    BY Zenon
  <2>1. CASE Check(c)
    BY <2>1, Zenon DEF Check, is_runnable, At, Goto, threadVars, Inv, Types, Runs
  <2>2. CASE Enter(c)
    BY <2>2, Zenon DEF Enter, At, Goto, threadVars, Inv, Types, Runs
  <2>3. CASE KernelStep(c) \/ ServerStep(c) \/ UserStep(c)
    <3>1. Check(c) \/ Enter(c)
      BY <2>3, StopsOnlyThere, Zenon DEF Runs
    <3> QED BY <2>1, <2>2, <3>1, Zenon
  <2>4. CASE UNCHANGED vars
    BY <2>4, Zenon DEF vars, threadVars, cpuVars, Runs
  <2> QED BY <2>3, <2>4, Zenon DEF Next, AllStopped
<1>3. RunsRunnable => TerminatedNeverRuns
  BY Zenon DEF TerminatedNeverRuns
<1> QED BY <1>1, <1>2, <1>3, Invariance, PTL DEF Spec

===============================================================================
