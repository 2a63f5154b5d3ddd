----------------------- MODULE KernelThreadUpcallProofs -----------------------
(***************************************************************************)
(* Proofs about the objects in KernelThread, on top of the invariant of    *)
(* KernelThreadProofs: the UserData of upcalls, the run queue's room and   *)
(* the reference counts.                                                   *)
(***************************************************************************)
EXTENDS KernelThreadProofs

-------------------------------------------------------------------------------
(* Upcalls: in_upcalls counts the handlers at work, so the UserData of a      *)
(* thread outlives them.                                                      *)

\* The CPUs whose handle_syscall has pinned t.
Pins(t) == {c \in CPUs : me[c] = t /\ pc[c] \in UpcallPcs \cup {"sys_unpin"}}

\* The life of the UserData: uninitialised while Upcall::new runs, initialised until the
\* one Terminated upcall, which nobody's pin precedes.
UpcallOf(t) ==
    /\ in_upcalls[t] = Cardinality(Pins(t))
    /\ user_data[t] = "none" <=> state[t] = "Unborn"
    /\ user_data[t] = "uninit" => state[t] = "Blocked" /\ arcs[t] = {}
    /\ user_data[t] = "freed" => state[t] = "Terminated" /\ Pins(t) = {}
    /\ \A c \in CPUs :
        /\ c \in Pins(t) => user_data[t] = "init"
        /\ arg[c] = t => (user_data[t] = "uninit" <=> pc[c] = "create")
        /\ Reclaims(c, t) =>
            /\ user_data[t] = "init" /\ state[t] = "Terminated" /\ Pins(t) = {}
            /\ \A d \in CPUs : Reclaims(d, t) => d = c
        /\ pc[c] = "create" /\ arg[c] = t =>
            \A d \in CPUs : pc[d] = "create" /\ arg[d] = t => d = c

UpcallOK == \A t \in Threads : UpcallOf(t)

-------------------------------------------------------------------------------

\* A step of c that neither pins nor unpins, leaves the UserData alone, begins no
\* Terminated upcall and changes the state of initialised threads only.
QuietStep(c) ==
    /\ in_upcalls' = in_upcalls /\ user_data' = user_data
    /\ pc'[c] # "create"
    /\ \A t \in Threads :
        /\ arcs'[t] \subseteq arcs[t]
        /\ c \in Pins(t)' <=> c \in Pins(t)
        /\ Reclaims(c, t)' => Reclaims(c, t)
        /\ arg'[c] = t => user_data[t] # "uninit"
        /\ \/ state'[t] = state[t]
           \/ /\ user_data[t] = "init" /\ state[t] # "Terminated"
              /\ state'[t] # "Unborn"

\* A quiet step keeps the upcall invariant: it changes no pin and no UserData.
LEMMA Quiet ==
    ASSUME Inv, UpcallOK, NEW c \in CPUs, OnlyCpu(c), QuietStep(c)
    PROVE  UpcallOK'
<1> SUFFICES ASSUME NEW t \in Threads PROVE UpcallOf(t)'
  BY Zenon DEF UpcallOK
<1>1. Pins(t)' = Pins(t)
  <2>1. \A d \in CPUs \ {c} : d \in Pins(t)' <=> d \in Pins(t)
    BY Zenon DEF OnlyCpu, Pins
  <2> QED BY <2>1 DEF QuietStep, Pins
<1>2. \A d \in CPUs : Reclaims(d, t)' => Reclaims(d, t)
  BY Zenon DEF OnlyCpu, QuietStep, Reclaims
<1>3. UpcallOf(t)
  BY Zenon DEF UpcallOK
<1>4. \A d \in CPUs : arg'[d] = t => (user_data'[t] = "uninit" <=> pc'[d] = "create")
  BY <1>3 DEF OnlyCpu, QuietStep, UpcallOf
<1>5. \A d, e \in CPUs : pc'[d] = "create" /\ arg'[d] = t /\ pc'[e] = "create" /\ arg'[e] = t => e = d
  BY <1>3 DEF OnlyCpu, QuietStep, UpcallOf
<1> QED BY <1>1, <1>2, <1>3, <1>4, <1>5, Zenon DEF QuietStep, UpcallOf

\* The steps that are quiet: they enter and leave the kernel, schedule, and wait for or
\* hold the lock of a thread.
LEMMA QuietSteps ==
    ASSUME Inv, UpcallOK, NEW c \in CPUs,
           \/ SyscallEntry(c) \/ HandlerReturn(c) \/ SyscallDrop(c) \/ Interrupt(c)
           \/ UnhandledException(c) \/ ReturnToUser(c) \/ Requeue(c) \/ PushFront(c)
           \/ Pick(c) \/ Check(c) \/ Enter(c) \/ BootDone(c)
           \/ Unblock(c) \/ ContextLock(c) \/ ContextUnlock(c)
    PROVE  UpcallOK'
<1> USE Constants DEF At, Goto, threadVars, objectVars, cpuVars
<1>1. CASE SyscallEntry(c)
  <2>1. OnlyCpu(c) /\ QuietStep(c)
    BY <1>1, ZenonT(60) DEF SyscallEntry, Inv, Types, OnlyCpu, QuietStep, Pins, UpcallPcs,
       SupercallPcs, Reclaims, UpcallOK, UpcallOf
  <2> QED BY <2>1, Quiet, Zenon
<1>2. CASE HandlerReturn(c)
  <2>1. OnlyCpu(c) /\ QuietStep(c)
    BY <1>2, ZenonT(60) DEF HandlerReturn, Inv, Types, OnlyCpu, QuietStep, Pins, UpcallPcs,
       SupercallPcs, Reclaims, UpcallOK, UpcallOf
  <2> QED BY <2>1, Quiet, Zenon
<1>3. CASE SyscallDrop(c)
  <2>1. OnlyCpu(c) /\ QuietStep(c)
    BY <1>3, ZenonT(60) DEF SyscallDrop, Inv, Types, OnlyCpu, QuietStep, Pins, UpcallPcs,
       SupercallPcs, Reclaims, UpcallOK, UpcallOf
  <2> QED BY <2>1, Quiet, Zenon
<1>4. CASE Interrupt(c)
  <2>1. OnlyCpu(c) /\ QuietStep(c)
    BY <1>4, ZenonT(60) DEF Interrupt, Inv, Types, OnlyCpu, QuietStep, Pins, UpcallPcs,
       SupercallPcs, Reclaims, UpcallOK, UpcallOf
  <2> QED BY <2>1, Quiet, Zenon
<1>5. CASE UnhandledException(c)
  <2>1. OnlyCpu(c) /\ QuietStep(c)
    BY <1>5, ZenonT(60) DEF UnhandledException, Inv, Types, OnlyCpu, QuietStep, Pins, UpcallPcs,
       SupercallPcs, Reclaims, UpcallOK, UpcallOf
  <2> QED BY <2>1, Quiet, Zenon
<1>6. CASE ReturnToUser(c)
  <2>1. OnlyCpu(c)
    BY <1>6, Zenon DEF ReturnToUser, Inv, Types, OnlyCpu
  <2>2. \A t \in Threads : c \in Pins(t)' <=> c \in Pins(t)
    BY <1>6, Zenon DEF ReturnToUser, Inv, Types, Pins, UpcallPcs, SupercallPcs
  <2>3. \A t \in Threads : Reclaims(c, t)' => Reclaims(c, t)
    BY <1>6, Zenon DEF ReturnToUser, Inv, Types, Reclaims
  <2>4. \A t \in Threads : arg'[c] = t => user_data[t] # "uninit"
    BY <1>6, Zenon DEF ReturnToUser, Inv, Types, UpcallOK, UpcallOf
  <2>5. QuietStep(c)
    BY <1>6, <2>2, <2>3, <2>4, Zenon DEF ReturnToUser, Inv, Types, QuietStep
  <2> QED BY <2>1, <2>5, Quiet, Zenon
<1>7. CASE Requeue(c)
  <2>1. OnlyCpu(c)
    BY <1>7, Zenon DEF Requeue, Inv, Types, OnlyCpu
  <2>2. \A t \in Threads : c \in Pins(t)' <=> c \in Pins(t)
    BY <1>7, Zenon DEF Requeue, Inv, Types, Pins, UpcallPcs, SupercallPcs
  <2>3. \A t \in Threads : Reclaims(c, t)' => Reclaims(c, t)
    BY <1>7, Zenon DEF Requeue, Inv, Types, Reclaims
  <2>4. \A t \in Threads : arg'[c] = t => user_data[t] # "uninit"
    BY <1>7, Zenon DEF Requeue, Inv, Types, UpcallOK, UpcallOf
  <2>5. QuietStep(c)
    BY <1>7, <2>2, <2>3, <2>4, Zenon DEF Requeue, Inv, Types, QuietStep
  <2> QED BY <2>1, <2>5, Quiet, Zenon
<1>8. CASE PushFront(c)
  <2>1. OnlyCpu(c) /\ QuietStep(c)
    BY <1>8, ZenonT(60) DEF PushFront, Inv, Types, OnlyCpu, QuietStep, Pins, UpcallPcs,
       SupercallPcs, Reclaims, UpcallOK, UpcallOf
  <2> QED BY <2>1, Quiet, Zenon
<1>9. CASE Pick(c)
  <2>1. OnlyCpu(c)
    BY <1>9, Zenon DEF Pick, Inv, Types, OnlyCpu
  <2>2. \A t \in Threads : c \in Pins(t)' <=> c \in Pins(t)
    BY <1>9, Zenon DEF Pick, Inv, Types, Pins, UpcallPcs, SupercallPcs
  <2>3. \A t \in Threads : Reclaims(c, t)' => Reclaims(c, t)
    BY <1>9, Zenon DEF Pick, Inv, Types, Reclaims
  <2>4. \A t \in Threads : arg'[c] = t => user_data[t] # "uninit"
    BY <1>9, Zenon DEF Pick, Inv, Types, UpcallOK, UpcallOf
  <2>5. QuietStep(c)
    BY <1>9, <2>2, <2>3, <2>4, Zenon DEF Pick, Inv, Types, QuietStep
  <2> QED BY <2>1, <2>5, Quiet, Zenon
<1>10. CASE Check(c)
  <2>1. OnlyCpu(c)
    BY <1>10, Zenon DEF Check, Inv, Types, OnlyCpu
  <2>2. \A t \in Threads : c \in Pins(t)' <=> c \in Pins(t)
    BY <1>10, Zenon DEF Check, Inv, Types, Pins, UpcallPcs, SupercallPcs
  <2>3. \A t \in Threads : Reclaims(c, t)' => Reclaims(c, t)
    BY <1>10, Zenon DEF Check, Inv, Types, Reclaims
  <2>4. \A t \in Threads : arg'[c] = t => user_data[t] # "uninit"
    BY <1>10, Zenon DEF Check, Inv, Types, UpcallOK, UpcallOf
  <2>5. QuietStep(c)
    BY <1>10, <2>2, <2>3, <2>4, Zenon DEF Check, Inv, Types, QuietStep
  <2> QED BY <2>1, <2>5, Quiet, Zenon
<1>11. CASE Enter(c)
  <2>1. OnlyCpu(c) /\ QuietStep(c)
    BY <1>11, ZenonT(60) DEF Enter, Inv, Types, OnlyCpu, QuietStep, Pins, UpcallPcs,
       SupercallPcs, Reclaims, UpcallOK, UpcallOf
  <2> QED BY <2>1, Quiet, Zenon
<1>12. CASE BootDone(c)
  <2>1. OnlyCpu(c) /\ QuietStep(c)
    BY <1>12, ZenonT(60) DEF BootDone, Inv, Types, OnlyCpu, QuietStep, Pins, UpcallPcs,
       SupercallPcs, Reclaims, UpcallOK, UpcallOf
  <2> QED BY <2>1, Quiet, Zenon
<1>13. CASE Unblock(c)
  <2>1. OnlyCpu(c)
    BY <1>13, Zenon DEF Unblock, SupercallReturn, ServerPc, Inv, Types, OnlyCpu
  <2>2. \A t \in Threads : c \in Pins(t)' <=> c \in Pins(t)
    BY <1>13, Zenon DEF Unblock, SupercallReturn, ServerPc, Inv, Types, Pins, UpcallPcs, SupercallPcs
  <2>3. \A t \in Threads : Reclaims(c, t)' => Reclaims(c, t)
    BY <1>13, Zenon DEF Unblock, SupercallReturn, ServerPc, Inv, Types, Reclaims
  <2>4. \A t \in Threads : arg'[c] = t => user_data[t] # "uninit"
    BY <1>13 DEF Unblock, SupercallReturn, ServerPc, Inv, Types, UpcallOK, UpcallOf
  <2>5. QuietStep(c)
    BY <1>13, <2>2, <2>3, <2>4, Zenon DEF Unblock, SupercallReturn, ServerPc, Inv, Types, QuietStep
  <2> QED BY <2>1, <2>5, Quiet, Zenon
<1>14. CASE ContextLock(c)
  <2>1. OnlyCpu(c)
    BY <1>14, Zenon DEF ContextLock, SupercallReturn, ServerPc, Inv, Types, OnlyCpu
  <2>2. \A t \in Threads : c \in Pins(t)' <=> c \in Pins(t)
    BY <1>14, Zenon DEF ContextLock, SupercallReturn, ServerPc, Inv, Types, Pins, UpcallPcs, SupercallPcs
  <2>3. \A t \in Threads : Reclaims(c, t)' => Reclaims(c, t)
    BY <1>14, Zenon DEF ContextLock, SupercallReturn, ServerPc, Inv, Types, Reclaims
  <2>4. \A t \in Threads : arg'[c] = t => user_data[t] # "uninit"
    BY <1>14 DEF ContextLock, SupercallReturn, ServerPc, Inv, Types, UpcallOK, UpcallOf
  <2>5. QuietStep(c)
    BY <1>14, <2>2, <2>3, <2>4, Zenon DEF ContextLock, SupercallReturn, ServerPc, Inv, Types, QuietStep
  <2> QED BY <2>1, <2>5, Quiet, Zenon
<1>15. CASE ContextUnlock(c)
  <2>1. OnlyCpu(c) /\ QuietStep(c)
    BY <1>15 DEF ContextUnlock, SupercallReturn, ServerPc, Inv, Types, OnlyCpu, QuietStep,
       Pins, UpcallPcs, SupercallPcs, Reclaims, UpcallOK, UpcallOf
  <2> QED BY <2>1, Quiet, Zenon
<1> QED BY <1>1, <1>2, <1>3, <1>4, <1>5, <1>6, <1>7, <1>8, <1>9, <1>10,
          <1>11, <1>12, <1>13, <1>14, <1>15, Zenon

\* unblock makes only initialised threads runnable.
LEMMA UnblockSetUpcalls ==
    ASSUME Inv, UpcallOK, NEW c \in CPUs, UnblockSet(c)
    PROVE  UpcallOK'
<1> USE Constants DEF UnblockSet, At, Goto, SupercallReturn, ServerPc, threadVars, objectVars, cpuVars
<1>1. OnlyCpu(c)
  BY Zenon DEF Inv, Types, OnlyCpu
<1>2. \A t \in Threads : c \in Pins(t)' <=> c \in Pins(t)
  BY Zenon DEF Inv, Types, Pins, UpcallPcs, SupercallPcs
<1>3. \A t \in Threads : Reclaims(c, t)' => Reclaims(c, t)
  BY Zenon DEF Inv, Types, Reclaims
<1>4. \A t \in Threads : arg'[c] = t => user_data[t] # "uninit"
  BY Zenon DEF Inv, Types, UpcallOK, UpcallOf
<1>5. QuietStep(c)
  <2>1. arg[c] \in Threads /\ state[arg[c]] = "Blocked"
    BY DEF Inv, Types, PcOK, LockOK, LockPcs, ArgPcs, SupercallPcs
  <2>2. user_data[arg[c]] = "init"
    BY <2>1, Zenon DEF Inv, Types, UpcallOK, UpcallOf, UserDataStates
  <2> QED BY <1>2, <1>3, <1>4, <2>1, <2>2, Zenon DEF Inv, Types, QuietStep
<1> QED BY <1>1, <1>5, Quiet, Zenon

\* A thread that server code can address has its UserData initialised, or had.
LEMMA SupercallUpcalls ==
    ASSUME Inv, UpcallOK, NEW c \in CPUs, NEW t \in Threads,
           NEW call \in {"unblock", "terminate", "context"}, Supercall(c, t, call)
    PROVE  UpcallOK'
<1> USE Constants DEF Supercall, InServer, ServerPcs, Goto, threadVars, objectVars, cpuVars
<1>1. OnlyCpu(c)
  BY Zenon DEF Inv, Types, OnlyCpu
<1>2. \A u \in Threads : c \in Pins(u)' <=> c \in Pins(u)
  BY Zenon DEF Inv, Types, PcOK, NoMePcs, Pins, UpcallPcs, SupercallPcs
<1>3. \A u \in Threads : Reclaims(c, u)' => Reclaims(c, u)
  BY Zenon DEF Inv, Types, Reclaims
<1>4. user_data[t] # "uninit"
  <2>1. CASE me[c] = t
    BY <2>1, Zenon DEF Inv, PcOK, NoMePcs, UpcallOK, UpcallOf, Pins, UpcallPcs
  <2>2. CASE "server" \in arcs[t]
    BY <2>2, Zenon DEF UpcallOK, UpcallOf
  <2> QED BY <2>1, <2>2, Zenon DEF CanAddress
<1>5. QuietStep(c)
  BY <1>2, <1>3, <1>4, Zenon DEF Inv, Types, QuietStep
<1> QED BY <1>1, <1>5, Quiet, Zenon

\* Dropping an Arc of the server leaves the upcalls alone.
LEMMA ServerDropArcUpcalls ==
    ASSUME Inv, UpcallOK, NEW c \in CPUs, NEW t \in Threads, ServerDropArc(c, t)
    PROVE  UpcallOK'
<1> USE DEF ServerDropArc, InServer, ServerPcs, threadVars, objectVars, cpuVars
<1>1. OnlyCpu(c)
  BY Zenon DEF OnlyCpu
<1>2. QuietStep(c)
  BY ZenonT(30) DEF Inv, Types, UpcallOK, UpcallOf, QuietStep, Pins, Reclaims
<1> QED BY <1>1, <1>2, Quiet, Zenon

\* A step that does not concern t.
LEMMA OtherThread ==
    ASSUME NEW t \in Threads, UpcallOf(t),
           in_upcalls'[t] = in_upcalls[t], user_data'[t] = user_data[t],
           state'[t] = state[t], arcs'[t] = arcs[t], Pins(t)' = Pins(t),
           \A d \in CPUs : /\ Reclaims(d, t)' => Reclaims(d, t)
                           /\ arg'[d] = t => arg[d] = t /\ (pc'[d] = "create" <=> pc[d] = "create")
    PROVE  UpcallOf(t)'
BY Zenon DEF UpcallOf

\* The Terminated upcall finds the UserData initialised and nobody using it.
LEMMA SyscallReclaimUpcalls ==
    ASSUME Inv, UpcallOK, NEW c \in CPUs, SyscallReclaim(c)
    PROVE  UpcallOK'
<1>0. PICK t : t = me[c]
  BY Zenon
<1> USE <1>0, Constants DEF SyscallReclaim, TerminatedUpcall, At, Goto, threadVars, objectVars, cpuVars
<1>1. t \in Threads /\ Reclaims(c, t)
  BY Zenon DEF Inv, Types, PcOK, MePcs, Reclaims
<1>2. /\ user_data[t] = "init" /\ state[t] = "Terminated" /\ Pins(t) = {}
      /\ \A d \in CPUs : Reclaims(d, t) => d = c
  BY <1>1, Zenon DEF UpcallOK, UpcallOf
<1>3. \A u \in Threads : Pins(u)' = Pins(u)
  BY Zenon DEF Inv, Types, Pins, UpcallPcs, SupercallPcs
<1>4. \A u \in Threads, d \in CPUs : Reclaims(d, u)' <=> Reclaims(d, u) /\ d # c
  BY Zenon DEF Inv, Types, PcOK, ArgPcs, SupercallPcs, Reclaims
<1>5. \A d \in CPUs : pc'[d] = "create" <=> pc[d] = "create"
  BY Zenon DEF Inv, Types
<1>6. \A u \in Threads \ {t} : UpcallOf(u)'
  BY <1>3, <1>4, <1>5, OtherThread, ZenonT(30) DEF Inv, Types, UpcallOK
<1>7. user_data'[t] = "freed" /\ UNCHANGED <<state, in_upcalls, arg>>
  BY <1>1, Zenon DEF Inv, Types
<1>8. UpcallOf(t)'
  <2> HIDE DEF SyscallReclaim, TerminatedUpcall
  <2>1. in_upcalls'[t] = Cardinality(Pins(t)')
    BY <1>1, <1>3, <1>7, Zenon DEF UpcallOK, UpcallOf
  <2>2. Pins(t)' = {} /\ state'[t] = "Terminated"
    BY <1>1, <1>2, <1>3, <1>7, Zenon
  <2>3. \A d \in CPUs : ~Reclaims(d, t)'
    BY <1>1, <1>2, <1>4, Zenon
  <2>4. \A d \in CPUs : arg'[d] = t => pc'[d] # "create"
    BY <1>1, <1>2, <1>5, <1>7, Zenon DEF UpcallOK, UpcallOf
  <2> QED BY <1>7, <2>1, <2>2, <2>3, <2>4, Zenon DEF UpcallOf
<1> QED BY <1>6, <1>8, Zenon DEF UpcallOK

\* The Terminated upcall of terminate frees UserData that no upcall has pinned.
LEMMA TerminateReclaimUpcalls ==
    ASSUME Inv, UpcallOK, NEW c \in CPUs, TerminateReclaim(c)
    PROVE  UpcallOK'
<1>0. PICK t : t = arg[c]
  BY Zenon
<1> USE <1>0, Constants DEF TerminateReclaim, TerminatedUpcall, ServerPc, At, Goto, threadVars, objectVars, cpuVars
<1>1. t \in Threads /\ Reclaims(c, t)
  BY Zenon DEF Inv, Types, PcOK, ArgPcs, SupercallPcs, Reclaims
<1>2. /\ user_data[t] = "init" /\ state[t] = "Terminated" /\ Pins(t) = {}
      /\ \A d \in CPUs : Reclaims(d, t) => d = c
  BY <1>1, Zenon DEF UpcallOK, UpcallOf
<1>3. \A u \in Threads : Pins(u)' = Pins(u)
  BY DEF Inv, Types, Pins, UpcallPcs, SupercallPcs
<1>4. \A u \in Threads, d \in CPUs : Reclaims(d, u)' <=> Reclaims(d, u) /\ d # c
  BY Zenon DEF Inv, Types, Reclaims
<1>5. \A d \in CPUs : pc'[d] = "create" <=> pc[d] = "create"
  BY Zenon DEF Inv, Types
<1>6. \A d \in CPUs, u \in Threads : arg'[d] = u => arg[d] = u
  BY Zenon DEF Inv, Types
<1>7. \A u \in Threads \ {t} : UpcallOf(u)'
  BY <1>3, <1>4, <1>5, <1>6, OtherThread, ZenonT(30) DEF Inv, Types, UpcallOK
<1>8. user_data'[t] = "freed" /\ UNCHANGED <<state, in_upcalls>>
  BY <1>1, Zenon DEF Inv, Types
<1>9. UpcallOf(t)'
  <2> HIDE DEF TerminateReclaim, TerminatedUpcall
  <2>1. in_upcalls'[t] = Cardinality(Pins(t)')
    BY <1>1, <1>3, <1>8, Zenon DEF UpcallOK, UpcallOf
  <2>2. Pins(t)' = {} /\ state'[t] = "Terminated"
    BY <1>1, <1>2, <1>3, <1>8, Zenon
  <2>3. \A d \in CPUs : ~Reclaims(d, t)'
    BY <1>1, <1>2, <1>4, Zenon
  <2>4. \A d \in CPUs : arg'[d] = t => pc'[d] # "create"
    BY <1>1, <1>2, <1>5, <1>6, SMTT(15) DEF UpcallOK, UpcallOf
  <2> QED BY <1>8, <2>1, <2>2, <2>3, <2>4, Zenon DEF UpcallOf
<1> QED BY <1>7, <1>9, Zenon DEF UpcallOK

\* A new thread's UserData is uninitialised until its one creator fills it in.
LEMMA CreateUpcalls ==
    ASSUME Inv, UpcallOK, NEW c \in CPUs, NEW t \in Threads, Create(c, t)
    PROVE  UpcallOK'
<1> USE Constants DEF Create, InServer, ServerPcs, Goto, threadVars, objectVars, cpuVars
<1>1. \A d \in CPUs : me[d] # t /\ arg[d] # t
  BY Zenon DEF Inv, BornOK
<1>2. arcs[t] = {} /\ user_data[t] = "none"
  BY Zenon DEF Inv, BornOK, UpcallOK, UpcallOf
<1>3. \A u \in Threads : Pins(u)' = Pins(u)
  BY DEF Inv, Types, PcOK, NoMePcs, Pins, UpcallPcs, SupercallPcs
<1>4. \A u \in Threads, d \in CPUs : Reclaims(d, u)' <=> Reclaims(d, u)
  BY Zenon DEF Inv, Types, Reclaims
<1>5. \A u \in Threads \ {t}, d \in CPUs :
        arg'[d] = u => arg[d] = u /\ (pc'[d] = "create" <=> pc[d] = "create")
  BY Zenon DEF Inv, Types
<1>6. \A u \in Threads \ {t} : UpcallOf(u)'
  BY <1>3, <1>4, <1>5, OtherThread, Zenon DEF Inv, Types, UpcallOK
<1>7. /\ user_data'[t] = "uninit" /\ state'[t] = "Blocked" /\ UNCHANGED <<arcs, in_upcalls>>
      /\ \A d \in CPUs : arg'[d] = t <=> d = c
      /\ pc'[c] = "create"
  BY <1>1, Zenon DEF Inv, Types
<1>8. Pins(t) = {} /\ \A d \in CPUs : ~Reclaims(d, t)
  BY <1>1, Zenon DEF Pins, Reclaims
<1>9. UpcallOf(t)'
  BY <1>2, <1>3, <1>4, <1>7, <1>8, SMTT(15) DEF UpcallOK, UpcallOf
<1> QED BY <1>6, <1>9, Zenon DEF UpcallOK

\* Upcall::new fills the UserData before any Arc of the thread exists.
LEMMA CreateFillUpcalls ==
    ASSUME Inv, UpcallOK, NEW c \in CPUs, CreateFill(c)
    PROVE  UpcallOK'
<1>0. PICK t : t = arg[c]
  BY Zenon
<1> USE <1>0, Constants DEF CreateFill, ServerPc, At, Goto, threadVars, objectVars, cpuVars
<1>1. t \in Threads /\ pc[c] = "create"
  BY Zenon DEF Inv, Types, PcOK, ArgPcs
<1>2. user_data[t] = "uninit" /\ \A d \in CPUs : arg[d] = t => d = c
  BY <1>1, Zenon DEF UpcallOK, UpcallOf
<1>3. \A u \in Threads : Pins(u)' = Pins(u)
  BY DEF Inv, Types, Pins, UpcallPcs, SupercallPcs
<1>4. \A u \in Threads, d \in CPUs : Reclaims(d, u)' <=> Reclaims(d, u)
  BY Zenon DEF Inv, Types, Reclaims
<1>5. \A u \in Threads, d \in CPUs :
        arg'[d] = u => arg[d] = u /\ d # c /\ (pc'[d] = "create" <=> pc[d] = "create")
  BY Zenon DEF Inv, Types
<1>6. \A u \in Threads \ {t} : UpcallOf(u)'
  BY <1>3, <1>4, <1>5, OtherThread, Zenon DEF Inv, Types, UpcallOK
<1>7. user_data'[t] = "init" /\ UNCHANGED <<state, in_upcalls>>
  BY <1>1, Zenon DEF Inv, Types
<1>8. Pins(t) = {} /\ \A d \in CPUs : ~Reclaims(d, t)
  BY <1>1, <1>2, ZenonT(30) DEF UpcallOK, UpcallOf, Pins
<1>9. state[t] = "Blocked"
  BY <1>1, <1>2, Zenon DEF UpcallOK, UpcallOf
<1>10. UpcallOf(t)'
  <2> HIDE DEF CreateFill
  <2>1. in_upcalls'[t] = Cardinality(Pins(t)') /\ Pins(t)' = {}
    BY <1>1, <1>3, <1>7, <1>8, Zenon DEF UpcallOK, UpcallOf
  <2>2. user_data'[t] = "init" /\ state'[t] = "Blocked"
    BY <1>7, <1>9, Zenon
  <2>3. \A d \in CPUs : ~Reclaims(d, t)' /\ arg'[d] # t
    BY <1>1, <1>2, <1>4, <1>5, <1>8, Zenon
  <2> QED BY <2>1, <2>2, <2>3, Zenon DEF UpcallOf
<1> QED BY <1>6, <1>10, Zenon DEF UpcallOK

-------------------------------------------------------------------------------
(* Reference counts: every clone, move and drop of a SharedRef<Thread> leaves *)
(* the counter equal to the number of places that hold one.                   *)

One(b) == IF b THEN 1 ELSE 0

\* The CPUs whose local variable or CpuVar f holds t.
Slots(f, t) == {c \in CPUs : f[c] = t}

\* The references to t in the queue, in c's variables and behind the handle.
Own(c, t) ==
    One(Queued(t)) + One(current_thread[c] = t) + One(me[c] = t) + One(arg[c] = t)
    + One(arcs[t] # {})

\* A step of c moves the counters by as much as it moves c's own references.
Balanced(c) == \A t \in Threads : refs'[t] - Own(c, t)' = refs[t] - Own(c, t)

\* The steps that touch no reference.
LEMMA NoReference ==
    ASSUME Inv, NEW c \in CPUs,
           \/ SyscallBlock(c) \/ SyscallUnpin(c) \/ HandlerReturn(c) \/ BootDone(c)
           \/ Interrupt(c) \/ UnhandledException(c)
    PROVE  OnlyCpu(c) /\ Balanced(c)
<1>1. /\ UNCHANGED <<refs, arcs, runqueue, current_thread, me, arg>>
      /\ \A d \in CPUs \ {c} : pc'[d] = pc[d]
  BY Zenon DEF Inv, Types, SyscallBlock, SyscallUnpin, HandlerReturn, BootDone, Interrupt,
     UnhandledException, Goto, objectVars, cpuVars
<1> QED BY <1>1, Zenon DEF OnlyCpu, Balanced, Own, Queued

\* handle_syscall and return_to_user away from the queue: a reference moves between
\* CurrentThread and a local variable, is cloned into one, or is dropped with one.
LEMMA LocalReferences ==
    ASSUME Inv, NEW c \in CPUs,
           \/ SyscallEntry(c) \/ SyscallDrop(c) \/ ReturnToUser(c) \/ Requeue(c)
           \/ Check(c) \/ Enter(c)
    PROVE  OnlyCpu(c) /\ Balanced(c)
<1> USE Constants DEF Inv, Types, At, Goto, objectVars
<1>1. arcs' = arcs /\ arg' = arg /\ \A t : Queued(t)' <=> Queued(t)
  BY Zenon DEF SyscallEntry, SyscallDrop, ReturnToUser, Requeue, Check, Enter, Queued
<1>2. OnlyCpu(c)
  BY Zenon DEF SyscallEntry, SyscallDrop, ReturnToUser, Requeue, Check, Enter, OnlyCpu, cpuVars
<1>3. CASE SyscallEntry(c)
  <2>1. /\ refs' = refs /\ me[c] = NoThread
        /\ me' = [me EXCEPT ![c] = current_thread[c]]
        /\ current_thread' = [current_thread EXCEPT ![c] = NoThread]
    BY <1>3, Zenon DEF SyscallEntry, PcOK, NoMePcs
  <2> QED BY <1>1, <1>2, <2>1 DEF Balanced, Own, One
<1>4. CASE SyscallDrop(c) \/ Requeue(c) \/ Check(c)
  <2>1. /\ current_thread' = current_thread /\ me[c] \in Threads
        /\ \/ refs' = refs /\ me' = me
           \/ refs' = Drop(refs, me[c]) /\ me' = [me EXCEPT ![c] = NoThread]
    BY <1>4, Zenon DEF SyscallDrop, Requeue, Check, PcOK, MePcs
  <2> QED BY <1>1, <1>2, <2>1 DEF Drop, Balanced, Own, One
<1>5. CASE ReturnToUser(c)
  <2>1. /\ current_thread' = current_thread /\ me[c] = NoThread
        /\ \/ refs' = refs /\ me' = me
           \/ /\ current_thread[c] \in Threads
              /\ refs' = Clone(refs, current_thread[c])
              /\ me' = [me EXCEPT ![c] = current_thread[c]]
    BY <1>5, Zenon DEF ReturnToUser, PcOK, NoMePcs
  <2> QED BY <1>1, <1>2, <2>1 DEF Clone, Balanced, Own, One
<1>6. CASE Enter(c)
  <2>1. /\ refs' = Drop(refs, current_thread[c]) /\ me[c] \in Threads
        /\ me' = [me EXCEPT ![c] = NoThread]
        /\ current_thread' = [current_thread EXCEPT ![c] = me[c]]
    BY <1>6, Zenon DEF Enter, ReleaseCurrent, PcOK, MePcs
  <2>2. CASE current_thread[c] = NoThread
    BY <1>1, <1>2, <2>1, <2>2 DEF Drop, Balanced, Own, One
  <2>3. CASE current_thread[c] \in Threads
    <3>1. refs' = [refs EXCEPT ![current_thread[c]] = @ - 1]
      BY <2>1, <2>3, Zenon DEF Drop
    <3> QED BY <1>1, <1>2, <2>1, <2>3, <3>1, SMTT(60) DEF Balanced, Own, One
  <2> QED BY <2>2, <2>3, Zenon
<1> QED BY <1>2, <1>3, <1>4, <1>5, <1>6, Zenon

\* The queue takes the reference over on a push and hands it back on a pop.
LEMMA QueueReferences ==
    ASSUME Inv, NEW c \in CPUs, PushFront(c) \/ Pick(c) \/ Unblock(c), pc'[c] # "unblock_oom"
    PROVE  OnlyCpu(c) /\ Balanced(c)
<1> USE Constants DEF Inv, Types, At, Goto
<1>1. arcs' = arcs
  BY Zenon DEF PushFront, Pick, Unblock, objectVars
<1>2. OnlyCpu(c)
  BY DEF PushFront, Pick, Unblock, SupercallReturn, OnlyCpu
<1>3. CASE PushFront(c)
  <2>1. me[c] \in Threads /\ Holds(c, me[c])
    BY <1>3, Zenon DEF PushFront, PcOK, MePcs, Holds
  <2>2. ~Queued(me[c])
    BY <2>1, Zenon DEF HoldsUnique
  <2>3. current_thread' = current_thread /\ arg' = arg /\ refs' = refs
    BY <1>3, Zenon DEF PushFront, objectVars
  <2>4. CASE CanReserve
    <3>1. me' = [me EXCEPT ![c] = NoThread] /\ runqueue' = <<me[c]>> \o runqueue
      BY <1>3, <2>4, Zenon DEF PushFront, push_front
    <3>2. \A t : Queued(t)' <=> Queued(t) \/ t = me[c]
      <4>1. Elems(runqueue') = Elems(runqueue) \cup {me[c]}
        BY <2>1, <3>1, PushedQueue, Zenon
      <4> QED BY <4>1, QueuedElems, Zenon
    <3> QED BY <1>1, <1>2, <2>1, <2>2, <2>3, <3>1, <3>2, SMTT(60) DEF Balanced, Own, One
  <2>5. CASE ~CanReserve
    <3>1. me' = me /\ runqueue' = runqueue
      BY <1>3, <2>5, Zenon DEF PushFront
    <3>2. \A t : Queued(t)' <=> Queued(t)
      BY <3>1, Zenon DEF Queued
    <3> QED BY <1>1, <1>2, <2>3, <3>1, <3>2, Zenon DEF Balanced, Own, One
  <2> QED BY <2>4, <2>5, Zenon
<1>4. CASE Pick(c)
  <2>1. arg' = arg /\ me[c] = NoThread
    BY <1>4, Zenon DEF Pick, PcOK, NoMePcs
  <2>2. CASE runqueue = <<>>
    <3>1. /\ refs' = Drop(refs, current_thread[c]) /\ runqueue' = runqueue /\ me' = me
          /\ current_thread' = [current_thread EXCEPT ![c] = NoThread]
      BY <1>4, <2>2, Zenon DEF Pick, ReleaseCurrent
    <3>2. \A t : Queued(t)' <=> Queued(t)
      BY <3>1, Zenon DEF Queued
    <3> QED BY <1>1, <1>2, <2>1, <3>1, <3>2 DEF Balanced, Own, One, Drop
  <2>3. CASE runqueue # <<>>
    <3>1. /\ refs' = refs /\ current_thread' = current_thread
          /\ me' = [me EXCEPT ![c] = Head(runqueue)] /\ runqueue' = Tail(runqueue)
      BY <1>4, <2>3, Zenon DEF Pick
    <3>2. /\ Head(runqueue) \in Threads /\ Queued(Head(runqueue))
          /\ \A t : Queued(t)' <=> Queued(t) /\ t # Head(runqueue)
      BY <2>3, <3>1, PoppedQueue, QueuedElems, Zenon
    <3> QED BY <1>1, <1>2, <2>1, <3>1, <3>2 DEF Balanced, Own, One
  <2> QED BY <2>2, <2>3, Zenon
<1>5. CASE Unblock(c)
  <2>1. /\ current_thread' = current_thread /\ me' = me /\ arg[c] \in Threads
        /\ pc[c] = "unblock" /\ mutable[arg[c]] = NoCpu
    BY <1>5, Zenon DEF Unblock, LockFree, PcOK, ArgPcs, SupercallPcs
  <2>2. CASE state[arg[c]] # "Blocked"
    <3>1. /\ refs' = Drop(refs, arg[c]) /\ runqueue' = runqueue
          /\ arg' = [arg EXCEPT ![c] = NoThread]
      BY <1>5, <2>2, Zenon DEF Unblock, SupercallReturn
    <3>2. \A t : Queued(t)' <=> Queued(t)
      BY <3>1, Zenon DEF Queued
    <3> QED BY <1>1, <1>2, <2>1, <3>1, <3>2, SMTT(60) DEF Balanced, Own, One, Drop
  <2>3. CASE state[arg[c]] = "Blocked"
    <3>0. CanReserve
      BY <1>5, <2>3, Zenon DEF Unblock
    <3>1. refs' = Clone(refs, arg[c]) /\ runqueue' = Append(runqueue, arg[c]) /\ arg' = arg
      BY <1>5, <2>3, <3>0, Zenon DEF Unblock, push_back
    <3>2. ~Pushed(arg[c])
      BY <2>1 DEF LockOK, LockPcs, Pushed
    <3>3. ~Queued(arg[c])
      BY <2>1, <2>3, <3>2, Zenon DEF TokenOK
    <3>4. \A t : Queued(t)' <=> Queued(t) \/ t = arg[c]
      <4>1. Elems(runqueue') = Elems(runqueue) \cup {arg[c]}
        BY <2>1, <3>1, PushedQueue, Zenon
      <4> QED BY <4>1, QueuedElems, Zenon
    <3> QED BY <1>1, <1>2, <2>1, <3>1, <3>3, <3>4, SMTT(60) DEF Balanced, Own, One, Clone
  <2> QED BY <2>2, <2>3, Zenon
<1> QED BY <1>2, <1>3, <1>4, <1>5, Zenon

\* The supercalls: a reference is cloned from the handle, and dropped at the return.
LEMMA SupercallReferences ==
    ASSUME Inv, NEW c \in CPUs,
           \/ UnblockSet(c) \/ Terminate(c) \/ ContextLock(c) \/ ContextUnlock(c)
           \/ \E t \in Threads, call \in {"unblock", "terminate", "context"} : Supercall(c, t, call)
    PROVE  OnlyCpu(c) /\ Balanced(c)
<1> USE Constants DEF Inv, Types, At, Goto
<1>1. /\ arcs' = arcs /\ me' = me /\ current_thread' = current_thread
      /\ \A t : Queued(t)' <=> Queued(t)
  BY Zenon DEF UnblockSet, Terminate, ContextLock, ContextUnlock, Supercall, Queued
<1>2. OnlyCpu(c)
  BY DEF UnblockSet, Terminate, ContextLock, ContextUnlock, Supercall, SupercallReturn, OnlyCpu
<1>3. CASE UnblockSet(c) \/ Terminate(c) \/ ContextLock(c) \/ ContextUnlock(c)
  <2>1. /\ arg[c] \in Threads
        /\ \/ refs' = refs /\ arg' = arg
           \/ refs' = Drop(refs, arg[c]) /\ arg' = [arg EXCEPT ![c] = NoThread]
    BY <1>3, Zenon DEF UnblockSet, Terminate, ContextLock, ContextUnlock, SupercallReturn, PcOK, ArgPcs,
       SupercallPcs
  <2> QED BY <1>1, <1>2, <2>1, SMTT(60) DEF Drop, Balanced, Own, One
<1>4. ASSUME NEW u \in Threads, NEW call \in {"unblock", "terminate", "context"},
             Supercall(c, u, call)
      PROVE  Balanced(c)
  <2>1. /\ arg[c] = NoThread /\ refs' = Clone(refs, u) /\ arg' = [arg EXCEPT ![c] = u]
    BY <1>4, Zenon DEF Supercall, InServer, ServerPcs, PcOK, ArgPcs, SupercallPcs
  <2> QED BY <1>1, <2>1 DEF Clone, Balanced, Own, One
<1> QED BY <1>2, <1>3, <1>4

\* A set loses its last element.
LEMMA LastOne ==
    ASSUME NEW S, NEW x
    PROVE  S = {x} <=> S # {} /\ S \ {x} = {}
BY Zenon

-------------------------------------------------------------------------------
(* Upcalls: the steps that pin and unpin, and the theorems                    *)

\* What follows counts CPUs and references.
INSTANCE FiniteSetTheorems

\* Facts about the set of pins.
LEMMA PinsFinite ==
    ASSUME NEW t
    PROVE  IsFiniteSet(Pins(t)) /\ Cardinality(Pins(t)) \in Nat
BY ConstantsAssumption, FS_Subset, FS_CardinalityType, ZenonT(60) DEF Pins

\* handle_syscall pins its thread, which no Terminated upcall has been made for.
LEMMA SyscallBlockUpcalls ==
    ASSUME Inv, UpcallOK, NEW c \in CPUs, SyscallBlock(c)
    PROVE  UpcallOK'
<1> DEFINE t == me[c]
<1> USE Constants DEF SyscallBlock, SyscallIgnored, Pinned, LockFree, At, Goto, threadVars, objectVars, cpuVars
<1>1. t \in Threads /\ Holds(c, t)
  BY Zenon DEF Inv, Types, PcOK, Holds, MePcs
<1>2. state[t] \in {"Runnable", "Terminated"}
  BY <1>1, HeldNotBlocked, Zenon
<1>3. OnlyCpu(c)
  BY DEF Inv, Types, OnlyCpu
<1>4. \A u \in Threads : Reclaims(c, u)' <=> Reclaims(c, u)
  BY <1>2 DEF Inv, Types, PcOK, ArgPcs, SupercallPcs, Reclaims
<1>5. CASE state[t] = "Terminated"
  <2>1. \A u \in Threads : c \in Pins(u)' <=> c \in Pins(u)
    BY <1>5 DEF Inv, Types, Pins, UpcallPcs, SupercallPcs
  <2>2. QuietStep(c)
    BY <1>4, <1>5, <2>1 DEF Inv, Types, QuietStep, UpcallOK, UpcallOf
  <2> QED BY <1>3, <2>2, Quiet
<1>6. CASE state[t] = "Runnable"
  <2>1. user_data[t] = "init"
    BY <1>1, <1>6, Zenon DEF Inv, Types, UpcallOK, UpcallOf, UserDataStates
  <2>2. /\ Pins(t)' = Pins(t) \cup {c} /\ c \notin Pins(t)
        /\ \A u \in Threads \ {t} : Pins(u)' = Pins(u)
    BY <1>6 DEF Inv, Types, Pins, UpcallPcs, SupercallPcs
  <2>3. in_upcalls'[t] = Cardinality(Pins(t)')
    <3>1. Cardinality(Pins(t) \cup {c}) = Cardinality(Pins(t)) + 1
      BY <2>2, PinsFinite, FS_AddElement, Zenon
    <3>2. in_upcalls'[t] = in_upcalls[t] + 1 /\ in_upcalls[t] = Cardinality(Pins(t))
      BY <1>1, <1>6 DEF Inv, Types, UpcallOK, UpcallOf
    <3> QED BY <2>2, <3>1, <3>2, Zenon
  <2>5. \A u \in Threads, d \in CPUs : Reclaims(d, u)' <=> Reclaims(d, u)
    BY <1>3, <1>4 DEF OnlyCpu, Reclaims
  <2>6. \A d \in CPUs : pc'[d] = "create" <=> pc[d] = "create"
    BY <1>6 DEF Inv, Types
  <2>7. \A u \in Threads \ {t} : UpcallOf(u)'
    BY <1>6, <2>2, <2>5, <2>6, OtherThread, ZenonT(30) DEF Inv, Types, UpcallOK
  <2>8. /\ user_data'[t] = "init" /\ state'[t] = "Blocked" /\ arg' = arg
        /\ \A d \in CPUs : ~Reclaims(d, t)
    BY <1>1, <1>6, <2>1, SMTT(15) DEF Inv, Types, UpcallOK, UpcallOf
  <2>9. UpcallOf(t)'
    BY <1>1, <2>1, <2>3, <2>5, <2>6, <2>8, SMTT(15) DEF UpcallOK, UpcallOf
  <2> QED BY <2>7, <2>9 DEF UpcallOK
<1> QED BY <1>2, <1>5, <1>6

\* handle_syscall unpins its thread; the last one to do so makes the upcall.
LEMMA SyscallUnpinUpcalls ==
    ASSUME Inv, UpcallOK, NEW c \in CPUs, SyscallUnpin(c)
    PROVE  UpcallOK'
<1> DEFINE t == me[c]
<1> USE Constants DEF SyscallUnpin, TerminateNow, At, Goto, threadVars, objectVars, cpuVars
<1>1. t \in Threads /\ c \in Pins(t) /\ user_data[t] = "init"
  BY Zenon DEF Inv, Types, PcOK, MePcs, Pins, UpcallOK, UpcallOf
<1>2. /\ Pins(t)' = Pins(t) \ {c}
      /\ \A u \in Threads \ {t} : Pins(u)' = Pins(u)
  BY DEF Inv, Types, Pins, UpcallPcs, SupercallPcs
<1>3. in_upcalls'[t] = Cardinality(Pins(t)')
  <2>1. Cardinality(Pins(t) \ {c}) = Cardinality(Pins(t)) - 1
    BY <1>1, PinsFinite, FS_RemoveElement, Zenon
  <2>2. in_upcalls'[t] = in_upcalls[t] - 1 /\ in_upcalls[t] = Cardinality(Pins(t))
    BY <1>1, Zenon DEF Inv, Types, UpcallOK, UpcallOf
  <2> QED BY <1>2, <2>1, <2>2, Zenon
<1>4. \A u \in Threads \ {t} : in_upcalls'[u] = in_upcalls[u]
  BY DEF Inv, Types
<1>5. \A u \in Threads, d \in CPUs :
        Reclaims(d, u)' <=> Reclaims(d, u) \/ (d = c /\ u = t /\ TerminateNow(t, in_upcalls'[t]))
  BY <1>1 DEF Inv, Types, PcOK, ArgPcs, SupercallPcs, Reclaims
<1>6. \A d \in CPUs : pc'[d] = "create" <=> pc[d] = "create"
  BY Zenon DEF Inv, Types
<1>7. in_upcalls'[t] = 0 => Pins(t)' = {}
  <2>1. IsFiniteSet(Pins(t)')
    BY <1>2, PinsFinite, FS_RemoveElement
  <2> QED BY <1>3, <2>1, FS_EmptySet, ZenonT(30)
<1>8. \A d \in CPUs : ~Reclaims(d, t)
  BY <1>1, Zenon DEF UpcallOK, UpcallOf
<1>9. UNCHANGED <<state, user_data, arcs, arg>>
  BY Zenon
<1>10. \A u \in Threads \ {t} : UpcallOf(u)'
  BY <1>2, <1>4, <1>5, <1>6, <1>9, OtherThread, Zenon DEF UpcallOK
<1>11. UpcallOf(t)'
  BY <1>1, <1>2, <1>3, <1>5, <1>6, <1>7, <1>8, <1>9, SMTT(15) DEF UpcallOK, UpcallOf
<1> QED BY <1>10, <1>11 DEF UpcallOK

\* terminate begins the Terminated upcall when nobody has pinned the thread.
LEMMA TerminateUpcalls ==
    ASSUME Inv, UpcallOK, NEW c \in CPUs, Terminate(c)
    PROVE  UpcallOK'
<1>0. PICK t : t = arg[c]
  BY Zenon
<1> USE <1>0, Constants DEF Terminate, SafeToTerminate, SupercallReturn, ServerPc, At, Goto, threadVars, objectVars, cpuVars
<1>1. t \in Threads /\ pc[c] = "terminate" /\ state[t] # "Unborn"
  BY DEF Inv, Types, PcOK, BornOK, ArgPcs, SupercallPcs
<1>2. OnlyCpu(c)
  BY DEF Inv, Types, OnlyCpu
<1>3. \A u \in Threads : c \in Pins(u)' <=> c \in Pins(u)
  BY DEF Inv, Types, Pins, UpcallPcs, SupercallPcs
<1>4. state[t] # "Terminated" => user_data[t] = "init"
  BY <1>1 DEF Inv, Types, UpcallOK, UpcallOf, UserDataStates
<1>5. \A u \in Threads : arg'[c] = u => user_data[u] # "uninit"
  BY <1>1 DEF Inv, Types, UpcallOK, UpcallOf
<1>6. CASE state[t] = "Terminated" \/ in_upcalls[t] # 0
  <2>1. \A u \in Threads : Reclaims(c, u)' => Reclaims(c, u)
    BY <1>6 DEF Inv, Types, Reclaims
  <2>2. QuietStep(c)
    BY <1>1, <1>3, <1>4, <1>5, <1>6, <2>1, SMTT(15) DEF Inv, Types, QuietStep
  <2> QED BY <1>2, <2>2, Quiet, Zenon
<1>7. CASE state[t] # "Terminated" /\ in_upcalls[t] = 0
  <2>1. \A u \in Threads : Pins(u)' = Pins(u)
    BY <1>2, <1>3, SMTT(15) DEF OnlyCpu, Pins
  <2>2. Pins(t) = {}
    <3>1. Cardinality(Pins(t)) = 0
      BY <1>1, <1>7, Zenon DEF UpcallOK, UpcallOf
    <3> QED BY <1>1, <3>1, PinsFinite, FS_EmptySet, Zenon
  <2>3. \A u \in Threads, d \in CPUs : Reclaims(d, u)' <=> Reclaims(d, u) \/ (d = c /\ u = t)
    BY <1>1, <1>7 DEF Inv, Types, PcOK, NoMePcs, Reclaims
  <2>4. \A d \in CPUs : (pc'[d] = "create" <=> pc[d] = "create") /\ arg'[d] = arg[d]
    BY <1>1, <1>7 DEF Inv, Types
  <2>5. \A u \in Threads \ {t} : UpcallOf(u)'
    BY <1>7, <2>1, <2>3, <2>4, OtherThread, ZenonT(30) DEF Inv, Types, UpcallOK
  <2>6. state'[t] = "Terminated" /\ UNCHANGED <<user_data, in_upcalls>>
    BY <1>1, <1>7, SMTT(15) DEF Inv, Types
  <2>7. \A d \in CPUs : ~Reclaims(d, t)
    BY <1>1, <1>7, SMTT(15) DEF UpcallOK, UpcallOf
  <2>8. UpcallOf(t)'
    <3> HIDE DEF Terminate, SupercallReturn
    <3>1. in_upcalls'[t] = Cardinality(Pins(t)') /\ Pins(t)' = {}
      BY <1>1, <2>1, <2>2, <2>6, Zenon DEF UpcallOK, UpcallOf
    <3>2. user_data'[t] = "init" /\ state'[t] = "Terminated"
      BY <1>4, <1>7, <2>6, Zenon
    <3>3. \A d \in CPUs : Reclaims(d, t)' => d = c
      BY <1>1, <2>3, <2>7, Zenon
    <3>4. \A d \in CPUs : arg'[d] = t => pc'[d] # "create"
      BY <1>1, <2>4, <2>6, <3>2 DEF UpcallOK, UpcallOf
    <3> QED BY <3>1, <3>2, <3>3, <3>4, SMTT(15) DEF UpcallOf
  <2> QED BY <2>5, <2>8, SMTT(15) DEF UpcallOK
<1> QED BY <1>6, <1>7, SMTT(15)

\* No thread exists at boot, so no upcall does.
LEMMA InitUpcalls == Init => UpcallOK
<1> SUFFICES ASSUME Init, NEW t \in Threads PROVE UpcallOf(t)
  BY Zenon DEF UpcallOK
<1>1. Pins(t) = {}
  BY Zenon DEF Init, Pins, UpcallPcs, SupercallPcs
<1>2. \A c \in CPUs : ~Reclaims(c, t) /\ arg[c] # t
  BY Constants, Zenon DEF Init, Reclaims
<1> QED BY <1>1, <1>2, FS_EmptySet, Zenon DEF Init, UpcallOf

\* Every step, and stuttering, keeps the upcall invariant.
LEMMA NextUpcalls == Inv /\ UpcallOK /\ [Next]_vars => UpcallOK'
<1> SUFFICES ASSUME Inv, UpcallOK, [Next]_vars PROVE UpcallOK'
  BY Zenon
<1>1. ASSUME NEW c \in CPUs, KernelStep(c) \/ ServerStep(c) \/ UserStep(c) PROVE UpcallOK'
  BY <1>1, Zenon, QuietSteps, SyscallBlockUpcalls, SyscallUnpinUpcalls,
     SyscallReclaimUpcalls, CreateFillUpcalls, UnblockSetUpcalls, TerminateUpcalls,
     TerminateReclaimUpcalls, CreateUpcalls, ServerDropArcUpcalls, SupercallUpcalls
     DEF KernelStep, ServerStep, UserStep
<1>2. CASE UNCHANGED vars
  BY <1>2 DEF vars, threadVars, objectVars, cpuVars, UpcallOK, UpcallOf, Pins, Reclaims
<1> QED BY <1>1, <1>2 DEF Next, AllStopped

\* In every reachable state in_upcalls counts the CPUs inside handle_syscall's upcall, and
\* the UserData is freed once, when that count is 0.
THEOREM UpcallInvariance == Spec => []UpcallOK
BY Invariance, InitUpcalls, NextUpcalls, PTL DEF Spec

\* Every variable keeps its type; in particular in_upcalls never underflows.
THEOREM TypeCorrect == Spec => []TypeOK
<1>1. Inv /\ UpcallOK => TypeOK
  BY PinsFinite DEF Inv, Types, UpcallOK, UpcallOf, TypeOK
<1> QED BY <1>1, Invariance, UpcallInvariance, PTL

\* terminate and handle_syscall never free the UserData under a handler, nor twice.
THEOREM UserDataSafe == Spec => []UserDataPinned
<1>1. Inv /\ UpcallOK => UserDataPinned
  BY Zenon DEF UpcallOK, UpcallOf, UserDataPinned, InUpcall, Pins
<1> QED BY <1>1, Invariance, UpcallInvariance, PTL

-------------------------------------------------------------------------------
(* The room in the queue                                                      *)

\* The queue holds a thread once: with one missing it has fewer entries than threads.
LEMMA RoomInQueue ==
    ASSUME Inv, NEW t \in Threads, ~Queued(t)
    PROVE  Len(runqueue) < Cardinality(Threads)
<1> DEFINE others == Threads \ {t}
<1>1. /\ IsFiniteSet(others) /\ Cardinality(others) = Cardinality(Threads) - 1
      /\ Cardinality(Threads) \in Nat
  BY ConstantsAssumption, FS_RemoveElement, FS_CardinalityType, Zenon
<1>2. /\ runqueue \in [1..Len(runqueue) -> others] /\ Len(runqueue) \in Nat
      /\ DOMAIN runqueue = 1..Len(runqueue)
  <2>1. runqueue \in Seq(Threads)
    BY Zenon DEF Inv, Types
  <2> QED BY <2>1, SMTT(15) DEF Queued
<1>3. IsFiniteSet(1..Len(runqueue)) /\ Cardinality(1..Len(runqueue)) = Len(runqueue)
  BY <1>2, FS_Interval, SMTT(15)
<1>4. CASE Cardinality(others) < Len(runqueue)
  <2>1. \E i, j \in 1..Len(runqueue) : i # j /\ runqueue[i] = runqueue[j]
    BY <1>1, <1>2, <1>3, <1>4, FS_PigeonHole
  <2> QED BY <1>2, <2>1, Zenon DEF Inv, QueueInjective
<1> HIDE DEF others
<1> QED BY <1>1, <1>2, <1>4

\* A push of a thread that is not queued fails only if there is no slot for some thread.
LEMMA FullForThread ==
    ASSUME Inv, NEW t \in Threads, ~Queued(t), ~CanReserve
    PROVE  QueueCap < Cardinality(Threads)
<1>1. Len(runqueue) < Cardinality(Threads)
  BY RoomInQueue, Zenon
<1>2. Len(runqueue) \in Nat /\ Cardinality(Threads) \in Nat /\ QueueCap \in Nat
  BY ConstantsAssumption, FS_CardinalityType DEF Inv, Types
<1> QED BY <1>1, <1>2 DEF CanReserve

\* For any number of CPUs and threads and any memory of the run queue: handle_syscall's
\* assert never fails, and return_to_user and unblock run out of memory only if it does not
\* suffice for one entry per thread.
THEOREM StopsOnlyForMemory == Spec => []PanicOnlyForMemory
<1>1. Init => PanicOnlyForMemory
  BY Zenon DEF Init, PanicOnlyForMemory, OomPcs
<1>2. Inv /\ PanicOnlyForMemory /\ [Next]_vars => PanicOnlyForMemory'
  <2> SUFFICES ASSUME Inv, PanicOnlyForMemory, [Next]_vars, NEW d \in CPUs
               PROVE  /\ pc'[d] # "panic"
                      /\ pc'[d] \in OomPcs => QueueCap < Cardinality(Threads)
    BY Zenon DEF PanicOnlyForMemory
  <2>1. pc[d] # "panic" /\ (pc[d] \in OomPcs => QueueCap < Cardinality(Threads))
    BY Zenon DEF PanicOnlyForMemory
  <2>2. ASSUME NEW c \in CPUs, SyscallBlock(c) PROVE pc'[d] # "panic"
    <3>1. me[c] \in Threads /\ Holds(c, me[c])
      BY <2>2, Zenon DEF SyscallBlock, At, Inv, Types, PcOK, Holds, MePcs
    <3>2. state[me[c]] \in {"Runnable", "Terminated"}
      BY <2>2, <3>1, HeldNotBlocked, Zenon DEF SyscallBlock, At
    <3> QED BY <2>1, <2>2, <3>2, Zenon DEF SyscallBlock, SyscallIgnored, Goto, Inv, Types
  <2>3. ASSUME NEW c \in CPUs, PushFront(c), ~CanReserve
        PROVE  QueueCap < Cardinality(Threads)
    <3>1. me[c] \in Threads /\ Holds(c, me[c])
      BY <2>3, Zenon DEF PushFront, At, Inv, Types, PcOK, Holds, MePcs
    <3>2. ~Queued(me[c])
      BY <3>1, Zenon DEF Inv, HoldsUnique
    <3> QED BY <2>3, <3>1, <3>2, FullForThread, Zenon
  <2>4. ASSUME NEW c \in CPUs, Unblock(c), state[arg[c]] = "Blocked", ~CanReserve
        PROVE  QueueCap < Cardinality(Threads)
    <3>1. arg[c] \in Threads /\ mutable[arg[c]] = NoCpu
      BY <2>4, Zenon DEF Unblock, LockFree, At, Inv, Types, PcOK, ArgPcs, SupercallPcs
    <3>2. ~Pushed(arg[c])
      BY <3>1, Constants DEF Inv, Types, LockOK, LockPcs, Pushed
    <3>3. ~Queued(arg[c])
      BY <2>4, <3>1, <3>2, Zenon DEF Inv, TokenOK
    <3> QED BY <2>4, <3>1, <3>3, FullForThread, Zenon
  <2>5. ASSUME NEW c \in CPUs, PushFront(c) \/ Unblock(c), pc'[d] \in OomPcs
        PROVE  QueueCap < Cardinality(Threads)
    <3>1. CASE d # c
      BY <2>1, <2>5, <3>1, Zenon DEF PushFront, Unblock, SupercallReturn, Goto, Inv, Types
    <3>2. CASE d = c
      <4>1. pc'[c] \in {"push_front_oom", "unblock_oom"}
        BY <2>5, <3>2, Zenon DEF OomPcs
      <4>2. CASE PushFront(c)
        BY <2>3, <4>1, <4>2, Zenon DEF PushFront, Goto, Inv, Types
      <4>3. CASE Unblock(c)
        BY <2>4, <4>1, <4>3, Zenon DEF Unblock, SupercallReturn, ServerPc, Goto, Inv, Types
      <4> QED BY <2>5, <4>2, <4>3, Zenon
    <3> QED BY <3>1, <3>2, Zenon
  <2>6. ASSUME NEW c \in CPUs, KernelStep(c) \/ ServerStep(c) \/ UserStep(c)
        PROVE  /\ pc'[d] # "panic"
               /\ pc'[d] \in OomPcs => QueueCap < Cardinality(Threads)
    BY <2>1, <2>2, <2>5, <2>6, StopsOnlyThere, Zenon
  <2>7. CASE UNCHANGED vars
    BY <2>1, <2>7, Zenon DEF vars
  <2> QED BY <2>6, <2>7, Zenon DEF Next, AllStopped
<1> QED BY <1>1, <1>2, Invariance, PTL DEF Spec

-------------------------------------------------------------------------------
(* Reference counts: the sum, and the theorem                                 *)

\* A thread is queued once or not at all.
LEMMA QueueSlots ==
    ASSUME NEW q, Injective(q), NEW t
    PROVE  Cardinality({i \in DOMAIN q : q[i] = t}) = One(t \in Elems(q))
<1>1. CASE t \in Elems(q)
  <2>1. PICK i \in DOMAIN q : q[i] = t
    BY <1>1, Zenon DEF Elems
  <2>2. {j \in DOMAIN q : q[j] = t} = {i}
    BY <2>1, Zenon DEF Injective
  <2> QED BY <1>1, <2>2, FS_Singleton, Zenon DEF One
<1>2. CASE t \notin Elems(q)
  <2>1. {j \in DOMAIN q : q[j] = t} = {}
    BY <1>2 DEF Elems
  <2> QED BY <1>2, <2>1, FS_EmptySet, Zenon DEF One
<1> QED BY <1>1, <1>2

\* Writing one CPU's slot changes the count of t by what that slot held and holds.
LEMMA SlotWritten ==
    ASSUME NEW f, NEW g, NEW t, NEW c \in CPUs, \A d \in CPUs \ {c} : g[d] = f[d]
    PROVE  /\ Cardinality(Slots(f, t)) \in Nat /\ Cardinality(Slots(g, t)) \in Nat
           /\ Cardinality(Slots(g, t)) - One(g[c] = t) = Cardinality(Slots(f, t)) - One(f[c] = t)
<1> DEFINE rest == {d \in CPUs \ {c} : f[d] = t}
<1>1. IsFiniteSet(rest) /\ Cardinality(rest) \in Nat
  BY ConstantsAssumption, FS_Subset, FS_CardinalityType, Zenon
<1>2. c \notin rest /\ Cardinality(rest \cup {c}) = Cardinality(rest) + 1
  BY <1>1, FS_AddElement, Zenon
<1>3. Slots(f, t) = IF f[c] = t THEN rest \cup {c} ELSE rest
  BY Zenon DEF Slots
<1>4. Slots(g, t) = IF g[c] = t THEN rest \cup {c} ELSE rest
  BY Zenon DEF Slots
<1> HIDE DEF rest
<1>5. Cardinality(Slots(f, t)) = Cardinality(rest) + One(f[c] = t)
  BY <1>1, <1>2, <1>3 DEF One
<1>6. Cardinality(Slots(g, t)) = Cardinality(rest) + One(g[c] = t)
  BY <1>1, <1>2, <1>4 DEF One
<1> QED BY <1>1, <1>5, <1>6 DEF One

\* The CPUs on which unblock(t) is in a push_back that does not return.
Pushing(t) == {c \in CPUs : arg[c] = t /\ pc[c] = "unblock_oom"}

\* A push that has not returned never does, and no step but unblock begins one.
LEMMA PushingKept ==
    ASSUME Inv, NEW c \in CPUs, KernelStep(c) \/ ServerStep(c) \/ UserStep(c), OnlyCpu(c),
           pc'[c] # "unblock_oom"
    PROVE  \A t \in Threads : Pushing(t)' = Pushing(t)
<1>1. pc[c] # "unblock_oom"
  BY StopsOnlyThere, Zenon DEF OomPcs
<1>2. \A d \in CPUs \ {c} : pc'[d] = pc[d] /\ arg'[d] = arg[d]
  BY Zenon DEF OnlyCpu
<1> QED BY <1>1, <1>2, Zenon DEF Pushing

\* A balanced step keeps the counters exact.
LEMMA BalancedExact ==
    ASSUME Inv, Inv', RefsExact, NEW c \in CPUs, OnlyCpu(c), Balanced(c),
           \A t \in Threads : Pushing(t)' = Pushing(t)
    PROVE  RefsExact'
<1> SUFFICES ASSUME NEW t \in Threads
             PROVE  refs'[t] =
                      Cardinality({i \in DOMAIN runqueue' : runqueue'[i] = t})
                      + Cardinality(Slots(current_thread', t)) + Cardinality(Slots(me', t))
                      + Cardinality(Slots(arg', t)) + Cardinality(Pushing(t)) + One(arcs'[t] # {})
  BY Zenon DEF RefsExact, Slots, Pushing, One
<1>0. \A d \in CPUs \ {c} : me'[d] = me[d] /\ arg'[d] = arg[d] /\ current_thread'[d] = current_thread[d]
  BY DEF OnlyCpu
<1>1. /\ Cardinality({i \in DOMAIN runqueue : runqueue[i] = t}) = One(Queued(t))
      /\ Cardinality({i \in DOMAIN runqueue' : runqueue'[i] = t}) = One(Queued(t)')
  <2>1. Injective(runqueue) /\ Injective(runqueue')
    BY QueuedElems, Zenon DEF Inv
  <2>2. (Queued(t) <=> t \in Elems(runqueue)) /\ (Queued(t)' <=> t \in Elems(runqueue'))
    BY QueuedElems, Zenon
  <2>3. /\ Cardinality({i \in DOMAIN runqueue : runqueue[i] = t}) = One(t \in Elems(runqueue))
        /\ Cardinality({i \in DOMAIN runqueue' : runqueue'[i] = t}) = One(t \in Elems(runqueue'))
    BY <2>1, QueueSlots, Zenon
  <2> QED BY <2>2, <2>3, Zenon DEF One
<1>2. refs[t] = One(Queued(t)) + Cardinality(Slots(current_thread, t)) + Cardinality(Slots(me, t))
                + Cardinality(Slots(arg, t)) + Cardinality(Pushing(t)) + One(arcs[t] # {})
  <2>1. refs[t] = Cardinality({i \in DOMAIN runqueue : runqueue[i] = t})
                  + Cardinality(Slots(current_thread, t)) + Cardinality(Slots(me, t))
                  + Cardinality(Slots(arg, t)) + Cardinality(Pushing(t)) + One(arcs[t] # {})
    BY Zenon DEF RefsExact, Slots, Pushing, One
  <2> QED BY <1>1, <2>1, Zenon
<1>3. /\ Cardinality(Slots(me, t)) \in Nat /\ Cardinality(Slots(me', t)) \in Nat
      /\ Cardinality(Slots(me', t)) - One(me'[c] = t) = Cardinality(Slots(me, t)) - One(me[c] = t)
  BY <1>0, SlotWritten
<1>4. /\ Cardinality(Slots(arg, t)) \in Nat /\ Cardinality(Slots(arg', t)) \in Nat
      /\ Cardinality(Slots(arg', t)) - One(arg'[c] = t) = Cardinality(Slots(arg, t)) - One(arg[c] = t)
  BY <1>0, SlotWritten
<1>5. /\ Cardinality(Slots(current_thread, t)) \in Nat /\ Cardinality(Slots(current_thread', t)) \in Nat
      /\ Cardinality(Slots(current_thread', t)) - One(current_thread'[c] = t)
         = Cardinality(Slots(current_thread, t)) - One(current_thread[c] = t)
  BY <1>0, SlotWritten
<1>6. refs'[t] - Own(c, t)' = refs[t] - Own(c, t) /\ refs[t] \in Int /\ refs'[t] \in Int
  BY Zenon DEF Balanced, Inv, Types
<1>7. Cardinality(Pushing(t)) \in Nat
  <2>1. IsFiniteSet(Pushing(t))
    BY ConstantsAssumption, FS_Subset, Zenon DEF Pushing
  <2> QED BY <2>1, FS_CardinalityType, Zenon
<1> DEFINE q == One(Queued(t))            x == One(current_thread[c] = t)
           y == One(me[c] = t)            z == One(arg[c] = t)
           h == One(arcs[t] # {})
<1> DEFINE q1 == One(Queued(t)')          x1 == One(current_thread'[c] = t)
           y1 == One(me'[c] = t)          z1 == One(arg'[c] = t)
           h1 == One(arcs'[t] # {})
<1>8. /\ q \in Int /\ x \in Int /\ y \in Int /\ z \in Int /\ h \in Int
      /\ q1 \in Int /\ x1 \in Int /\ y1 \in Int /\ z1 \in Int /\ h1 \in Int
  BY ONLY DEF One
<1>9. refs'[t] - (q1 + x1 + y1 + z1 + h1) = refs[t] - (q + x + y + z + h)
  BY ONLY <1>6, Zenon DEF Own
<1> HIDE DEF q, x, y, z, h, q1, x1, y1, z1, h1
<1>10. refs[t] = q + Cardinality(Slots(current_thread, t)) + Cardinality(Slots(me, t))
                 + Cardinality(Slots(arg, t)) + Cardinality(Pushing(t)) + h
  BY ONLY <1>2, Zenon DEF q, h
<1>11. /\ Cardinality(Slots(me', t)) - y1 = Cardinality(Slots(me, t)) - y
       /\ Cardinality(Slots(arg', t)) - z1 = Cardinality(Slots(arg, t)) - z
       /\ Cardinality(Slots(current_thread', t)) - x1 = Cardinality(Slots(current_thread, t)) - x
  BY ONLY <1>3, <1>4, <1>5, Zenon DEF x, y, z, x1, y1, z1
<1>12. refs'[t] = q1 + Cardinality(Slots(current_thread', t)) + Cardinality(Slots(me', t))
                  + Cardinality(Slots(arg', t)) + Cardinality(Pushing(t)) + h1
  BY ONLY <1>3, <1>4, <1>5, <1>6, <1>7, <1>8, <1>9, <1>10, <1>11
<1> QED BY ONLY <1>1, <1>12, Zenon DEF q1, h1

\* The clone that unblock makes stays with the push_back that does not return.
LEMMA OomExact ==
    ASSUME Inv, RefsExact, NEW c \in CPUs, Unblock(c), pc'[c] = "unblock_oom"
    PROVE  RefsExact'
<1>1. /\ arg[c] \in Threads /\ pc[c] = "unblock"
      /\ UNCHANGED <<current_thread, me, arg, arcs, runqueue>>
      /\ refs' = [refs EXCEPT ![arg[c]] = @ + 1]
      /\ pc' = [pc EXCEPT ![c] = "unblock_oom"]
  BY Zenon DEF Unblock, SupercallReturn, ServerPc, Clone, At, Goto, Inv, Types, PcOK, ArgPcs,
     SupercallPcs
<1> SUFFICES ASSUME NEW t \in Threads
             PROVE  refs'[t] =
                      Cardinality({i \in DOMAIN runqueue : runqueue[i] = t})
                      + Cardinality(Slots(current_thread, t)) + Cardinality(Slots(me, t))
                      + Cardinality(Slots(arg, t)) + Cardinality(Pushing(t)') + One(arcs[t] # {})
  BY <1>1, Zenon DEF RefsExact, Slots, Pushing, One
<1>2. refs[t] = Cardinality({i \in DOMAIN runqueue : runqueue[i] = t})
                + Cardinality(Slots(current_thread, t)) + Cardinality(Slots(me, t))
                + Cardinality(Slots(arg, t)) + Cardinality(Pushing(t)) + One(arcs[t] # {})
  BY Zenon DEF RefsExact, Slots, Pushing, One
<1>3. IsFiniteSet(Pushing(t)) /\ Cardinality(Pushing(t)) \in Nat
  <2>1. IsFiniteSet(Pushing(t))
    BY ConstantsAssumption, FS_Subset, Zenon DEF Pushing
  <2> QED BY <2>1, FS_CardinalityType, Zenon
<1>4. Cardinality(Pushing(t)') = Cardinality(Pushing(t)) + One(arg[c] = t)
  <2>1. c \notin Pushing(t)
    BY <1>1, Zenon DEF Pushing
  <2>2. CASE arg[c] = t
    <3>1. Pushing(t)' = Pushing(t) \cup {c}
      BY <1>1, <2>2, Zenon DEF Pushing, Inv, Types
    <3> QED BY <1>3, <2>1, <2>2, <3>1, FS_AddElement, Zenon DEF One
  <2>3. CASE arg[c] # t
    <3>1. Pushing(t)' = Pushing(t)
      BY <1>1, <2>3, Zenon DEF Pushing, Inv, Types
    <3> QED BY ONLY <1>3, <2>3, <3>1 DEF One
  <2> QED BY <2>2, <2>3, Zenon
<1>5. refs'[t] = refs[t] + One(arg[c] = t) /\ refs[t] \in Int
  BY <1>1 DEF Inv, Types, One
<1>6. /\ Cardinality({i \in DOMAIN runqueue : runqueue[i] = t}) \in Nat
      /\ Cardinality(Slots(current_thread, t)) \in Nat /\ Cardinality(Slots(me, t)) \in Nat
      /\ Cardinality(Slots(arg, t)) \in Nat
  <2>1. Injective(runqueue)
    BY QueuedElems, Zenon DEF Inv
  <2>2. Cardinality({i \in DOMAIN runqueue : runqueue[i] = t}) = One(t \in Elems(runqueue))
    BY <2>1, QueueSlots, Zenon
  <2> QED BY <2>2, SlotWritten DEF One
<1> QED BY ONLY <1>2, <1>3, <1>4, <1>5, <1>6 DEF One

\* The handle: thread_create makes it, the last Arc to go takes its reference along.
LEMMA HandleReferences ==
    ASSUME Inv, UpcallOK, RefsExact, NEW c \in CPUs,
           \/ SyscallReclaim(c) \/ TerminateReclaim(c) \/ CreateFill(c)
           \/ \E t \in Threads : Create(c, t) \/ ServerDropArc(c, t)
    PROVE  OnlyCpu(c) /\ Balanced(c)
<1> USE Constants DEF Inv, Types, At, Goto
<1>1. /\ me' = me /\ current_thread' = current_thread
      /\ \A t : Queued(t)' <=> Queued(t)
  BY DEF SyscallReclaim, TerminateReclaim, CreateFill, Create, ServerDropArc, Queued, cpuVars
<1>2. OnlyCpu(c)
  BY ZenonT(60) DEF SyscallReclaim, TerminateReclaim, CreateFill, Create, ServerDropArc, OnlyCpu, cpuVars
<1>3. CASE SyscallReclaim(c)
  <2>1. /\ me[c] \in Threads /\ arg' = arg
        /\ arcs' = [arcs EXCEPT ![me[c]] = @ \ {"ctx"}]
        /\ refs' = IF arcs[me[c]] = {"ctx"} THEN [refs EXCEPT ![me[c]] = @ - 1] ELSE refs
    BY <1>3, Zenon DEF SyscallReclaim, TerminatedUpcall, DropArc, Drop, PcOK, MePcs, cpuVars
  <2>2. arcs'[me[c]] = arcs[me[c]] \ {"ctx"}
    BY <2>1, Zenon
  <2>3. arcs[me[c]] = {"ctx"} <=> arcs[me[c]] # {} /\ arcs'[me[c]] = {}
    <3>1. PICK a : a = arcs[me[c]]
      BY Zenon
    <3>2. a = {"ctx"} <=> a # {} /\ a \ {"ctx"} = {}
      BY LastOne, Zenon
    <3> QED BY ONLY <2>2, <3>1, <3>2
  <2> QED BY <1>1, <1>2, <2>1, <2>3, SMTT(60) DEF Balanced, Own, One
<1>4. CASE TerminateReclaim(c)
  <2>1. /\ arg[c] \in Threads /\ arg' = [arg EXCEPT ![c] = NoThread]
        /\ arcs' = [arcs EXCEPT ![arg[c]] = @ \ {"ctx"}]
        /\ refs' = IF arcs[arg[c]] = {"ctx"} THEN [refs EXCEPT ![arg[c]] = (@ - 1) - 1]
                                            ELSE [refs EXCEPT ![arg[c]] = @ - 1]
    BY <1>4, Zenon DEF TerminateReclaim, TerminatedUpcall, DropArc, Drop, PcOK, ArgPcs, SupercallPcs
  <2>2. arcs'[arg[c]] = arcs[arg[c]] \ {"ctx"}
    BY <2>1, Zenon
  <2>3. arcs[arg[c]] = {"ctx"} <=> arcs[arg[c]] # {} /\ arcs'[arg[c]] = {}
    <3>1. PICK a : a = arcs[arg[c]]
      BY Zenon
    <3>2. a = {"ctx"} <=> a # {} /\ a \ {"ctx"} = {}
      BY LastOne, Zenon
    <3> QED BY ONLY <2>2, <3>1, <3>2
  <2> QED BY <1>1, <1>2, <2>1, <2>3, SMTT(60) DEF Balanced, Own, One
<1>5. CASE CreateFill(c)
  <2>1. /\ arg[c] \in Threads /\ arg' = [arg EXCEPT ![c] = NoThread] /\ pc[c] = "create"
        /\ arcs' = [arcs EXCEPT ![arg[c]] = {"ctx", "server"}] /\ refs' = refs
    BY <1>5, Zenon DEF CreateFill, PcOK, ArgPcs
  <2>2. arcs[arg[c]] = {} /\ arcs'[arg[c]] # {}
    BY <2>1, Zenon DEF UpcallOK, UpcallOf
  <2>3. \A t \in Threads : arcs'[t] # {} <=> arcs[t] # {} \/ t = arg[c]
    BY <2>1, <2>2, Zenon
  <2>4. /\ refs' = refs /\ arg[c] \in Threads /\ arg' = [arg EXCEPT ![c] = NoThread]
        /\ me' = me /\ current_thread' = current_thread
    BY <1>1, <2>1, Zenon
  <2> HIDE DEF Inv
  <2>5. /\ arg \in [CPUs -> Threads \cup {NoThread}] /\ refs \in [Threads -> Int]
    BY Zenon DEF Inv
  <2>6. Balanced(c)
    BY <1>1, <2>2, <2>3, <2>4, <2>5 DEF Balanced, Own, One
  <2> QED BY <1>2, <2>6, Zenon
<1>6. ASSUME NEW u \in Threads, Create(c, u) PROVE Balanced(c)
  <2>1. /\ refs' = [refs EXCEPT ![u] = 1] /\ arg' = [arg EXCEPT ![c] = u] /\ arcs' = arcs
        /\ arg[c] = NoThread
    BY <1>6, Zenon DEF Create, InServer, ServerPcs, PcOK, ArgPcs, SupercallPcs
  <2>2. /\ ~Queued(u) /\ arcs[u] = {}
        /\ \A d \in CPUs : me[d] # u /\ arg[d] # u /\ current_thread[d] # u
    BY <1>6, Zenon DEF Create, BornOK
  <2>3. refs[u] = 0
    <3>1. /\ {i \in DOMAIN runqueue : runqueue[i] = u} = {} /\ {d \in CPUs : me[d] = u} = {}
          /\ {d \in CPUs : arg[d] = u} = {} /\ {d \in CPUs : current_thread[d] = u} = {}
          /\ {d \in CPUs : arg[d] = u /\ pc[d] = "unblock_oom"} = {}
      BY <2>2, Zenon DEF Queued
    <3>2. refs[u] = 0 + 0 + 0 + 0 + 0 + 0
      BY <2>2, <3>1, FS_EmptySet, Zenon DEF RefsExact
    <3> QED BY <3>2
  <2> QED BY <1>1, <2>1, <2>2, <2>3 DEF Balanced, Own, One
<1>7. ASSUME NEW u \in Threads, ServerDropArc(c, u) PROVE Balanced(c)
  <2>1. /\ arg' = arg /\ arcs' = [arcs EXCEPT ![u] = @ \ {"server"}] /\ "server" \in arcs[u]
        /\ refs' = IF arcs[u] = {"server"} THEN [refs EXCEPT ![u] = @ - 1] ELSE refs
    BY <1>7, Zenon DEF ServerDropArc, DropArc, Drop, cpuVars
  <2>2. arcs[u] = {"server"} <=> arcs[u] # {} /\ arcs'[u] = {}
    BY <2>1
  <2> QED BY <1>1, <2>1, <2>2 DEF Balanced, Own, One
<1> QED BY <1>2, <1>3, <1>4, <1>5, <1>6, <1>7

\* shared_ref.rs: the counter of a thread is the number of references to it, wherever they
\* are: slots of the run queue, CurrentThreads, local variables of the kernel and the handle.
\* So no thread is used after it is freed, and none leaks.
THEOREM CountsExact == Spec => []RefsExact
<1>1. Init => RefsExact
  <2> SUFFICES ASSUME Init, NEW t \in Threads
               PROVE  refs[t] =
                        Cardinality({i \in DOMAIN runqueue : runqueue[i] = t})
                        + Cardinality({c \in CPUs : current_thread[c] = t})
                        + Cardinality({c \in CPUs : me[c] = t})
                        + Cardinality({c \in CPUs : arg[c] = t})
                        + Cardinality({c \in CPUs : arg[c] = t /\ pc[c] = "unblock_oom"})
                        + (IF arcs[t] # {} THEN 1 ELSE 0)
    BY Zenon DEF RefsExact
  <2>1. /\ {i \in DOMAIN runqueue : runqueue[i] = t} = {} /\ {d \in CPUs : me[d] = t} = {}
        /\ {d \in CPUs : arg[d] = t} = {} /\ {d \in CPUs : current_thread[d] = t} = {}
        /\ {d \in CPUs : arg[d] = t /\ pc[d] = "unblock_oom"} = {}
        /\ arcs[t] = {} /\ refs[t] = 0
    BY Constants DEF Init
  <2>2. 0 = 0 + 0 + 0 + 0 + 0 + 0
    OBVIOUS
  <2> QED BY <2>1, <2>2, FS_EmptySet, Zenon
<1>2. Inv /\ Inv' /\ UpcallOK /\ RefsExact /\ [Next]_vars => RefsExact'
  <2> SUFFICES ASSUME Inv, Inv', UpcallOK, RefsExact, [Next]_vars PROVE RefsExact'
    BY Zenon
  <2>1. ASSUME NEW c \in CPUs, KernelStep(c) \/ ServerStep(c) \/ UserStep(c),
               pc'[c] # "unblock_oom"
        PROVE  OnlyCpu(c) /\ Balanced(c)
    BY <2>1, NoReference, LocalReferences, QueueReferences, SupercallReferences, HandleReferences,
       Zenon DEF KernelStep, ServerStep, UserStep
  <2>2. CASE UNCHANGED vars
    BY <2>2, Zenon DEF vars, objectVars, cpuVars, RefsExact
  <2>3. ASSUME NEW c \in CPUs, KernelStep(c) \/ ServerStep(c) \/ UserStep(c)
        PROVE  RefsExact'
    <3>1. CASE pc'[c] = "unblock_oom"
      <4>1. PushFront(c) \/ Unblock(c)
        BY <2>3, <3>1, StopsOnlyThere, Zenon DEF OomPcs
      <4>2. ~PushFront(c)
        BY <3>1, Zenon DEF PushFront, Goto, Inv, Types
      <4> QED BY <3>1, <4>1, <4>2, OomExact, Zenon
    <3>2. CASE pc'[c] # "unblock_oom"
      <4>1. OnlyCpu(c) /\ Balanced(c)
        BY <2>1, <2>3, <3>2, Zenon
      <4> QED BY <2>3, <3>2, <4>1, PushingKept, BalancedExact, Zenon
    <3> QED BY <3>1, <3>2, Zenon
  <2> QED BY <2>2, <2>3, Zenon DEF Next, AllStopped
<1> QED BY <1>1, <1>2, Invariance, UpcallInvariance, PTL DEF Spec
===============================================================================
