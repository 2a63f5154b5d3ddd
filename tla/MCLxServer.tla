------------------------------ MODULE MCLxServer ------------------------------
(* Instances of LxServer for TLC.                                              *)
EXTENDS LxServer, TLC

Call(n, a, b, c) == [n |-> n, arg0 |-> a, arg1 |-> b, arg2 |-> c]

\* Iovecs in user memory: two mapped pieces; a mapped one and one that runs past the
\* end of the memory.
MCIovecsAt ==
    10 :> <<Iovec(11, 3), Iovec(15, 2)>> @@ 12 :> <<Iovec(10, 1), Iovec(14, 4)>>

MCCalls ==
    { Call(SYS_WRITE, 1, 10, 5), Call(SYS_WRITE, 2, 14, 6), Call(SYS_WRITE, 1, 4, 1),
      Call(SYS_WRITE, 3, 10, 1), Call(SYS_WRITEV, 1, 10, 2), Call(SYS_WRITEV, 2, 12, 2),
      Call(SYS_WRITEV, 1, 10, 3), Call(SYS_WRITEV, 1, 4, 1), Call(SYS_WRITEV, 1, 10, 0),
      Call(SYS_WRITEV, 1, 10, 4), Call(SYS_WRITEV, 3, 10, 1),
      Call(SYS_ARCH_PRCTL, ARCH_SET_FS, 9, 0), Call(SYS_ARCH_PRCTL, 1, 0, 0), Call(SYS_SET_TID_ADDRESS, 0, 0, 0),
      Call(39, 0, 0, 0),
      Call(SYS_EXIT, 0, 0, 0), Call(SYS_EXIT_GROUP, 0, 0, 0) }

\* A thread that writes, sets its fsbase and exits: enough for what two CPUs can do.
MCFewCalls ==
    { Call(SYS_WRITE, 1, 10, 3), Call(SYS_ARCH_PRCTL, ARCH_SET_FS, 9, 0),
      Call(SYS_EXIT, 0, 0, 0) }

Symmetry == Permutations(Threads)
===============================================================================
