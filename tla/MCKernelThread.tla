---------------------------- MODULE MCKernelThread ----------------------------
(* Instances of KernelThread for TLC.                                         *)
EXTENDS KernelThread, TLC

\* A server whose handlers may address every thread.
AnyPeers == [t \in Threads |-> Threads]

\* The lx server: a handler addresses the thread it serves.
OwnThread == [t \in Threads |-> {t}]

Symmetry == Permutations(Threads)
===============================================================================
