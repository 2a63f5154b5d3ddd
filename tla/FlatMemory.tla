------------------------------ MODULE FlatMemory ------------------------------
(***************************************************************************)
(* What a VmArea promises: an array of bytes, all zero at first, of which  *)
(* write() and read() copy a range.  A copy may be cut short by an error,  *)
(* which leaves a prefix copied; it never touches a byte outside its range.*)
(***************************************************************************)
EXTENDS Integers, Sequences

CONSTANTS Length, Bytes, Zero, Buffers, MaxUsize

VARIABLES
    mem,     \* the array
    call,    \* the call in progress: "none", "write" or "read"
    offset,  \* where it goes on
    data,    \* write: what is left to copy; read: how much is, as a sequence
    buf,     \* read: what has been copied so far
    result   \* the outcome of the last call

vars == <<mem, call, offset, data, buf, result>>

Init ==
    /\ mem = [o \in 0..(Length - 1) |-> Zero]
    /\ call = "none" /\ offset = 0 /\ data = <<>> /\ buf = <<>> /\ result = "none"

Begin(o, d) ==
    /\ call = "none"
    /\ \/ /\ o + Len(d) <= Length
          /\ call' \in {"write", "read"}
          /\ offset' = o /\ data' = d /\ buf' = <<>> /\ result' = "none"
       \/ /\ o + Len(d) > Length
          /\ result' = "OUT_OF_BOUNDS"
          /\ UNCHANGED <<call, offset, data, buf>>
    /\ UNCHANGED mem

CopyIn(n) ==
    /\ call = "write"
    /\ mem' = [o \in DOMAIN mem |->
                  IF o \in offset..(offset + n - 1) THEN data[o - offset + 1] ELSE mem[o]]
    /\ UNCHANGED buf

CopyOut(n) ==
    /\ call = "read"
    /\ buf' = buf \o [k \in 1..n |-> mem[offset + k - 1]]
    /\ UNCHANGED mem

Copy ==
    \E n \in 1..Len(data) :
        /\ CopyIn(n) \/ CopyOut(n)
        /\ offset' = offset + n
        /\ data' = SubSeq(data, n + 1, Len(data))
        /\ UNCHANGED <<call, result>>

End ==
    /\ call # "none"
    /\ \/ data = <<>> /\ result' = "Ok"
       \/ data # <<>> /\ result' = "OUT_OF_MEMORY"
    /\ call' = "none"
    /\ UNCHANGED <<mem, offset, data, buf>>

Next ==
    \/ \E o \in 0..MaxUsize, d \in Buffers : Begin(o, d)
    \/ Copy \/ End

Spec == Init /\ [][Next]_vars
===============================================================================
