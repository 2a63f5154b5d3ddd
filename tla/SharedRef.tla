-------------------------------- MODULE SharedRef --------------------------------
(***************************************************************************)
(* Reference counting of kernel objects (kernel/src/shared_ref.rs), the    *)
(* handles that servers hold (ftl_api/src/handle.rs), and the spinlock     *)
(* (ftl_utils/src/spinlock.rs) through which references get from one CPU   *)
(* to another, as through the run queue and a server's tables.             *)
(*                                                                         *)
(* One object is modelled.  A reference, raw or wrapped in a Handle, is a  *)
(* member of Refs; `place` says who holds it.                              *)
(*                                                                         *)
(* Memory ordering.  seen[c] contains <<d, loc>> when every access so far  *)
(* of CPU d to loc happens before whatever CPU c does next.  An access of  *)
(* d to loc takes <<d, loc>> from everyone else.  A Release operation      *)
(* leaves the knowledge of its CPU in the view of the atomic variable (an  *)
(* RMW adds to it, a store replaces it); an Acquire takes it over; a       *)
(* Relaxed one does neither.                                               *)
(***************************************************************************)
EXTENDS Integers, FiniteSets

CONSTANTS
    CPUs,
    Refs,            \* the references there can be, a bound
    Types, ObjType,  \* kernel object types, and the object's
    Rights,          \* HandleRight
    DEFAULT_RIGHT    \* of the object's type

ASSUME RefsAssumption == IsFiniteSet(Refs) /\ Refs # {} /\ CPUs # {}
ASSUME RightsAssumption == ObjType \in Types /\ DEFAULT_RIGHT \subseteq Rights

Queue == "queue"    \* the container that the lock protects
Nobody == "nobody"
Nowhere == [kind |-> "none", at |-> Nobody]
Leaked == [kind |-> "leaked", at |-> Nobody]

ASSUME PlacesAssumption == Queue \notin CPUs /\ Nobody \notin CPUs

VARIABLES
    place,       \* where each reference is: held by a CPU or in the container, as a
                 \* SharedRef ("ref") or a Handle ("handle"); leaked; nowhere
    counter,     \* RefCounted.counter
    freed,       \* the object's memory has been freed
    drop_pc,          \* where each CPU is in drop
    owner,       \* the CPU that holds the lock
    seen,
    counterView, \* what is released with the counter
    lockView     \* what is released with the lock

refVars == <<place, counter, freed, drop_pc, owner, seen, counterView, lockView>>

All == CPUs \X {"object", "queue"}
Live == {r \in Refs : place[r] # Nowhere}

\* The CPU holds the reference.  (What is used inside the container, with the lock held,
\* is taken out and put back.)
Holds(c, r, kind) == place[r] = [kind |-> kind, at |-> c]

\* SharedRef::new, by some CPU
RefInit ==
    \E c \in CPUs, r \in Refs :
        /\ place = [x \in Refs |-> IF x = r THEN [kind |-> "ref", at |-> c] ELSE Nowhere]
        /\ counter = 1 /\ freed = FALSE
        /\ drop_pc = [d \in CPUs |-> "idle"] /\ owner = Nobody
        /\ seen = [d \in CPUs |-> IF d = c THEN All ELSE All \ {<<c, "object">>}]
        /\ counterView = All \ {<<c, "object">>} /\ lockView = All \ {<<c, "object">>}

\* What others know of c after it has accessed loc, and c itself
Forget(view, c, loc) == view \ {<<c, loc>>}
SeenAfter(c, loc) ==
    [d \in CPUs |-> IF d = c THEN seen[d] \cup {<<c, loc>>} ELSE Forget(seen[d], c, loc)]

-------------------------------------------------------------------------------
(* References                                                                 *)

\* Deref: the object's fields are accessed.
Deref(c) ==
    /\ drop_pc[c] = "idle" /\ \E r \in Refs : Holds(c, r, "ref")
    /\ seen' = SeenAfter(c, "object")
    /\ counterView' = Forget(counterView, c, "object")
    /\ lockView' = Forget(lockView, c, "object")
    /\ UNCHANGED <<place, counter, freed, drop_pc, owner>>

\* fetch_add, Relaxed.  The new reference is the CPU's.
Clone(c, r) ==
    /\ place[r] = Nowhere
    /\ place' = [place EXCEPT ![r] = [kind |-> "ref", at |-> c]]
    /\ counter' = counter + 1
    /\ seen' = SeenAfter(c, "object")
    /\ counterView' = Forget(counterView, c, "object")
    /\ lockView' = Forget(lockView, c, "object")
    /\ UNCHANGED <<freed, drop_pc, owner>>

CloneRef(c, r) ==
    drop_pc[c] = "idle" /\ (\E q \in Refs : Holds(c, q, "ref")) /\ Clone(c, r)

\* into_handle: into_raw and Handle::new
into_handle(c, r) ==
    /\ drop_pc[c] = "idle" /\ Holds(c, r, "ref")
    /\ place' = [place EXCEPT ![r] = [kind |-> "handle", at |-> c]]
    /\ UNCHANGED <<counter, freed, drop_pc, owner, seen, counterView, lockView>>

\* clone_from_raw.  Faulty variant: the borrowed reference is dropped again, for want of
\* ManuallyDrop.
CloneFromRawDropped(c, r) ==
    /\ place[r] = Nowhere
    /\ place' = [place EXCEPT ![r] = [kind |-> "ref", at |-> c]]
    /\ seen' = SeenAfter(c, "object")
    /\ counterView' = Forget(counterView, c, "object")
    /\ lockView' = Forget(lockView, c, "object")
    /\ UNCHANGED <<counter, freed, drop_pc, owner>>
CloneFromRaw(c, r) == Clone(c, r)

\* from_borrowed_handle::<T>(handle, action); an error changes nothing.
from_borrowed_handle(c, r, T, action) ==
    /\ drop_pc[c] = "idle" /\ \E h \in Refs : Holds(c, h, "handle")
    /\ IF T = ObjType /\ action \subseteq DEFAULT_RIGHT
       THEN CloneFromRaw(c, r) ELSE UNCHANGED refVars

\* from_moved_handle::<T>(handle): the handle is gone, and with the wrong type the reference
\* is nobody's.
from_moved_handle(c, r, T) ==
    /\ drop_pc[c] = "idle" /\ Holds(c, r, "handle")
    /\ place' = [place EXCEPT ![r] = IF T = ObjType THEN [kind |-> "ref", at |-> c] ELSE Leaked]
    /\ UNCHANGED <<counter, freed, drop_pc, owner, seen, counterView, lockView>>

\* drop: fetch_sub, Release.  Faulty variant: Relaxed.
ReleaseCounterRelaxed(c) == Forget(counterView, c, "object")
ReleaseCounter(c) == counterView \cup seen[c] \cup {<<c, "object">>}

Drop(c, r) ==
    /\ drop_pc[c] = "idle" /\ Holds(c, r, "ref")
    /\ place' = [place EXCEPT ![r] = Nowhere]
    /\ counter' = counter - 1
    /\ seen' = SeenAfter(c, "object")
    /\ counterView' = ReleaseCounter(c)
    /\ lockView' = Forget(lockView, c, "object")
    /\ drop_pc' = [drop_pc EXCEPT ![c] = IF counter = 1 THEN "fence" ELSE "idle"]
    /\ UNCHANGED <<freed, owner>>

\* fence(Acquire): what the fetch_sub has read was released by all the earlier ones.
Fence(c) ==
    /\ drop_pc[c] = "fence"
    /\ seen' = [seen EXCEPT ![c] = @ \cup counterView]
    /\ drop_pc' = [drop_pc EXCEPT ![c] = "free"]
    /\ UNCHANGED <<place, counter, freed, owner, counterView, lockView>>

FreeObject(c) ==
    /\ drop_pc[c] = "free"
    /\ freed' = TRUE
    /\ drop_pc' = [drop_pc EXCEPT ![c] = "idle"]
    /\ UNCHANGED <<place, counter, owner, seen, counterView, lockView>>

-------------------------------------------------------------------------------
(* SpinLock                                                                   *)

\* try_lock succeeds: compare_exchange, Acquire.
Lock(c) ==
    /\ drop_pc[c] = "idle" /\ owner = Nobody
    /\ owner' = c
    /\ seen' = [seen EXCEPT ![c] = @ \cup lockView]
    /\ UNCHANGED <<place, counter, freed, drop_pc, counterView, lockView>>

\* A reference is put into the container, or taken out of it.
Access(c) ==
    /\ drop_pc[c] = "idle" /\ owner = c
    /\ seen' = SeenAfter(c, "queue")
    /\ counterView' = Forget(counterView, c, "queue")
    /\ lockView' = Forget(lockView, c, "queue")
    /\ UNCHANGED <<counter, freed, drop_pc, owner>>

PushRef(c, r) ==
    Access(c) /\ place[r].at = c /\ place' = [place EXCEPT ![r].at = Queue]

PopRef(c, r) ==
    Access(c) /\ place[r].at = Queue /\ place' = [place EXCEPT ![r].at = c]

\* SpinLockGuard::drop: store, Release.  Faulty variant: Relaxed.
ReleaseLockRelaxed(c) == {}
ReleaseLock(c) == seen[c]

Unlock(c) ==
    /\ drop_pc[c] = "idle" /\ owner = c
    /\ owner' = Nobody
    /\ lockView' = ReleaseLock(c)
    /\ UNCHANGED <<place, counter, freed, drop_pc, seen, counterView>>

-------------------------------------------------------------------------------
RefNext ==
    \E c \in CPUs :
        \/ Deref(c) \/ Fence(c) \/ FreeObject(c) \/ Lock(c) \/ Unlock(c)
        \/ \E r \in Refs :
               \/ CloneRef(c, r) \/ into_handle(c, r) \/ Drop(c, r)
               \/ PushRef(c, r) \/ PopRef(c, r)
               \/ \E T \in Types : from_moved_handle(c, r, T)
               \/ \E T \in Types, action \in SUBSET Rights :
                      from_borrowed_handle(c, r, T, action)

RefSpec == RefInit /\ [][RefNext]_refVars

-------------------------------------------------------------------------------
(* Properties                                                                 *)

\* The counter is the number of references, wherever they are; the object is freed, or
\* just being freed by one CPU, exactly when there are none.  So it is freed once, no
\* reference outlives it, and without references it does not stay.  (into_raw, from_raw
\* and ManuallyDrop in clone_from_raw keep the count by hand.)
CounterExact ==
    /\ counter = Cardinality(Live)
    /\ Live = {} <=> freed \/ \E c \in CPUs : drop_pc[c] # "idle"
    /\ \A c \in CPUs : drop_pc[c] # "idle" => ~freed /\ \A d \in CPUs : drop_pc[d] # "idle" => c = d

\* Every access of every CPU to the object happens before it is freed, although clone is
\* Relaxed and drop only a Release: the fence takes over what all the drops released.
FreeOrdered ==
    \A c \in CPUs : drop_pc[c] = "free" => \A d \in CPUs : <<d, "object">> \in seen[c]

\* Who has the lock sees every earlier access to what it protects.
LockOrdered ==
    \A c \in CPUs : owner = c => \A d \in CPUs : <<d, "queue">> \in seen[c]
===============================================================================
