# FTL: a TLA+ model of the kernel, its allocators and the lx server

FTL is a small microkernel in Rust. One address space holds the kernel and its
*servers*; user programs run in user mode, and a server (`lx`) gives them Linux system
calls. This directory holds specifications of its parts, from the boot loader's tables to
the system calls of a user thread, the TLC instances that check them, and TLAPS proofs of
their main safety properties for every number of CPUs, threads, references, memory ranges,
allocations, mappings and arguments.

Paths below are relative to the repository's `src/`.

## 1. The system

| part | source | state | operations |
|---|---|---|---|
| threads | `kernel/src/thread.rs` | `state`, `in_upcalls` under a spinlock; saved registers in an `UnsafeCell` | `handle_syscall`, `terminate`, `unblock`, `read_context`, `write_context`, `is_runnable`, `CurrentThread::{clear,thread,update,enter}` |
| scheduler | `kernel/src/{scheduler,syscall}.rs` | the run queue | `push_front`, `push_back`, `pop`, `return_to_user` |
| shared references, handles | `kernel/src/shared_ref.rs`, `libs/rust/ftl_api/src/handle.rs` | a counter per object | `clone`, `drop`, `into_raw`, `from_raw`, borrowed and moved handles |
| upcalls | `libs/rust/ftl_api/src/{upcall,thread}.rs`, `kernel/src/server.rs` | a `UserData` box per object | `Upcall::new`, the Syscall and Terminated upcalls, the thread supercalls |
| boot memory map, page allocator | `kernel/src/memory.rs`, `libs/rust/ftl_bump_allocator` | reserved ranges, regions | `bubble_sort`, `visit_unused_regions`, `add_region`, `alloc` |
| heap | `kernel/src/memory.rs`, `libs/rust/ftl_malloc`, `libs/rust/ftl_api/src/allocator.rs` | a free list of headers | `malloc`, `free`, `add_chunk`, `alloc`, `dealloc` |
| VM areas | `kernel/src/vmarea.rs` | pages filled on demand | `ensure_page`, `read`, `write` |
| address spaces | `kernel/src/vmspace.rs`, `kernel/src/arch/x64/vmspace.rs` | sorted mappings, four-level tables | `new`, `map`, `read_bytes` |
| context save and restore | `kernel/src/arch/x64/{thread,syscall,idt}.rs` | the registers of a thread | `syscall_handler`, `interrupt_entry`, `enter` |
| lx server | `servers/lx/src/` | a process per thread | `spawn`, the syscall handler and its calls |
| process image, initial stack | `servers/lx/src/{process,elf}.rs` | VM areas, a stack buffer | `Process::create`, `start`, `estimate_stack_size`, `build_initial_stack` |
| loader, initfs, ELF | `kernel/src/{loader,initfs,server}.rs`, `libs/rust/ftl_elf` | an archive offset, a server image | the archive iterator, `load_elf`, `server::init` |
| boot tables | `kernel/src/arch/x64/{multiboot,pvh,mp_table}.rs` | table offsets, `BootInfo` | the parsers, `mp_table::init` |
| boot sequence, interrupts | `kernel/src/arch/x64/{boot,gdt,idt,pic,timer,io_apic,local_apic,cpuvar}.rs` | descriptor tables, GS, interrupt state | the `init`s, entry and exit, `handle_interrupt` |
| console, printing | `kernel/src/arch/x64/console.rs`, `print.rs` | none | output |

How they interact: `rust_boot` sets up tables and devices, parses what the boot loader left
and loads the servers of the archive; the lx server creates a process with one thread in
it; then the kernel enters user mode and is entered from there only. A thread enters the kernel by a system call or an interrupt. A
system call blocks it and calls the server's handler (an *upcall*) on the same CPU. The
handler calls back into the kernel (*supercalls*) to read and write the saved registers,
to unblock or to terminate the thread, possibly while other CPUs do the same.
`return_to_user` then picks the next thread of the run queue. VM areas and page tables
take pages from the page allocator, which never takes one back; the heap takes chunks.

What is hard about it:

* `unblock` makes a thread visible in the run queue before it is runnable;
* a handler can still run while its thread, already unblocked, runs elsewhere and even
  makes its next system call, so that `in_upcalls` exceeds 1;
* termination must free the `UserData` once, by whichever of `terminate` and the last
  handler comes last;
* references move between raw pointers, queue slots and locals;
* memory can run out between any two steps, and a half-done `map` is not undone;
* two entry paths save registers differently and one path restores them;
* a reference count is handled with relaxed and release operations and a fence, and by
  hand where a reference is a raw pointer or a handle;
* sizes and addresses are computed twice, once to allocate and once to write, with
  alignments that round in different directions.

PROJECT.json lists each hazard with its line and the properties aimed at it.

## 2. Modules

| module | models | used by |
|---|---|---|
| `KernelThread` | threads, scheduler, references, upcalls | `MCKernelThread`, `KernelThreadProofs`, `KernelThreadUpcallProofs` |
| `PhysMemory` | boot memory map and page allocator | `MCPhysMemory`, `MemoryLayoutProofs` |
| `PageSource` | what the page allocator promises (abstract) | `PhysMemory` |
| `Heap` | the free list and the global allocator | `MCHeap`, `KernelObjectProofs` |
| `VmArea` | an anonymous area | `MCVmArea`, `KernelObjectProofs` |
| `FlatMemory` | what an area promises (abstract) | `VmArea` |
| `VmSpace` | address spaces and page tables | `MCVmSpace`, `PageTableProofs`, `VmSpaceProofs`, `VmTranslationProofs` |
| `LxServer` | registers, entry paths, the lx system calls | `MCLxServer`, `LxServerProofs` |
| `SharedRef` | one counted object, handles, a spinlock, memory ordering | `MCSharedRef`, `KernelObjectProofs` |
| `BootTables` | multiboot2, PVH and MP table parsers, timer routing | `Startup` |
| `ElfFile` | `Elf::parse` and what an ELF file holds | `ServerLoader`, `LxProcess` |
| `ServerLoader` | the archive iterator, `load_elf`, `server::init` | `Startup` |
| `InitialStack` | `estimate_stack_size`, `build_initial_stack` | `LxProcess`, `MemoryLayoutProofs` |
| `LxProcess` | `Process::create` and `start` | `Startup` |
| `Startup` | the boot sequence, composed of the four above, and the way to user mode and back | `MCStartup` |

Operators named in a comment as *faulty variant* are plausible mistakes in the definition
that follows them. No specification uses them; each is known to break a property. There is
one per property in PROJECT.json, and a few more.

### KernelThread

`pc[c]` names the activity of CPU `c`: user code, server code, or a point inside the
kernel. A step is one critical section of `Thread::mutable`, one operation on the run
queue, or CPU-local work. Two critical sections are split, because other CPUs act
meanwhile on what their lock does not protect: `unblock` (`Unblock`, `UnblockSet`) and
the context accesses (`ContextLock`, `ContextUnlock`). `handle_syscall` is
`SyscallEntry`, `SyscallBlock`, `HandlerReturn`, `SyscallUnpin`, `SyscallReclaim` and
`SyscallDrop`; `return_to_user` is `ReturnToUser`, `Requeue`, `PushFront`, `Pick`,
`Check` and `Enter`. `me[c]` and `arg[c]` are the references held by local variables.

* Only the BSP starts today: `arch/x64/cpuvar.rs` has a `todo!()` for other CPUs. The
  instances with two CPUs check what the locks, `in_upcalls` and the SAFETY comments are
  there for. `idle()` is a `todo!()` too, so an idle CPU stops for good.
* `QueueCap` is the number of queue entries for which there is memory. When it is used up,
  `try_reserve` does not return the error that its callers handle: the allocator panics
  (`kernel/src/memory.rs:52-58`). The CPU stops at `push_front_oom` or `unblock_oom`, with
  the lock of the run queue, in `unblock` also that of the thread, and with the clone it
  made; other CPUs spin when they need one of these locks (`QueueUnlocked`, `SpinsForever`).
  That the allocator's own lock stays taken too is left out.
* `Peers` says which threads a handler may address besides its own.
* Left out: checks of handle types and rights, which succeed for the handles `ftl_api`
  makes (`SharedRef` has them); the failure of `thread_create`, which changes nothing;
  references to a VmSpace.
* With several CPUs a terminated thread may stay in user mode until it next enters the
  kernel, so `TerminatedNeverRuns` is stated for one CPU.

### PhysMemory and PageSource

`memory::init` is modelled iteration by iteration, an allocation as one step. A range is
`[start, end]`. `BootMapOK` says what is assumed of the boot loader: free RAMs are
disjoint, and a reserved range does not end before it starts. Reserved ranges may overlap
each other and the RAM in any way. `PageSource` allows any aligned, usable block that is
disjoint from all earlier ones; `given` counts the allocations, so that handing out a block
a second time is a step, and one that `PageSource` does not allow.

### Heap

`headers` maps an address to the header written there; the walk along the free list is
modelled node by node. Chunks come from a page allocator that may run out at any time.
Kernel and servers run the same list code and differ in where a chunk comes from.

### VmArea and FlatMemory

`write` and `read` copy page by page, and each page may fail to be allocated. Under the
mapping `Contents`, in which an unfilled page reads as zeros, an area implements
`FlatMemory`, a flat array in which a copy can be cut short but never strays. Stores of
user threads through a mapping are left out.

### VmSpace

Calls on one space exclude each other; calls on two spaces interleave page by page.
`ArchMap` walks and extends the four levels; `BOOT_PDPT` is shared by all spaces. `stray`
records the addresses a failed `map` left translated, and `op` the call in progress or
its outcome. Filling a page and entering it into the tables is one step. Page attributes,
`switch`, and a failing reservation for the mapping vector are left out.

### LxServer

The register file with the classes the code treats differently (`rbx` stands for those
every path treats alike), the two entry paths, `enter`, and the handler with its system
calls. Thread and scheduler operations are single steps here; `KernelThread` has their
interleavings. Handler variables belong to a CPU, since two handlers of one thread may
overlap. A byte of user memory is identified by its address. The short copy of
`read_bytes` is modelled, with the old contents of the buffer behind it. A push to the run
queue beyond `QueueCap` entries may succeed or stop the CPU below the handler's `expect`s
(`RunOut`, at `"oom"`), and the queue is locked from then on. Left out:
`swapgs`, segment and SSE registers, user writes to `fsbase`, a negative `iovcnt`, the way
a piece is displayed. `Process::create` is in `LxProcess`.

### SharedRef

One object, a set of references, and a container behind a spinlock through which CPUs
hand references to each other (the run queue, `SERVERS`). A reference is held by a CPU or
lies in the container, as a `SharedRef` or as a `Handle`, or is leaked, which is what
`from_moved_handle` does on a wrong type (a TODO in the code). `drop` is three steps:
`fetch_sub`, `fence`, free. Handles that no code releases (those of address spaces and
areas) just stay in their place.

Memory ordering is modelled by what it guarantees. `seen[c]` holds `<<d, x>>` when the
last access of CPU `d` to `x` (the object, or the container) happens before what `c` does
next. An access of `d` takes `<<d, x>>` out of every other set. A release operation adds
the CPU's set to the set of the atomic variable (`counterView`, `lockView`), an acquire
operation adds that to the CPU's. A relaxed operation moves nothing; a read-modify-write
keeps what earlier releases left in the variable (the release sequence), a plain store
replaces it. An access is ordered after another exactly if a chain of such operations
connects them, so that a missing element is a race the language does not exclude.

### BootTables

The tags of the multiboot2 information, the PVH lists and the MP entries lie at offsets;
a walk that is out of step with them finds nothing there. `TagsDone` is the end of the
loop; `MpNext` has one pass for the ISA bus and the I/O APIC and one for the timer (the
first pass of `mp_table::init` only prints), with every `assert!` and `expect` a panic.
`MpOK` says when a table is sound: one ISA bus, one I/O APIC, and a timer on one of its pins.
`ioapic_num_entries` is the register's field, which holds the index of the last entry and is
compared as if it were a number of entries; so a sound table with the timer on the last pin is
refused, and the `unwrap` panics. `PanicExplained` names this panic apart from the others
(`TimerOnLastPin`). A memory map has entries of 24 bytes.

### ElfFile, ServerLoader

A file is a record of the header's checks, program headers, dynamic entries and
relocations at their addresses; the byte at file offset `o` is `FileByte(o)`. An archive
is a sequence of entries at offsets with the real 110-byte header, so that alignment and
truncation are as in the code. `image` is the server's memory byte by byte. Assumed of the
inputs: a server has a non-empty Load segment, and its dynamic and relocation tables lie
inside the image and are not overwritten by relocations (the code follows both addresses
unchecked). An image is not given back when loading fails, as in the code.

### InitialStack, LxProcess

The estimate goes over the strings, the writer writes word by word and string by string;
`buf` holds what was written at which offset. `Process::create` takes the segments in
order; each of its supercalls may run out of memory (`oom`), and every error ends in one of
the `expect`s. A segment that overlaps an earlier one, or has a page in the kernel's half
(from `KernelBase` on), is refused by `map`. `mappings` keeps the contents with the attributes, so that `ImageExact` can
compare each user address with the executable.

### Startup

Composes the four modules: `cat` says where the CPU is, `rust_boot` calls them in its
order, and every panic of one stops it. `machine` is the firmware, chosen in `Init` from
`Machines`. The timer's pin, its redirection entry, the request and in-service bits of the
local APIC, the interrupt flag, and the two GS bases are state; `Tick`, `Interrupt` and
`Exception` are the hardware's and the user's steps; the timer ticks once `timer::init` has
programmed the PIT. An `Exception` comes from user code: `interrupt_entry` swaps GS whatever it
interrupts (a TODO at `arch/x64/idt.rs:103` says so), hence `KernelReady` is about entries
from user mode only. Left out: exceptions inside the kernel or a server, register layouts, the
assembly before `rust_boot`, `memory::init` (`PhysMemory` has it), what a system call does
(`KernelThread`, `LxServer`). At most one lx server per machine. `TICKS` starts
below its maximum, as in the code, so that it wraps at `TickMod`.

## 3. Model checking

| run | instance | distinct states | shows |
|---|---|---|---|
| `threads_smp` | 2 CPUs, 3 threads, any peers, 2 queue entries | 441,450 | `TypeOK`, `OneOwner`, `NoLostThread`, `ArchExclusive`, `UserDataPinned`, `RefsExact`, `PanicOnlyForMemory` |
| `threads_live` | 2 CPUs, 2 threads, own thread only, 2 queue entries, fair | 64,940 | `PanicOnlyForMemory`, `TerminationDelivered`, `QueuedRuns`, `TerminatedFreed` |
| `shared_ref` | 3 CPUs, 3 references, 2 types, 2 rights | 413,990 | `CounterExact`, `FreeOrdered`, `LockOrdered` |
| `startup` | 50 machines, fair | 27,612 | `BootInfoExact`, `FilesExact`, `ServersExact`, `ImageExact`, `StackExact`, `KernelReady`, `PanicExplained`, `TimerTicks` |
| `phys_memory` | 3 reserved ranges over 5 layouts of RAM | 276,562 | `RegionsUsable`, `RegionsComplete`, `ImplementsPageSource` |
| `heap` | 2 chunks, 5 sizes, 2 alignments | 214,327 | `Tiling`, `FreeListExact`, `LiveSound`, `NewChunkServes` |
| `vm_area` | 3 pages of 2 bytes, 0 to 3 pages to be had | 31,502 | `ImplementsFlatMemory` |
| `vm_space` | 2 spaces, 2 areas, 0 to 10 pages, reads across and past mappings | 295,522 | `MappingsSorted`, `TranslationExact`, `PagesExclusive`, `ReadAgrees`, `ReadRefused` |
| `lx` | 1 CPU, 2 threads, 17 calls, 1 queue entry | 247,381 | `WriteExact`, `ResumeExact` |
| `lx_smp` | 2 CPUs, 2 threads, 3 calls, 2 queue entries, fair | 204,302 | `NoServerPanic`, `ResumeExact`, `SyscallAnswered` |
| `vm_kernel_table` | 1 space, one address above the user half | | violates `KernelTableFixed` |
| `vm_read_fills` | 1 space, reads across and past mappings | | violates `ReadFills` |

`Tiling`, `PagesExclusive` and `WriteExact` contain the type invariants of their modules.

**Why the bounds are enough to be interesting.** Two CPUs give every pairwise race, and
three threads let one be queued while two CPUs hold the others; two in-flight upcalls of
one thread occur. A queue of two entries for three threads makes the kernel run out
of memory in both places, and one of two entries for two threads shows that it never does
when there is a slot for each. Three reserved ranges give every order, overlap and containment of
neighbours; the RAM layouts include one cut by the direct map and one whose end
overflows, and three regions make `add_region` drop one. Heap sizes are chosen on both
sides of the split limit, of the chunk size and of the `u32` limit; the alignments are the
largest that a header has and one above it. The ten pages of
`vm_space` let the allocator run out at every level of a walk, and its addresses lie on
both sides of the boundary of a table of every level. Buffers of two bytes make
writes of several pieces short. Three CPUs let one free an object that two others have
used, with a handover between any two. The 50 machines vary one part at a time around a
sound one: tags of sizes that need rounding, more RAMs and modules than there is room
for, MP tables without, with two, or with a misplaced entry of each kind, a timer on the last
pin and beyond it, name lengths of
every residue modulo 4, archives cut off in a header, a name and a file, servers with
overlapping segments, zero-filled tails, relocations at and beyond the end of the image
and wrong ones of every kind, executables with segments that start inside a page, share
one, overlap, or end at, cross and lie above `KernelBase`, arguments that just fit and just do not, and memory that runs out in any
call. Pages have 64 bytes and the stack 512, so that these cases are small. Symmetry is used only where threads or spaces are
interchangeable and no liveness is checked.

**Fairness.** `threads_live`: kernel steps go on (WF, interrupts are disabled there);
the timer ticks (WF on `Interrupt`); handlers and boot code are straight-line code that
returns (SF on `HandlerReturn`, `BootDone`); a thread that keeps running makes a system
call some time (SF on `SyscallEntry`, strong because interrupts disable it again and
again). The last one is an assumption about programs: the scheduler puts an interrupted
thread back to the *front* of the queue, so a thread that never makes a system call is
never preempted, and `QueuedRuns` says nothing about threads that wait behind it. Handlers address their own thread only, as in lx; the spinlock is not
fair, and with arbitrary peers a CPU could lose the race for it for ever. No thread
faults in this run. `lx_smp` assumes only that handlers go on. `startup`: the CPU executes
the kernel (WF), the timer ticks (WF), and a deliverable interrupt is delivered before the
user's next instruction (WF); nothing is assumed of user code, which may fault for ever.

**Where code and comments differ.** Neither of the two is assumed away in the other runs,
except that `vm_space` maps user-half addresses only.

* `vm_kernel_table`: `kernel/src/arch/x64/vmspace.rs:191` says "Keep kernel mappings
  immutable from this API."; an address above the user half and below `KERNEL_BASE` is
  accepted, and its table index leads into the shared `BOOT_PDPT`.
* `vm_read_fills`: `kernel/src/vmspace.rs:115` says "Check if the read is out of
  bounds."; a read that runs past the last mapping returns `Ok`, its buffer not full.

A third one needs no run: `kernel/src/shared_ref.rs:54` wants allocation errors "handled
by the caller, not panicking", and the global allocator panics (`kernel/src/memory.rs:53`,
`:71`). In `Heap` these are `OutOfMemory` and `NewChunkFails`, after which nothing runs; in
`KernelThread` and `LxServer` a CPU stops in the middle of a push.

## 4. Proofs

The proofs hold for all constants that satisfy the named assumptions of the modules
(`ConstantsAssumption`, `PhysAssumption`, `HeapAssumption`, `VmAreaAssumption`,
`VmSpaceAssumption`, `LxAssumption`, those of `InitialStack` and `SharedRef`): any finite sets
of CPUs, threads and references, any queue memory, any memory map within `BootMapOK`, any
chunks and layouts, any spaces, areas and page size, any arguments and stack size, any system
calls, vectors and buffer size. Page tables may have any even number of entries.

A proof module is about one component, or about a part of it where the component is large;
`MemoryLayoutProofs` and `KernelObjectProofs` each hold the proofs of several small ones, one
section after the other. Where two components would use the same name, the names in the
smaller one begin with `Area`, `Ref` or `Stack`.

**KernelThreadProofs.** `OneOwner`, `NoLostThread` and `ArchExclusive` are not inductive
as they stand. `Inv` adds a *token* per thread (`TokenOK`): a runnable thread has exactly
one place, a slot of the queue or a CPU's hands; a blocked thread has none, except
between `unblock`'s push and its change of state, where whoever pops the thread waits for
the lock. `LockOK` ties the lock to the two split critical sections and says that a
locked thread is blocked; `PcOK` ties control points to what a CPU holds; `BornOK`,
`QueueInjective` and `HoldsUnique` complete it. One lemma per action; steps that move no
thread share one.

Two more follow from `Inv` that no run lists: `IdleMeansNoWork`, and, for one CPU,
`TerminatedNeverRuns`.

**KernelThreadUpcallProofs.** Upcalls have an invariant of their own, `UpcallOK`: `in_upcalls` is the number of CPUs inside
`handle_syscall`'s upcall of the thread, and at most one CPU is about to reclaim the
`UserData`, after that number reached 0. From it and `Inv`: `TypeOK` (no underflow of
`in_upcalls`), `UserDataPinned` and `PanicOnlyForMemory`. The last one is a pigeonhole
argument: a thread about to be pushed is in no slot, and no thread is in two, so that a queue
with a slot per thread has one left.

`RefsExact` is a sum of cardinalities over the places a reference can be. The lemmas on
counting say what one assignment does to each: a push or a pop of the queue, a local variable
that takes or loses a thread. An action then moves a reference (the sum stays), clones it or
drops it, and the counter follows; the place a reference leaves is known from `Inv`.

**MemoryLayoutProofs: PhysMemory.** `Inv` has the invariants of the sort (the tail is sorted and above
the rest; nothing is lost), of the visit (what lies before the cursor has been dealt with),
of the regions and of the blocks. From it: `TypeOK`, `ReservedSorted`, `RegionsUsable`,
`BlocksSound`, and the refinement `ImplementsPageSource`. `RegionsComplete` needs one fact
more, `CompleteInv`: unless the array of regions is full, every usable address that the
visit has passed is in a region. The cursor passes it either with the gap that holds it, which
becomes a region, or with a reserved range, in which it would not be usable.

**MemoryLayoutProofs: InitialStack.** The estimate runs before anything is written, so the invariant has
to carry its results through the build: during the estimate `offset` is the size of what it
has gone over; during the build the next write goes where the estimate put it, and the
room left covers what is still to be written. From it: `StackExact`, and `EstimateCovers`
(no write of the build can fail; no run lists it).

**KernelObjectProofs: VmArea.** `AreaTypeOK` is inductive. The refinement `ImplementsFlatMemory` rests on one
fact about addresses: the `CopyLen` bytes an iteration copies lie in one page, at
consecutive offsets, so that a page's worth of the copy is a slice of the flat array.

**KernelObjectProofs: SharedRef.** `FreeOrdered` speaks of the moment of the free only. `RefInv` adds
`Carried`: for each CPU's last access to the object, it is known in `counterView`, or where
some live reference is (to its holder, or to whoever next has the container); when the
last reference is dropped, `counterView` has all of them. `QueueKnown` is the same for the
container. `CounterExact` needs the cardinality of the set of references.

**KernelObjectProofs: Heap.** `Tiling` alone is not inductive: a split keeps it only if the chunk it
splits is free and is linked where `prev` says. `IInv` adds that allocations own their
headers (`Owned`), why a request can be refused (`Served`), and the shape of the free list
with the place of the walk in it (`Listed`). The last is stated without recursion: there is
an order `r` of the free headers that falls by one along every link. From it follows that the
list ends, that it leaves no free header out, and that exactly one link leads to the chunk that
is taken. From it: `Tiling`, `LiveSound`, `NewChunkServes`, and `FreeListExact`, where the
recursive path along the list is shown to be the order `r` read backwards. `HeapAssumption` asks
that the capacity of a chunk lies between `MinCapacity` and the largest size `malloc` accepts,
as that of the 128 KB chunks does.

**PageTableProofs.** Lemmas on the four levels, for tables of any even size. Every table but
the kernel's has one *place* in a tree, given by its level and the indices that lead there
(`Graph`): the entry of a table at an index is empty or leads to the table with the place below.
A place below determines its parent and the index, so every table is reached by one entry, and
two addresses of the user half share a last entry only if they are on one page. What
`ensure_next_table` and `ArchMap` do is then one of three things: add a table at a free place,
set a last entry, or nothing; and a translation changes for one page of one space only.

**VmSpaceProofs.** `partition_point` finds the right place only in a sorted vector, and the
vector stays sorted only if the place is right. The lemmas on it show that what it counts is
a prefix of a sorted vector. `IInv` adds what the lock on the space keeps
true between the steps of a call: the range of a `map` in progress stays free, and a
`read_bytes` in progress stands at the only mapping that can cover its next address. From
it: `MappingsSorted`, `ReadRefused`. `PhysInv` adds the tree and, for the areas, that a filled
page is no table, is nobody else's and is none of the pages still to be handed out. From both:
`PagesExclusive`, whose bound on the entries of a table is the uniqueness of its parent.

**VmTranslationProofs.** `TrInv` says for every address of the user half what `TranslationExact`
says, and what a step needs of the calls in progress: a `map` has translated just the pages it
has visited, and its addresses are aligned. A page that `map` translates lies in no mapping, as
its range is free (`IInv`), so that the two halves of the statement never meet. `ReadInv` relates
the bytes that `read_bytes` has copied so far to translations: they agree at the time of the
copy, and no later step changes the translation of an address in a mapping. From it:
`ReadAgrees`. Both theorems assume `CanonicalAddrs`: the addresses passed to `map()` keep an
area within the user half, or are refused as the kernel's. For the others they are not true:
the index of the top level is taken modulo the table's size, and `vm_kernel_table` shows where
it leads. The addresses of `vm_space` satisfy `CanonicalAddrs`.

**LxServerProofs.** `PlaceOK`: a thread is in a slot of the run queue, on a CPU in user mode,
or with one handler, and it stays blocked while it is there. That no `expect` fails follows,
and by the pigeonhole argument above the rest of `NoServerPanic`. `ValuesOK` says for each place what the saved context and the CPU have in common with the
registers the thread left user mode with, and how far a write has come: it stands in iovec `j`
of the call's vector, has printed all before it and the part of it that is not remaining, and
has counted what it printed. `ResumeExact` and `WriteExact` follow. `Sum` and `BytesOf` are
recursive functions; that they exist and what they compute (`VectorsOK`, which the steps assume)
is proved at the end, by least counterexample (`Least`, `Recursion`).

**Only model-checked.** The properties of `startup` but `StackExact`: `BootInfoExact`,
`FilesExact`, `ServersExact`, `ImageExact`, `KernelReady`, `PanicExplained`. What the first two
compare with is put together by folds and `SelectSeq` over the tables and archives, and needs an
induction over data for each; the others speak of the composition of all the parts. Everything
under fairness (`TerminationDelivered`, `QueuedRuns`, `TerminatedFreed`, `SyscallAnswered`,
`TimerTicks`) is beyond the proof system.

## 5. Not modelled

* Console, printing, the host back end: output and a stub for unit tests.
* Bits of device registers and descriptors, port numbers, the assembly before `rust_boot`:
  whether they are right is a question about the hardware, not about state.
* Page attributes in the page tables, `switch`, a failing reservation of the mapping vector.
* Exceptions inside the kernel or a server. They would swap GS once too often, and the TODO at
  `arch/x64/idt.rs:103` says that they are not handled yet.
* SSE state, which no entry path saves, and user changes of `fsbase` and `gsbase`.
* A negative `iovcnt`, and what the loader does with a dynamic or relocation table outside
  of the image: the result is undefined behaviour of a slice.
* `pop`, `clear` and the string type of the fixed-capacity containers, the command line,
  `IoApic::enable_irq`: nothing calls or reads them.
* `memory::init` on the RAM that `BootTables` finds: `PhysMemory` starts from any memory map
  instead.

## 6. What could follow

1. `LxServer` composed with `KernelThread` through an abstract scheduler that both use.
2. Proofs of the properties of `startup`, beginning with `BootTables`.
