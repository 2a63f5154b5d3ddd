------------------------------- MODULE LxProcess -------------------------------
(***************************************************************************)
(* How the lx server makes its process: Process::create and Process::start *)
(* (servers/lx/src/process.rs), called by Server::new, with the initial    *)
(* stack of InitialStack.                                                  *)
(*                                                                         *)
(* The kernel objects are used through what they promise (FlatMemory for a *)
(* VM area, VmSpace for a mapping): an area is zero but for what has been  *)
(* written, so a mapping records where the file's bytes were written.      *)
(* Every call may run out of memory; `oom` remembers that one did.         *)
(***************************************************************************)
EXTENDS InitialStack, ElfFile, FiniteSets

CONSTANTS
    ArgVecs,     \* argv and env: create passes one fixed pair
    KernelBase   \* KERNEL_BASE, the end of what can be mapped for a user

VARIABLES
    exe,         \* the executable, HELLO_ELF
    pat,         \* where create and start are
    seg,         \* the program header at hand
    phdr_uaddr,  \* Option<u64>, None being NoAddr
    mappings,    \* what has been mapped into the vmspace
    init_regs,   \* the registers the thread starts with
    oom          \* history: a call has run out of memory

processVars == <<exe, pat, seg, phdr_uaddr, mappings, init_regs, oom>>

READ == "READ"
WRITE == "WRITE"
EXEC == "EXEC"
NoAddr == -1
NoRegs == [pc |-> -1, sp |-> -1]

ProcessInit(e) ==
    /\ exe = e /\ pat = "idle" /\ seg = 1 /\ phdr_uaddr = NoAddr
    /\ mappings = {} /\ init_regs = NoRegs /\ oom = FALSE

\* `?` in create and start, and the expect of Server::new on their results
Error == pat' = "panic" /\ UNCHANGED <<exe, seg, mappings, init_regs, stackVars>>

OutOfMemory(label) ==
    /\ pat = label
    /\ oom' = TRUE /\ UNCHANGED phdr_uaddr /\ Error

overlaps(m, start, end) == start < m.end /\ m.start < end

\* VmSpace::map: an end beyond usize or a page of the kernel (arch::VmSpace::map), or an
\* overlap.
MapRefused(start, end) == end > KernelBase \/ \E m \in mappings : overlaps(m, start, end)

\* Elf::parse and VmSpace::create
CreateVmSpace ==
    /\ pat = "create"
    /\ UNCHANGED <<phdr_uaddr, oom>>
    /\ \/ ~parse(exe, "ET_EXEC") /\ Error
       \/ /\ parse(exe, "ET_EXEC")
          /\ pat' = "segments"
          /\ UNCHANGED <<exe, seg, mappings, init_regs, stackVars>>

\* The segment contains the program header table.
ContainsPhdrs(ph) ==
    ph.p_offset <= exe.e_phoff /\ exe.e_phoff < ph.p_offset + ph.p_filesz

PhdrUaddr(ph) ==
    IF phdr_uaddr = NoAddr /\ ContainsPhdrs(ph)
    THEN ph.p_vaddr + (exe.e_phoff - ph.p_offset)
    ELSE phdr_uaddr

SkipSegment ==
    /\ pat = "segments" /\ seg <= Len(exe.phdrs)
    /\ exe.phdrs[seg].p_type # "Load"
    /\ seg' = seg + 1
    /\ UNCHANGED <<exe, pat, phdr_uaddr, mappings, init_regs, oom, stackVars>>

\* The length of the area.  Faulty variant: the offset in the first page is forgotten.
AreaLenNoOffset(ph) == align_up(ph.p_memsz, PageSize)
AreaLen(ph) == align_up((ph.p_vaddr % PageSize) + ph.p_memsz, PageSize)

Attrs(ph) ==
    {READ} \cup (IF ph.writable THEN {WRITE} ELSE {})
           \cup (IF ph.executable THEN {EXEC} ELSE {})

LoadSegment ==
    /\ pat = "segments" /\ seg <= Len(exe.phdrs)
    /\ LET ph == exe.phdrs[seg]
           mapped_vaddr == align_down(ph.p_vaddr, PageSize)
           vaddr_offset == ph.p_vaddr - mapped_vaddr
           len == AreaLen(ph)
           end == mapped_vaddr + len
           refused == \/ len = 0                                     \* VmArea::allocate
                      \/ ph.p_offset + ph.p_filesz > exe.len         \* the slice panics
                      \/ vaddr_offset + ph.p_filesz > len            \* VmArea::write
                      \/ MapRefused(mapped_vaddr, end)
       IN
       /\ ph.p_type = "Load"
       /\ phdr_uaddr' = PhdrUaddr(ph)
       /\ UNCHANGED oom
       /\ \/ refused /\ Error
          \/ /\ ~refused
             /\ mappings' = mappings \cup
                    {[start |-> mapped_vaddr, end |-> end, attrs |-> Attrs(ph),
                      written |-> vaddr_offset, src |-> ph.p_offset, n |-> ph.p_filesz]}
             /\ seg' = seg + 1
             /\ UNCHANGED <<exe, pat, init_regs, stackVars>>

\* VmArea::allocate for the stack, and the call of build_initial_stack
AllocateStack ==
    /\ pat = "segments" /\ seg > Len(exe.phdrs)
    /\ pat' = "stack" /\ at' = "estimate"
    /\ \E v \in ArgVecs :
           args' = [argc |-> v.argc, envc |-> v.envc, ends |-> v.ends, nul |-> v.nul,
                    phdr |-> IF phdr_uaddr = NoAddr THEN 0 ELSE phdr_uaddr,
                    phent |-> exe.e_phentsize, phnum |-> Len(exe.phdrs), entry |-> exe.entry]
    /\ UNCHANGED <<exe, seg, phdr_uaddr, mappings, init_regs, oom,
                   k, offset, env_offset, layout, uaddr, writer, error>>

BuildStack == pat = "stack" /\ StackNext /\ UNCHANGED processVars

\* The expect on build_initial_stack
StackFailed ==
    /\ pat = "stack" /\ at = "failed"
    /\ oom' = (oom \/ error = "VmAreaWrite") /\ UNCHANGED phdr_uaddr /\ Error

MapStack ==
    LET end == StackBase + StackSize
        refused == MapRefused(StackBase, end)
    IN
    /\ pat = "stack" /\ at = "built"
    /\ UNCHANGED <<phdr_uaddr, oom>>
    /\ \/ refused /\ Error
       \/ /\ ~refused
          /\ mappings' = mappings \cup
                 {[start |-> StackBase, end |-> end, attrs |-> {READ, WRITE},
                   written |-> remaining, src |-> 0, n |-> length]}
          /\ init_regs' = [pc |-> exe.entry, sp |-> layout.sp]
          /\ pat' = "created"
          /\ UNCHANGED <<exe, seg, stackVars>>

\* ThreadContext::spawn: Thread::create, set_context and unblock
Start ==
    /\ pat = "created"
    /\ pat' = "started"
    /\ UNCHANGED <<exe, seg, phdr_uaddr, mappings, init_regs, oom, stackVars>>

ProcessNext ==
    \/ CreateVmSpace \/ SkipSegment \/ LoadSegment \/ AllocateStack
    \/ BuildStack \/ StackFailed \/ MapStack \/ Start
    \/ \E label \in {"create", "segments", "stack", "created"} : OutOfMemory(label)

-------------------------------------------------------------------------------
(* Properties                                                                 *)

\* The byte and the rights a user access to a finds.
MappingAt(a) == CHOOSE m \in mappings : m.start <= a /\ a < m.end
UserByte(a) ==
    LET m == MappingAt(a)
        i == a - m.start - m.written
    IN  IF i \in 0..(m.n - 1) THEN FileByte(m.src + i) ELSE 0

Mapped(a) == \E m \in mappings : m.start <= a /\ a < m.end

\* The process image is what the executable says: every byte of every segment is the
\* file's byte, or zero behind p_filesz, with the segment's rights; AT_PHDR is the address
\* of the program headers whenever a segment contains them; the thread starts at e_entry
\* with the stack pointer of the stack just built.  (create computes page-aligned areas
\* from unaligned segments.)
ImageExact ==
    pat \in {"created", "started"} =>
        /\ \A i \in Loads(exe) :
               LET ph == exe.phdrs[i] IN
               \A j \in 0..(ph.p_memsz - 1) :
                   /\ Mapped(ph.p_vaddr + j)
                   /\ UserByte(ph.p_vaddr + j) =
                          IF j < ph.p_filesz THEN FileByte(ph.p_offset + j) ELSE 0
                   /\ MappingAt(ph.p_vaddr + j).attrs = Attrs(ph)
        /\ IF \E i \in Loads(exe) : ContainsPhdrs(exe.phdrs[i])
           THEN UserByte(args.phdr) = FileByte(exe.e_phoff)
           ELSE args.phdr = 0
        /\ init_regs = [pc |-> exe.entry, sp |-> StackBase + remaining]

Pages(ph) == {a \div PageSize : a \in ph.p_vaddr..(ph.p_vaddr + ph.p_memsz - 1)}
StackPages == {a \div PageSize : a \in StackBase..(StackBase + StackSize - 1)}

\* An executable that create must accept: its segments are sound, below the kernel, and
\* share no page with each other or with the stack.
ExeOK(e) ==
    /\ parse(e, "ET_EXEC")
    /\ \A i \in Loads(e) :
           LET ph == e.phdrs[i] IN
           /\ 0 < ph.p_memsz /\ ph.p_filesz <= ph.p_memsz
           /\ ph.p_offset + ph.p_filesz <= e.len
           /\ ph.p_vaddr + ph.p_memsz <= KernelBase
           /\ Pages(ph) \cap StackPages = {}
           /\ \A j \in Loads(e) \ {i} : Pages(ph) \cap Pages(e.phdrs[j]) = {}
===============================================================================
