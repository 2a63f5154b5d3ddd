--------------------------------- MODULE Startup ---------------------------------
(***************************************************************************)
(* The kernel from rust_boot (arch/x64/boot.rs) and boot (boot.rs) to the  *)
(* user: the tables it reads (BootTables), the servers it loads            *)
(* (ServerLoader), the process the lx server makes (LxProcess,             *)
(* InitialStack), and then system calls, exceptions and timer interrupts   *)
(* with the hardware state they depend on: the GS base and swapgs, the     *)
(* interrupt flag, the interrupt controllers.                              *)
(*                                                                         *)
(* There is one CPU, and one server of an archive is the lx server, which  *)
(* makes one process; another server's entry function just returns.  The   *)
(* timer, the interrupt controllers and the user program are external.     *)
(***************************************************************************)
EXTENDS LxProcess, ServerLoader, BootTables

CONSTANTS
    Machines,   \* what is booted: boot information, MP table, archives, executable
    TickMod     \* TICKS wraps around (2^64)

VARIABLES
    cat,        \* where the kernel is; "user" while it is not running
    machine,    \* the archives in memory, by their address; the timer's pin
    idtr, tss, lstar,   \* lidt, ltr and the SYSCALL registers have been set
    pic_masked, pit, lapic,  \* the PIC is masked, the timer runs, the local APIC is enabled
    gs, kgs,    \* the GS base, and the one that swapgs exchanges it with
    iflag,      \* RFLAGS.IF
    vector,     \* the interrupt's vector
    irr, isr,   \* local APIC: the timer's vector is requested, is in service
    ticks,      \* TICKS
    current,    \* CpuVar.current_thread is set
    thread,     \* the process's thread: "none", "runnable" or "terminated"
    why         \* history: what the kernel panicked about

initVars == <<idtr, tss, lstar, pic_masked, pit, lapic>>
trapVars == <<gs, kgs, iflag, vector, irr, isr, ticks, current, thread>>
partVars == <<bootVars, mpVars, loaderVars, processVars, stackVars>>
vars == <<cat, machine, initVars, trapVars, why, partVars>>

NoArgs == [argc |-> 0, envc |-> 0, ends |-> <<>>, nul |-> <<>>,
           phdr |-> 0, phent |-> 0, phnum |-> 0, entry |-> 0]

StackIdle ==
    /\ args = NoArgs /\ at = "idle" /\ k = 0 /\ offset = 0 /\ env_offset = 0
    /\ layout = NoLayout /\ uaddr = 0
    /\ buf = <<>> /\ length = 0 /\ remaining = StackSize /\ error = None

Init ==
    \E m \in Machines :
        /\ machine = [archives |-> m.archives, wire |-> m.wire]
        /\ TablesInit(m.boot, m.mp) /\ LoaderInit(<<>>) /\ ProcessInit(m.exe) /\ StackIdle
        /\ cat = "gdt" /\ why = "none"
        /\ idtr = FALSE /\ tss = FALSE /\ lstar = FALSE /\ pic_masked = FALSE
        /\ pit = FALSE /\ lapic = FALSE
        /\ gs = "zero" /\ kgs = "zero" /\ iflag = FALSE /\ vector = 0
        /\ irr = FALSE /\ isr = FALSE /\ ticks = TickMod - 1
        /\ current = FALSE /\ thread = "none"

\* saturating_sub
SatSub(a, b) == IF a > b THEN a - b ELSE 0

Panic(w) == cat' = "panic" /\ why' = w

-------------------------------------------------------------------------------
(* rust_boot and boot                                                         *)

GdtInit ==
    /\ cat = "gdt" /\ tss' = TRUE /\ cat' = "idt"
    /\ UNCHANGED <<machine, idtr, lstar, pic_masked, pit, lapic, trapVars, why, partVars>>

IdtInit ==
    /\ cat = "idt" /\ idtr' = TRUE /\ cat' = "pic"
    /\ UNCHANGED <<machine, tss, lstar, pic_masked, pit, lapic, trapVars, why, partVars>>

PicInit ==
    /\ cat = "pic" /\ pic_masked' = TRUE /\ cat' = "syscall_init"
    /\ UNCHANGED <<machine, idtr, tss, lstar, pit, lapic, trapVars, why, partVars>>

\* syscall::init, and the call of mp_table::init
SyscallInit ==
    /\ cat = "syscall_init" /\ lstar' = TRUE /\ cat' = "mp" /\ mat' = "find"
    /\ UNCHANGED <<machine, idtr, tss, pic_masked, pit, lapic, trapVars, why,
                   mp, mindex, maddr, isa_bus, ioapic, timer_int_mapping, redir,
                   bootVars, loaderVars, processVars, stackVars>>

MpInit ==
    /\ cat = "mp" /\ MpNext
    /\ UNCHANGED <<cat, machine, initVars, trapVars, why,
                   bootVars, loaderVars, processVars, stackVars>>

\* mp_table::init returns; timer::init starts the timer; and the choice of the parser
TimerInit ==
    /\ cat = "mp" /\ mat = "done"
    /\ pit' = TRUE /\ cat' = "bootinfo"
    /\ bat' = IF boot.protocol = "multiboot2" THEN "tags" ELSE "start_info"
    /\ UNCHANGED <<machine, idtr, tss, lstar, pic_masked, lapic, trapVars, why,
                   boot, boffset, free_rams, mods, mpVars, loaderVars, processVars, stackVars>>

ParseBootInfo ==
    /\ cat = "bootinfo" /\ BootNext
    /\ UNCHANGED <<cat, machine, initVars, trapVars, why,
                   mpVars, loaderVars, processVars, stackVars>>

\* memory::init (PhysMemory), cpuvar::init with LocalApic::init, and the call of
\* server::init.  The slice of a module is what lies between its start and its end.
CpuVarInit ==
    /\ cat = "bootinfo" /\ bat = "done"
    /\ lapic' = TRUE /\ gs' = "cpuvar"
    /\ modules' = [i \in DOMAIN mods |->
                      [machine.archives[mods[i].start] EXCEPT
                           !.len = SatSub(mods[i].end, mods[i].start)]]
    /\ lat' = "next" /\ cat' = "server"
    /\ UNCHANGED <<machine, idtr, tss, lstar, pic_masked, pit, kgs, iflag, vector, irr, isr, ticks,
                   current, thread, why, mi, foffset, files, elf, image, li, rela,
                   servers, loadOom, bootVars, mpVars, processVars, stackVars>>

LoadServers ==
    /\ cat = "server" /\ LoaderNext
    /\ UNCHANGED <<cat, machine, initVars, trapVars, why, bootVars, mpVars, processVars, stackVars>>

\* entry_fn(START_INFO)
CallEntry ==
    /\ cat = "server" /\ lat = "start"
    /\ IF elf.lx THEN lat' = "entry" /\ pat' = "create" ELSE lat' = "started" /\ UNCHANGED pat
    /\ UNCHANGED <<cat, machine, initVars, trapVars, why, bootVars, mpVars, stackVars,
                   modules, mi, foffset, files, elf, image, li, rela, servers, loadOom,
                   exe, seg, phdr_uaddr, mappings, init_regs, oom>>

RunProcess ==
    /\ cat = "server" /\ lat = "entry" /\ ProcessNext
    /\ UNCHANGED <<cat, machine, initVars, trapVars, why, bootVars, mpVars, loaderVars>>

EntryReturns ==
    /\ cat = "server" /\ lat = "entry" /\ pat = "started"
    /\ lat' = "started" /\ thread' = "runnable"
    /\ UNCHANGED <<cat, machine, initVars, why, bootVars, mpVars, processVars, stackVars,
                   gs, kgs, iflag, vector, irr, isr, ticks, current,
                   modules, mi, foffset, files, elf, image, li, rela, servers, loadOom>>

ServersLoaded ==
    /\ cat = "server" /\ lat = "done" /\ cat' = "return"
    /\ UNCHANGED <<machine, initVars, trapVars, why, partVars>>

\* A panic of one of the parts; the CPU stays in the panic handler's loop.
BootPanics ==
    /\ \/ cat = "mp" /\ mat = "panic" /\ Panic("mp")
       \/ cat = "bootinfo" /\ bat = "panic" /\ Panic("bootinfo")
       \/ cat = "server" /\ lat = "panic" /\ Panic("loader")
       \/ cat = "server" /\ pat = "panic" /\ Panic("process")
    /\ UNCHANGED <<machine, initVars, trapVars, partVars>>

Halted == cat = "panic" /\ UNCHANGED vars

-------------------------------------------------------------------------------
(* To the user and back                                                       *)

\* Thread::enter: swapgs and wrgsbase.  Faulty variant: wrgsbase alone.
EnterGsNoSwap == gs' = "user" /\ UNCHANGED kgs
EnterGs == gs' = "user" /\ kgs' = gs

\* return_to_user: the thread runs on, or idle() is a todo!()
ReturnToUser ==
    /\ cat = "return"
    /\ \/ /\ thread = "runnable"
          /\ current' = TRUE /\ EnterGs /\ iflag' = TRUE
          /\ cat' = "user" /\ UNCHANGED why
       \/ /\ thread # "runnable"
          /\ current' = FALSE /\ Panic("idle")
          /\ UNCHANGED <<gs, kgs, iflag>>
    /\ UNCHANGED <<machine, initVars, vector, irr, isr, ticks, thread, partVars>>

\* interrupt_entry and syscall_handler: cli and swapgs
EnterKernel(label) ==
    /\ cat = "user" /\ cat' = label
    /\ iflag' = FALSE /\ gs' = kgs /\ kgs' = gs

\* The timer raises its pin; an edge that finds the vector requested already, or the local
\* APIC disabled, changes nothing.
Tick ==
    /\ cat # "panic" /\ pit /\ lapic /\ redir[machine.wire] # Masked /\ ~irr
    /\ irr' = TRUE
    /\ UNCHANGED <<cat, machine, initVars, gs, kgs, iflag, vector, isr, ticks, current,
                   thread, why, partVars>>

\* The local APIC's request is taken between two instructions of the user.
Deliverable == irr /\ ~isr /\ iflag

Interrupt ==
    /\ Deliverable /\ EnterKernel("interrupt")
    /\ vector' = redir[machine.wire] /\ irr' = FALSE /\ isr' = TRUE
    /\ UNCHANGED <<machine, initVars, ticks, current, thread, why, partVars>>

\* The user does something that raises an exception: a page fault or another one.  The
\* kernel and the servers are taken to raise none (see KernelReady).
PAGE_FAULT == 14
INVALID_OPCODE == 6
Exception ==
    /\ ~Deliverable /\ EnterKernel("interrupt")
    /\ vector' \in {PAGE_FAULT, INVALID_OPCODE}
    /\ UNCHANGED <<machine, initVars, irr, isr, ticks, current, thread, why, partVars>>

\* timer::handle_interrupt.  Faulty variant: the interrupt is not acknowledged.
HandleTimerNoEoi == ticks' = (ticks + 1) % TickMod /\ UNCHANGED isr
HandleTimer == ticks' = (ticks + 1) % TickMod /\ isr' = FALSE

handle_interrupt ==
    /\ cat = "interrupt"
    /\ \/ /\ vector = PAGE_FAULT
          /\ cat' = "return" /\ UNCHANGED <<ticks, isr, why>>
       \/ /\ vector >= IRQ_VECTOR_BASE
          /\ IF vector - IRQ_VECTOR_BASE = TIMER_IRQ THEN HandleTimer ELSE UNCHANGED <<ticks, isr>>
          /\ cat' = "return" /\ UNCHANGED why
       \/ /\ vector # PAGE_FAULT /\ vector < IRQ_VECTOR_BASE
          /\ Panic("exception") /\ UNCHANGED <<ticks, isr>>
    /\ UNCHANGED <<machine, initVars, gs, kgs, iflag, vector, irr, current, thread, partVars>>

Syscall ==
    /\ ~Deliverable /\ EnterKernel("syscall")
    /\ UNCHANGED <<machine, initVars, vector, irr, isr, ticks, current, thread, why, partVars>>

\* handle_syscall and the lx server (KernelThread, LxServer): the thread is answered, or
\* it exits.
handle_syscall ==
    /\ cat = "syscall"
    /\ thread' \in {"runnable", "terminated"}
    /\ cat' = "return"
    /\ UNCHANGED <<machine, initVars, gs, kgs, iflag, vector, irr, isr, ticks, current, why,
                   partVars>>

KernelStep ==
    \/ GdtInit \/ IdtInit \/ PicInit \/ SyscallInit \/ MpInit \/ TimerInit \/ ParseBootInfo
    \/ CpuVarInit \/ LoadServers \/ CallEntry \/ RunProcess \/ EntryReturns \/ ServersLoaded
    \/ BootPanics \/ ReturnToUser \/ handle_interrupt \/ handle_syscall

UserStep == Exception \/ Syscall

Next == KernelStep \/ UserStep \/ Interrupt \/ Tick \/ Halted

\* The CPU executes the kernel, the timer ticks, and a deliverable interrupt is delivered.
Spec == Init /\ [][Next]_vars /\ WF_vars(KernelStep) /\ WF_vars(Tick) /\ WF_vars(Interrupt)

-------------------------------------------------------------------------------
(* Properties                                                                 *)

InKernel == cat \in {"server", "return", "interrupt", "syscall"}

\* Whenever the user runs with interrupts enabled, everything that an interrupt, an
\* exception or a system call needs is there: the descriptor tables, the legacy PIC out of
\* the way, the timer, a current thread to save the registers in, and the CpuVar behind
\* swapgs; and whenever the kernel runs, its GS base is the CpuVar.  (rust_boot's order,
\* and the pairing of every swapgs.)  This holds as long as exceptions come from the user
\* alone.  One raised by the kernel or by a server, which runs in the kernel's mode, would
\* have interrupt_entry swap the CpuVar away: the comment there says so, and no action
\* here does it.
KernelReady ==
    /\ cat = "user" => /\ idtr /\ tss /\ lstar /\ pic_masked /\ pit /\ lapic
                       /\ current /\ kgs = "cpuvar" /\ gs # "cpuvar"
    /\ InKernel => gs = "cpuvar"
    /\ iflag => cat = "user"

\* The arguments fit on the stack.
ArgsFit ==
    /\ \A i \in DOMAIN args.nul : args.nul[i]
    /\ Word * (3 + Strings + Len(Auxv)) + args.ends[Strings] + RandomLen <= StackSize

\* No file is an lx server that could be loaded.
NoLxServer ==
    \A i \in DOMAIN files :
        files[i].name = "server" /\ files[i].elf.lx => ~LoadOK(files[i].elf) \/ i \in loadOom

\* The kernel panics only for a reason: an MP table that is not sound, or has the timer on
\* the last pin, which io_apic.rs wrongly refuses; boot information that is none, a server whose name is no text, whose segments lie outside of its file or
\* that cannot be recorded, a process that cannot be made (memory, executable, arguments),
\* an exception other than a page fault, no thread left to run.  (None of the asserts,
\* expects and slices of the boot path fails otherwise.)
PanicExplained ==
    cat = "panic" =>
        \/ why = "mp" /\ (~MpOK \/ TimerOnLastPin)
        \/ why = "bootinfo" /\ boot.protocol = "pvh" /\ ~boot.magic
        \/ /\ why = "loader"
           /\ \/ Len(files) \in loadOom \/ files[Len(files)].name = "not_utf8"
              \/ ~SegmentsOK(elf)
        \/ why = "process" /\ (oom \/ ~ExeOK(exe) \/ (args # NoArgs /\ ~ArgsFit))
        \/ why = "exception" /\ vector = INVALID_OPCODE
        \/ why = "idle" /\ (thread = "terminated" \/ NoLxServer)

\* Time goes on: the kernel gets through the boot, and then TICKS changes over and over,
\* whatever the user does, or the kernel panics.  (Every walk over a table ends; the
\* routing of the timer, the local APIC, the acknowledgement.)
TimerTicks == \A n \in 0..(TickMod - 1) : ticks = n ~> (ticks # n \/ cat = "panic")
===============================================================================
