------------------------------- MODULE BootTables -------------------------------
(***************************************************************************)
(* The tables the kernel reads while it boots: the boot information of     *)
(* Multiboot2 (arch/x64/multiboot.rs) or PVH (arch/x64/pvh.rs), and the    *)
(* MP configuration table (arch/x64/mp_table.rs), from which the timer     *)
(* interrupt is routed through the I/O APIC (arch/x64/io_apic.rs).         *)
(*                                                                         *)
(* A table is a function from addresses to what lies there, so that a walk *)
(* that computes a wrong address finds nothing.                            *)
(***************************************************************************)
EXTENDS Integers, SequencesExt

CONSTANT NumMax   \* the capacity of free_rams and of modules (8)

VARIABLES
    boot,       \* what the boot loader left
    bat,        \* where its parser is
    boffset,    \* parse_multiboot2_info: offset
    free_rams,  \* BootInfo.free_rams
    mods,       \* BootInfo.modules
    mp,         \* the MP configuration table
    mat,        \* where mp_table::init is
    mindex,     \* MpTableIter.index
    maddr,      \* MpTableIter.entry_addr
    isa_bus, ioapic, timer_int_mapping,
    redir       \* the I/O APIC's redirection table: pin -> vector, 0 if masked

bootVars == <<boot, bat, boffset, free_rams, mods>>
mpVars == <<mp, mat, mindex, maddr, isa_bus, ioapic, timer_int_mapping, redir>>

Absent == [type |-> "none"]
Masked == 0

TablesInit(b, m) ==
    /\ boot = b /\ bat = "idle" /\ boffset = 8 /\ free_rams = <<>> /\ mods = <<>>
    /\ mp = m /\ mat = "idle" /\ mindex = 0 /\ maddr = 0
    /\ isa_bus = Absent /\ ioapic = Absent /\ timer_int_mapping = Absent
    /\ redir = [pin \in m.pins |-> Masked]

-------------------------------------------------------------------------------
(* The boot information                                                       *)

\* ArrayVec::try_push for each element, what does not fit being dropped
PushAll(vec, xs) ==
    LET all == vec \o xs
    IN  SubSeq(all, 1, IF Len(all) < NumMax THEN Len(all) ELSE NumMax)

\* The tag at an offset; anything but a tag is skipped as unknown.
Tag ==
    IF boffset \in DOMAIN boot.tags THEN boot.tags[boffset]
    ELSE [type |-> "unknown", size |-> 8]

\* Entry i of a memory map.  Behind the last one there is whatever follows the tag.
num_entries(tag) == tag.size \div tag.entry_size
MapEntry(tag, i) ==
    IF i <= Len(tag.entries) THEN tag.entries[i]
    ELSE [addr |-> 0, size |-> 0, type |-> "available"]

AvailableRam(tag) ==
    SelectSeq([i \in 1..num_entries(tag) |-> MapEntry(tag, i)],
              LAMBDA e : e.type = "available")
Ram(e) == [addr |-> e.addr, size |-> e.size]

\* Advance to the next tag.  Faulty variant: the tags are not padded to 8 bytes.
TagStrideUnaligned(size) == size
TagStride(size) == ((size + 7) \div 8) * 8

ParseTag ==
    /\ bat = "tags" /\ boffset < boot.total_size
    /\ free_rams' = IF Tag.type = "memory_map"
                    THEN PushAll(free_rams, [i \in 1..Len(AvailableRam(Tag)) |->
                                                 Ram(AvailableRam(Tag)[i])])
                    ELSE free_rams
    /\ mods' = IF Tag.type = "module"
               THEN PushAll(mods, <<[start |-> Tag.mod_start, end |-> Tag.mod_end]>>)
               ELSE mods
    /\ boffset' = boffset + TagStride(Tag.size)
    /\ UNCHANGED <<boot, bat>>

TagsDone ==
    /\ bat = "tags" /\ boffset >= boot.total_size
    /\ bat' = "done"
    /\ UNCHANGED <<boot, boffset, free_rams, mods>>

\* parse_start_info
ParseStartInfo ==
    LET rams == SelectSeq(boot.memmap, LAMBDA e : e.type = "available")
    IN
    /\ bat = "start_info"
    /\ IF boot.magic
       THEN /\ mods' = PushAll(<<>>, [i \in DOMAIN boot.modlist |->
                                          [start |-> boot.modlist[i].paddr,
                                           end |-> boot.modlist[i].paddr + boot.modlist[i].size]])
            /\ free_rams' = PushAll(<<>>, [i \in DOMAIN rams |-> Ram(rams[i])])
            /\ bat' = "done"
       ELSE bat' = "panic" /\ UNCHANGED <<free_rams, mods>>
    /\ UNCHANGED <<boot, boffset>>

BootNext == ParseTag \/ TagsDone \/ ParseStartInfo

-------------------------------------------------------------------------------
(* mp_table::init.  Its first pass only logs the processors.                  *)

MpPanic ==
    /\ mat' = "panic"
    /\ UNCHANGED <<mp, mindex, maddr, isa_bus, ioapic, timer_int_mapping, redir>>

MpEntry ==
    IF maddr \in DOMAIN mp.entries THEN mp.entries[maddr] ELSE [type |-> "unknown"]

\* The size of an entry, by its type.  Faulty variant: all entries have 8 bytes.
EntrySizeFixed(e) == 8
EntrySize(e) == IF e.type = "processor" THEN 20 ELSE 8

\* Iterator::next
MpAdvance ==
    /\ mindex < mp.entry_count
    /\ mindex' = mindex + 1 /\ maddr' = maddr + EntrySize(MpEntry)
MpRewind(label) == mat' = label /\ mindex' = 0 /\ maddr' = 0

FindMpTable ==
    /\ mat = "find"
    /\ \/ ~mp.found /\ MpPanic
       \/ mp.found /\ MpRewind("devices")
          /\ UNCHANGED <<mp, isa_bus, ioapic, timer_int_mapping, redir>>

IsIsa(e) == e.type = "bus" /\ e.isa
IsTimer(e, isa) == e.type = "io_int" /\ e.source_bus_id = isa.bus_id /\ e.source_bus_irq = 0

FindDevices ==
    /\ mat = "devices"
    /\ \/ /\ MpAdvance
          /\ ~(IsIsa(MpEntry) /\ isa_bus # Absent)
          /\ ~(MpEntry.type = "io_apic" /\ ioapic # Absent)
          /\ isa_bus' = IF IsIsa(MpEntry) THEN MpEntry ELSE isa_bus
          /\ ioapic' = IF MpEntry.type = "io_apic" THEN MpEntry ELSE ioapic
          /\ UNCHANGED <<mp, mat, timer_int_mapping, redir>>
       \/ /\ mindex < mp.entry_count
          /\ \/ IsIsa(MpEntry) /\ isa_bus # Absent
             \/ MpEntry.type = "io_apic" /\ ioapic # Absent
          /\ MpPanic
       \/ mindex = mp.entry_count /\ Absent \in {isa_bus, ioapic} /\ MpPanic
       \/ /\ mindex = mp.entry_count /\ Absent \notin {isa_bus, ioapic}
          /\ MpRewind("timer")
          /\ UNCHANGED <<mp, isa_bus, ioapic, timer_int_mapping, redir>>

FindTimer ==
    /\ mat = "timer"
    /\ \/ /\ MpAdvance
          /\ ~(IsTimer(MpEntry, isa_bus) /\ timer_int_mapping # Absent)
          /\ timer_int_mapping' =
                 IF IsTimer(MpEntry, isa_bus) THEN MpEntry ELSE timer_int_mapping
          /\ UNCHANGED <<mp, mat, isa_bus, ioapic, redir>>
       \/ /\ mindex < mp.entry_count
          /\ IsTimer(MpEntry, isa_bus) /\ timer_int_mapping # Absent
          /\ MpPanic
       \/ /\ mindex = mp.entry_count
          /\ mat' = "route"
          /\ UNCHANGED <<mp, mindex, maddr, isa_bus, ioapic, timer_int_mapping, redir>>

\* The assertions, and enable_irq_at.  The version register holds the index of the last
\* entry, which the code takes for their number.
IRQ_VECTOR_BASE == 32
TIMER_IRQ == 0
ioapic_num_entries == Max(mp.pins)

RouteTimer ==
    LET ok == /\ timer_int_mapping # Absent
              /\ timer_int_mapping.dest_io_apic_id = ioapic.io_apic_id
              /\ timer_int_mapping.intin < ioapic_num_entries
    IN
    /\ mat = "route"
    /\ \/ ~ok /\ MpPanic
       \/ /\ ok
          /\ redir' = [redir EXCEPT ![timer_int_mapping.intin] = IRQ_VECTOR_BASE + TIMER_IRQ]
          /\ mat' = "done"
          /\ UNCHANGED <<mp, mindex, maddr, isa_bus, ioapic, timer_int_mapping>>

MpNext == FindMpTable \/ FindDevices \/ FindTimer \/ RouteTimer

-------------------------------------------------------------------------------
(* Properties                                                                 *)

FirstOf(n, s) == SubSeq(s, 1, IF Len(s) < n THEN Len(s) ELSE n)
TagsOf(type) == SelectSeq(boot.order, LAMBDA t : t.type = type)
AllEntries ==
    IF boot.protocol = "pvh" THEN boot.memmap
    ELSE FoldLeft(LAMBDA acc, t : acc \o t.entries, <<>>, TagsOf("memory_map"))
ExpectedRams ==
    LET es == SelectSeq(AllEntries, LAMBDA e : e.type = "available")
    IN  FirstOf(NumMax, [i \in DOMAIN es |-> Ram(es[i])])
ExpectedMods ==
    LET ts == TagsOf("module") IN
    IF boot.protocol = "pvh"
    THEN FirstOf(NumMax, [i \in DOMAIN boot.modlist |->
             [start |-> boot.modlist[i].paddr,
              end |-> boot.modlist[i].paddr + boot.modlist[i].size]])
    ELSE FirstOf(NumMax, [i \in DOMAIN ts |-> [start |-> ts[i].mod_start, end |-> ts[i].mod_end]])

\* The boot information holds the available RAM and the modules that the boot loader
\* described, in its order, as many as there is room for, and nothing else: the walk over
\* the tags finds every tag, and every entry of a memory map and no more.
BootInfoExact == bat = "done" => free_rams = ExpectedRams /\ mods = ExpectedMods

\* A sound MP table: one ISA bus, one I/O APIC, and one entry that says to which of its
\* pins the timer is wired.
One(S) == \E x \in S : S = {x}
Isas == {a \in DOMAIN mp.entries : IsIsa(mp.entries[a])}
IoApics == {a \in DOMAIN mp.entries : mp.entries[a].type = "io_apic"}
Timers == {a \in DOMAIN mp.entries : \E b \in Isas : IsTimer(mp.entries[a], mp.entries[b])}
MpOK ==
    /\ mp.found /\ One(Isas) /\ One(IoApics) /\ One(Timers)
    /\ \A t \in Timers, a \in IoApics :
           /\ mp.entries[t].dest_io_apic_id = mp.entries[a].io_apic_id
           /\ mp.entries[t].intin \in mp.pins

\* The timer is wired to the I/O APIC's last pin.  enable_irq_at takes the index of the
\* last entry for the number of entries, and refuses it.
TimerOnLastPin == \A t \in Timers : mp.entries[t].intin = Max(mp.pins)
===============================================================================
