-------------------------------- MODULE MCStartup --------------------------------
(***************************************************************************)
(* Machines to boot: a base machine, and machines that differ from it in   *)
(* the boot information, the MP table, the archives or the executable.     *)
(***************************************************************************)
EXTENDS Startup

Ceil(n, a) == ((n + a - 1) \div a) * a

\* Where each item of a list begins, when item i takes up size(i).
Starts(n, first, Size(_)) ==
    LET f[i \in 1..n] == IF i = 1 THEN first ELSE f[i - 1] + Size(i - 1) IN f
AtStarts(list, starts) ==
    [o \in Range(starts) |-> list[CHOOSE i \in DOMAIN starts : starts[i] = o]]

-------------------------------------------------------------------------------
(* Boot information                                                           *)

MTag(entries) ==
    [type |-> "memory_map", size |-> 16 + 24 * Len(entries), entry_size |-> 24,
     entries |-> entries]
ModTag(start, len, size) ==
    [type |-> "module", size |-> size, mod_start |-> start, mod_end |-> start + len]
CmdlineTag == [type |-> "cmdline", size |-> 13]
EndTag == [type |-> "end", size |-> 8]

Avail(a) == [addr |-> a, size |-> 64, type |-> "available"]
Rsvd(a) == [addr |-> a, size |-> 64, type |-> "reserved"]

Multiboot(tags) ==
    LET size(i) == Ceil(tags[i].size, 8)
        starts == Starts(Len(tags), 8, size)
    IN  [protocol |-> "multiboot2", order |-> tags, tags |-> AtStarts(tags, starts),
         total_size |-> starts[Len(tags)] + size(Len(tags))]
Pvh(magic, modlist, memmap) ==
    [protocol |-> "pvh", magic |-> magic, modlist |-> modlist, memmap |-> memmap]

BaseBoot(len) == Multiboot(<<CmdlineTag, ModTag(0, len, 21), MTag(<<Rsvd(0), Avail(128)>>), EndTag>>)

\* Archives lie at 0, 4096 and 8192; the one at 4096 is empty.
Boots(len) ==
    { Multiboot(<<EndTag>>),
      Multiboot(<<MTag(<<>>), ModTag(4096, 0, 17), ModTag(0, len, 24), EndTag>>),
      Multiboot(<<ModTag(0, len, 21), MTag(<<Avail(0), Rsvd(64), Avail(128)>>),
                  ModTag(8192, len, 22), CmdlineTag, ModTag(4096, 0, 24),
                  MTag(<<Avail(512)>>), EndTag>>),
      Pvh(FALSE, <<>>, <<>>),
      Pvh(TRUE, <<>>, <<Rsvd(0)>>),
      Pvh(TRUE, <<[paddr |-> 0, size |-> len]>>, <<Rsvd(0), Avail(64)>>),
      Pvh(TRUE, [i \in 1..3 |-> [paddr |-> 4096, size |-> 0]], [i \in 1..3 |-> Avail(64 * i)]) }

-------------------------------------------------------------------------------
(* MP tables                                                                  *)

Processor == [type |-> "processor"]
Bus(id, isa) == [type |-> "bus", bus_id |-> id, isa |-> isa]
IoApicEntry(id) == [type |-> "io_apic", io_apic_id |-> id]
IoInt(bus, irq, dest, pin) ==
    [type |-> "io_int", source_bus_id |-> bus, source_bus_irq |-> irq,
     dest_io_apic_id |-> dest, intin |-> pin]
LocalInt == [type |-> "unknown"]

MpTable(list) ==
    LET size(i) == IF list[i].type = "processor" THEN 20 ELSE 8
    IN  [found |-> TRUE, entry_count |-> Len(list), pins |-> 0..3,
         entries |-> AtStarts(list, Starts(Len(list), 0, size))]

BaseMp == MpTable(<<Processor, Bus(0, FALSE), Bus(1, TRUE), IoApicEntry(5), IoInt(1, 1, 5, 1),
                    IoInt(0, 0, 5, 0), IoInt(1, 0, 5, 2), LocalInt>>)
Mps ==
    { [BaseMp EXCEPT !.found = FALSE],
      MpTable(<<IoInt(7, 0, 5, 2), LocalInt, IoApicEntry(5), Processor, Processor, Bus(7, TRUE)>>),
      MpTable(<<Processor, Bus(1, TRUE), Bus(2, TRUE), IoApicEntry(5), IoInt(1, 0, 5, 2)>>),
      MpTable(<<Processor, Bus(1, TRUE), IoApicEntry(5), IoApicEntry(6), IoInt(1, 0, 5, 2)>>),
      MpTable(<<Processor, Bus(1, FALSE), IoApicEntry(5), IoInt(1, 0, 5, 2)>>),
      MpTable(<<Processor, Bus(1, TRUE), IoInt(1, 0, 5, 2)>>),
      MpTable(<<Processor, Bus(1, TRUE), IoApicEntry(5), IoInt(0, 0, 5, 2), IoInt(1, 1, 5, 1)>>),
      MpTable(<<Processor, Bus(1, TRUE), IoApicEntry(5), IoInt(1, 0, 5, 2), IoInt(1, 0, 5, 1)>>),
      MpTable(<<Processor, Bus(1, TRUE), IoApicEntry(5), IoInt(1, 0, 6, 2)>>),
      MpTable(<<Processor, Bus(1, TRUE), IoApicEntry(5), IoInt(1, 0, 5, 3)>>),
      MpTable(<<Processor, Bus(1, TRUE), IoApicEntry(5), IoInt(1, 0, 5, 4)>>) }

-------------------------------------------------------------------------------
(* Servers and archives                                                       *)

Seg(type, off, vaddr, filesz, memsz) ==
    [p_type |-> type, p_offset |-> off, p_vaddr |-> vaddr, p_filesz |-> filesz,
     p_memsz |-> memsz, writable |-> TRUE, executable |-> FALSE]

Header == [magic |-> TRUE, machine |-> TRUE, e_ehsize |-> 64, e_phentsize |-> 56, e_phoff |-> 64]

\* Header and three program headers (0..231), text to 247, .dynamic (248..295), relocations.
Reloc(off, n) == [r_offset |-> off, r_sym |-> 0, r_type |-> "RELATIVE", r_addend |-> n]
ServerElf(relas, pad, bss) ==
    LET len == 296 + 24 * Len(relas) IN
    Header @@ [len |-> len, e_type |-> "ET_DYN", entry |-> 232, lx |-> FALSE,
               phdrs |-> << Seg("Load", 0, 0, len, len), Seg("Dynamic", 248, 248, 48, 48),
                            Seg("Load", 232, 400, 16, 16 + bss) >>,
               dyn |-> << [d_tag |-> "DT_RELA", d_val |-> 296],
                          [d_tag |-> "DT_RELASZ", d_val |-> 24 * Len(relas) + pad],
                          [d_tag |-> "DT_NULL", d_val |-> 0] >>,
               dyn_off |-> 248, relas |-> relas, rela_off |-> 296, relasz_ok |-> pad = 0]

LxElf == [ServerElf(<<Reloc(232, 1)>>, 0, 8) EXCEPT !.lx = TRUE]
\* Without a .dynamic section, and with a program header that is ignored
PlainElf == [ServerElf(<<>>, 0, 0) EXCEPT !.phdrs[2].p_type = "Other"]
\* An image of 448 bytes: a relocation of its last word, and of the one behind it
EdgeElf == ServerElf(<<Reloc(440, 1), Reloc(436, 2)>>, 0, 20)
BadElfs ==
    { [PlainElf EXCEPT !.e_type = "ET_EXEC"], [PlainElf EXCEPT !.len = 231],
      ServerElf(<<Reloc(232, 1), Reloc(441, 1)>>, 0, 20),
      ServerElf(<<[Reloc(232, 1) EXCEPT !.r_type = "GLOB_DAT"]>>, 0, 0),
      ServerElf(<<[Reloc(232, 1) EXCEPT !.r_sym = 1]>>, 0, 0),
      ServerElf(<<Reloc(232, 1)>>, 8, 0),
      [PlainElf EXCEPT !.phdrs[3].p_offset = 290], [PlainElf EXCEPT !.phdrs[3].p_filesz = 17] }

CpioFile(name, namesize, size, e) ==
    [magic |-> TRUE, hex |-> TRUE, namesize |-> namesize, filesize |-> size, name |-> name,
     elf |-> e]
ServerFile(e) == CpioFile("server", 15, e.len, e)
OtherFile(namesize, size) == CpioFile("other", namesize, size, NoElf)
Trailer == CpioFile("trailer", 11, 0, NoElf)

\* The newc format: header and name together, and the data, are padded to 4 bytes.
Archive(list) ==
    LET size(i) == Ceil(110 + list[i].namesize, 4) + Ceil(list[i].filesize, 4)
        starts == Starts(Len(list), 0, size)
        placed == [i \in DOMAIN list |->
                      [data |-> starts[i] + Ceil(110 + list[i].namesize, 4)] @@ list[i]]
    IN  [entries |-> AtStarts(placed, starts), order |-> starts,
         len |-> starts[Len(list)] + size(Len(list))]

Empty == [entries |-> <<>>, order |-> <<>>, len |-> 0]
BaseArchive == Archive(<<ServerFile(LxElf), Trailer>>)
\* Cut off in the middle of the last file's data, name or header
CutArchive == Archive(<<OtherFile(5, 0), OtherFile(6, 3), OtherFile(7, 9)>>)
CutLens == {CutArchive.len - n : n \in {0, 2, 3, 4, 13, 20, 60}}
Archives ==
    { Archive(<<OtherFile(5, 1), ServerFile(EdgeElf), OtherFile(2, 7), ServerFile(LxElf),
                ServerFile(PlainElf), Trailer, OtherFile(5, 1)>>),
      Archive(<<OtherFile(3, 2), [OtherFile(4, 2) EXCEPT !.magic = FALSE], ServerFile(LxElf), Trailer>>),
      Archive(<<OtherFile(3, 2), [ServerFile(PlainElf) EXCEPT !.name = "not_utf8"],
                ServerFile(LxElf), Trailer>>),
      Archive(<<OtherFile(3, 2), [OtherFile(4, 2) EXCEPT !.hex = FALSE], ServerFile(LxElf), Trailer>>) }
    \cup {Archive(<<ServerFile(bad), ServerFile(LxElf), Trailer>>) : bad \in BadElfs}

-------------------------------------------------------------------------------
(* Executables                                                                *)

\* Header and two program headers (0..175), then 74 bytes
ExeElf(phdrs) ==
    Header @@ [len |-> 250, e_type |-> "ET_EXEC", entry |-> 1210, phdrs |-> phdrs]
Text == [Seg("Load", 0, 1024, 200, 200) EXCEPT !.writable = FALSE, !.executable = TRUE]
Data == Seg("Load", 200, 1330, 10, 30)   \* crosses a page behind its file bytes
BaseExe == ExeElf(<<Text, Data>>)
Exes ==
    { ExeElf(<<Seg("Other", 0, 0, 0, 0), Data, Text>>),
      ExeElf(<<Seg("Load", 180, 1300, 70, 128)>>),
      ExeElf(<<Text, Seg("Load", 200, 1270, 10, 10)>>),
      ExeElf(<<Text, Seg("Load", 200, 1280, 0, 0)>>),
      ExeElf(<<Text, Seg("Load", 200, 1280, 51, 60)>>),
      ExeElf(<<Text, Seg("Load", 176, 1280, 70, 60)>>),
      ExeElf(<<Text, Seg("Load", 200, 4090, 10, 10)>>),
      ExeElf(<<Text, Seg("Load", 200, 8140, 10, 52)>>),
      ExeElf(<<Text, Seg("Load", 200, 8140, 10, 53)>>),
      ExeElf(<<Text, Seg("Load", 200, 8192, 10, 10)>>),
      [BaseExe EXCEPT !.e_type = "ET_DYN"], [BaseExe EXCEPT !.len = 170] }

Machine(b, m, a, e) ==
    [boot |-> b, mp |-> m, exe |-> e, wire |-> 2,
     archives |-> [x \in {0, 4096, 8192} |->
                      IF x = 0 THEN a ELSE IF x = 4096 THEN Empty ELSE CutArchive]]
Base == Machine(BaseBoot(BaseArchive.len), BaseMp, BaseArchive, BaseExe)
MCMachines ==
    {[Base EXCEPT !.boot = b] : b \in Boots(BaseArchive.len)}
    \cup {[Base EXCEPT !.mp = m] : m \in Mps}
    \cup {Machine(BaseBoot(a.len), BaseMp, a, BaseExe) : a \in Archives}
    \cup {Machine(BaseBoot(n), BaseMp, CutArchive, BaseExe) : n \in CutLens}
    \cup {[Base EXCEPT !.exe = e] : e \in Exes \cup {BaseExe}}

-------------------------------------------------------------------------------
Vec(argc, lens, nul) ==
    LET ends[i \in 0..Len(lens)] == IF i = 0 THEN 0 ELSE ends[i - 1] + lens[i]
    IN  [argc |-> argc, envc |-> Len(lens) - argc, ends |-> ends, nul |-> nul]

\* What create passes; two vectors with an environment; one without a NUL; one too long
MCArgVecs ==
    { Vec(1, <<6>>, <<TRUE>>), Vec(2, <<1, 9, 3>>, <<TRUE, TRUE, TRUE>>),
      Vec(0, <<5, 17>>, <<TRUE, TRUE>>), Vec(1, <<6, 4>>, <<TRUE, FALSE>>),
      Vec(1, <<400>>, <<TRUE>>) }
MCStackArgs ==
    {[argc |-> v.argc, envc |-> v.envc, ends |-> v.ends, nul |-> v.nul,
      phdr |-> 1088, phent |-> 56, phnum |-> 2, entry |-> 1210] : v \in MCArgVecs}
===============================================================================
