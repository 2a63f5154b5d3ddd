------------------------------ MODULE ServerLoader ------------------------------
(***************************************************************************)
(* server::init (kernel/src/server.rs): the files of every boot module     *)
(* (kernel/src/initfs.rs) and the loader for the servers among them        *)
(* (kernel/src/loader.rs).                                                 *)
(*                                                                         *)
(* A module is a cpio archive: its length and, as a function of the offset *)
(* where each begins, its entries.  Where the tool that wrote the archive  *)
(* put an entry's data is entry.data; the iterator computes it anew.  A    *)
(* name is a server's, a server's but not UTF-8, another file's, or the    *)
(* trailer's.  The .dynamic section and the relocations of a server are    *)
(* sequences at a file offset, read through the loaded image as the code   *)
(* does.                                                                   *)
(***************************************************************************)
EXTENDS ElfFile, SequencesExt

VARIABLES
    modules,    \* bootinfo.modules: the archives
    lat,        \* where server::init is
    mi,         \* the module at hand
    foffset,    \* InitFsLoader.offset
    files,      \* history: the files the iterators have returned
    elf,        \* load_elf: the file,
    image,      \*   the image (address -> byte),
    li,         \*   the loop index,
    rela,       \*   rela_addr and rela_size
    servers,    \* SERVERS, with the file each was loaded from
    loadOom     \* history: the files for which memory ran out

loaderVars == <<modules, lat, mi, foffset, files, elf, image, li, rela, servers, loadOom>>

NoElf == [len |-> 0]
NoRela == [addr |-> 0, size |-> 0]

LoaderInit(m) ==
    /\ modules = m /\ lat = "idle" /\ mi = 1 /\ foffset = 0 /\ files = <<>>
    /\ elf = NoElf /\ image = <<>> /\ li = 1 /\ rela = NoRela
    /\ servers = <<>> /\ loadOom = {}

-------------------------------------------------------------------------------
(* InitFsLoader: Iterator::next                                               *)

HeaderSize == 110   \* size_of::<CpioHeader>()

\* Where the data of the entry at o begins.  Faulty variant: the name is padded, not the
\* header and the name together.
DataOffsetNamePadded(o, namesize) == o + HeaderSize + align_up(namesize, 4)
DataOffset(o, namesize) == align_up(o + HeaderSize + namesize, 4)

\* `next` returns a file: every get(..)? is in bounds, and it is not the trailer.
HasNext(file, o) ==
    /\ o \in DOMAIN file.entries /\ o + HeaderSize <= file.len
    /\ LET e == file.entries[o] IN
       /\ e.magic /\ e.hex
       /\ o + HeaderSize + e.namesize <= file.len
       /\ e.name # "trailer"
       /\ DataOffset(o, e.namesize) + e.filesize <= file.len

File == modules[mi]
Entry == File.entries[foffset]

\* The end of one archive, and of the last one
NextModule ==
    /\ lat = "next" /\ mi <= Len(modules) /\ ~HasNext(File, foffset)
    /\ mi' = mi + 1 /\ foffset' = 0
    /\ UNCHANGED <<modules, lat, files, elf, image, li, rela, servers, loadOom>>

LoaderDone ==
    /\ lat = "next" /\ mi > Len(modules)
    /\ lat' = "done"
    /\ UNCHANGED <<modules, mi, foffset, files, elf, image, li, rela, servers, loadOom>>

\* init's loop body: a server is loaded when its name turns out to be UTF-8.
StartLoading(e) ==
    \/ e.name = "server" /\ lat' = "load" /\ elf' = e.elf
    \/ e.name = "not_utf8" /\ lat' = "panic" /\ UNCHANGED elf
    \/ e.name \notin {"server", "not_utf8"} /\ UNCHANGED <<lat, elf>>

NextFile ==
    /\ lat = "next" /\ mi <= Len(modules) /\ HasNext(File, foffset)
    /\ LET start == DataOffset(foffset, Entry.namesize) IN
       /\ files' = Append(files, [module |-> mi, name |-> Entry.name,
                                  start |-> start, size |-> Entry.filesize, elf |-> Entry.elf])
       /\ foffset' = align_up(start + Entry.filesize, 4)
    /\ StartLoading(Entry)
    /\ UNCHANGED <<modules, mi, image, li, rela, servers, loadOom>>

-------------------------------------------------------------------------------
(* load_elf                                                                   *)

DynSize == 16    \* size_of::<Dyn>()
RelaSize == 24   \* size_of::<Rela>()
RelocByte(r, i) == -(8 * r.r_addend + i + 1)   \* byte i of the image's base + r_addend

\* An error is logged, and init goes on with the next file.
LoadError ==
    /\ lat' = "next" /\ elf' = NoElf /\ image' = <<>> /\ li' = 1 /\ rela' = NoRela
    /\ UNCHANGED <<modules, mi, foffset, files, servers>>

Phdr == elf.phdrs[li]
NextPhdr == li' = li + 1 /\ UNCHANGED lat
LastPhdr(label) == li > Len(elf.phdrs) /\ lat' = label /\ li' = 1

ImageSize ==
    align_up(Max({0} \cup {elf.phdrs[i].p_vaddr + elf.phdrs[i].p_memsz : i \in Loads(elf)}),
             PageSize)

AllocateImage ==
    /\ lat = "load"
    /\ \/ ~parse(elf, "ET_DYN") /\ UNCHANGED loadOom /\ LoadError
       \/ parse(elf, "ET_DYN") /\ loadOom' = loadOom \cup {Len(files)} /\ LoadError
       \/ /\ parse(elf, "ET_DYN")
          /\ image' = [a \in 0..(ImageSize - 1) |-> 0]
          /\ lat' = "segments" /\ li' = 1
          /\ UNCHANGED <<modules, mi, foffset, files, elf, rela, servers, loadOom>>

\* The slices of the file and of the image, and p_memsz - p_filesz
SegmentInBounds(ph) ==
    /\ ph.p_offset + ph.p_filesz <= elf.len
    /\ ph.p_vaddr + ph.p_filesz <= ImageSize
    /\ ph.p_filesz <= ph.p_memsz

CopySegment(ph) ==
    [a \in DOMAIN image |->
        IF a \in ph.p_vaddr..(ph.p_vaddr + ph.p_filesz - 1)
        THEN FileByte(ph.p_offset + (a - ph.p_vaddr))
        ELSE IF a \in ph.p_vaddr..(ph.p_vaddr + ph.p_memsz - 1) THEN 0 ELSE image[a]]

LoadServerSegment ==
    /\ lat = "segments"
    /\ \/ LastPhdr("dynamic") /\ UNCHANGED image
       \/ /\ li <= Len(elf.phdrs) /\ Phdr.p_type # "Load"
          /\ NextPhdr /\ UNCHANGED image
       \/ /\ li <= Len(elf.phdrs) /\ Phdr.p_type = "Load" /\ SegmentInBounds(Phdr)
          /\ image' = CopySegment(Phdr) /\ NextPhdr
       \/ /\ li <= Len(elf.phdrs) /\ Phdr.p_type = "Load" /\ ~SegmentInBounds(Phdr)
          /\ lat' = "panic" /\ UNCHANGED <<li, image>>
    /\ UNCHANGED <<modules, mi, foffset, files, elf, rela, servers, loadOom>>

\* The i-th Dyn at address a of the image; zero bytes are a DT_NULL.
DynAt(a, i) ==
    LET b == image[a + DynSize * i] IN
    IF b = 0 THEN [d_tag |-> "DT_NULL", d_val |-> 0]
    ELSE elf.dyn[(b - FileByte(elf.dyn_off)) \div DynSize + 1]

\* The entries in front of the first DT_NULL; the last one of a tag counts.
DynEntries(ph) ==
    LET n == ph.p_memsz \div DynSize
        all == [i \in 1..n |-> DynAt(ph.p_vaddr, i - 1)]
        null == {i \in 1..n : all[i].d_tag = "DT_NULL"}
    IN  IF null = {} THEN all ELSE SubSeq(all, 1, Min(null) - 1)

LastValue(entries, tag, default) ==
    LET hits == {i \in DOMAIN entries : entries[i].d_tag = tag}
    IN  IF hits = {} THEN default ELSE entries[Max(hits)].d_val

ReadDynamic ==
    /\ lat = "dynamic"
    /\ \/ LastPhdr("rela") /\ UNCHANGED rela
       \/ /\ li <= Len(elf.phdrs) /\ Phdr.p_type # "Dynamic"
          /\ NextPhdr /\ UNCHANGED rela
       \/ /\ li <= Len(elf.phdrs) /\ Phdr.p_type = "Dynamic"
          /\ rela' = [addr |-> LastValue(DynEntries(Phdr), "DT_RELA", rela.addr),
                      size |-> LastValue(DynEntries(Phdr), "DT_RELASZ", rela.size)]
          /\ NextPhdr
    /\ UNCHANGED <<modules, mi, foffset, files, elf, image, servers, loadOom>>

NoRelocations == rela.addr = 0 \/ rela.size = 0
NumRelocations == IF NoRelocations THEN 0 ELSE rela.size \div RelaSize
RelaAt(i) == elf.relas[(image[rela.addr + RelaSize * i] - FileByte(elf.rela_off)) \div RelaSize + 1]

\* Faulty variant: the check forgets that eight bytes are written.
RelocInBoundsAtStart(r) == r.r_offset <= Cardinality(DOMAIN image)
RelocInBounds(r) == r.r_offset + 8 <= Cardinality(DOMAIN image)

Relocate ==
    /\ lat = "rela" /\ UNCHANGED loadOom
    /\ \/ ~NoRelocations /\ rela.size % RelaSize # 0 /\ LoadError
       \/ /\ NoRelocations \/ rela.size % RelaSize = 0
          /\ \/ /\ li > NumRelocations
                /\ lat' = "start" /\ li' = 1
                /\ UNCHANGED <<modules, mi, foffset, files, elf, image, rela, servers>>
             \/ /\ li <= NumRelocations
                /\ LET r == RelaAt(li - 1)
                       ok == r.r_sym = 0 /\ r.r_type = "RELATIVE" /\ RelocInBounds(r)
                   IN
                   \/ ~ok /\ LoadError
                   \/ /\ ok
                      /\ image' = [a \in DOMAIN image |->
                                      IF a \in r.r_offset..(r.r_offset + 7)
                                      THEN RelocByte(r, a - r.r_offset) ELSE image[a]]
                      /\ li' = li + 1
                      /\ UNCHANGED <<modules, lat, mi, foffset, files, elf, rela, servers>>

\* Server::load returns, the server's entry function having run; init records it, which
\* needs memory.
Push ==
    /\ lat = "started"
    /\ \/ /\ servers' = Append(servers, [file |-> Len(files), image |-> image, entry |-> elf.entry])
          /\ lat' = "next" /\ elf' = NoElf /\ image' = <<>> /\ li' = 1 /\ rela' = NoRela
          /\ UNCHANGED loadOom
       \/ /\ lat' = "panic" /\ loadOom' = loadOom \cup {Len(files)}
          /\ UNCHANGED <<elf, image, li, rela, servers>>
    /\ UNCHANGED <<modules, mi, foffset, files>>

LoaderNext ==
    \/ NextModule \/ LoaderDone \/ NextFile \/ AllocateImage \/ LoadServerSegment
    \/ ReadDynamic \/ Relocate \/ Push

-------------------------------------------------------------------------------
(* Properties                                                                 *)

\* Entry k of an archive can be returned: it and all entries in front of it are complete
\* and well formed, and none is the trailer.
Complete(m, k) ==
    \A j \in 1..k :
        LET e == m.entries[m.order[j]] IN
        e.magic /\ e.hex /\ e.name # "trailer" /\ e.data + e.filesize <= m.len

ExpectedFiles(i) ==
    LET m == modules[i]
        n == Max({0} \cup {k \in DOMAIN m.order : Complete(m, k)})
    IN  [k \in 1..n |->
            LET e == m.entries[m.order[k]] IN
            [module |-> i, name |-> e.name, start |-> e.data, size |-> e.filesize, elf |-> e.elf]]

\* The iterators return every file of every archive, in order, with exactly its data, up
\* to the trailer or to the first entry that the archive's end cuts off.  (next computes
\* every offset anew from the sizes and two alignments.)
FilesExact ==
    lat = "done" =>
        files = FoldLeft(LAMBDA acc, i : acc \o ExpectedFiles(i), <<>>,
                         [i \in 1..Len(modules) |-> i])

CoversReloc(f, i, a) == a \in f.relas[i].r_offset..(f.relas[i].r_offset + 7)
CoversSegment(f, i, a) ==
    a \in f.phdrs[i].p_vaddr..(f.phdrs[i].p_vaddr + f.phdrs[i].p_memsz - 1)

\* The image a position-independent executable has when it is loaded: at an address, what
\* the last relocation that covers it writes, or else the last segment's byte, or zero.
LoadedByte(f, a) ==
    LET rs == {i \in DOMAIN f.relas : CoversReloc(f, i, a)}
        ss == {i \in Loads(f) : CoversSegment(f, i, a)}
        r == f.relas[Max(rs)]
        ph == f.phdrs[Max(ss)]
    IN  IF rs # {} THEN RelocByte(r, a - r.r_offset)
        ELSE IF ss # {} /\ a - ph.p_vaddr < ph.p_filesz
             THEN FileByte(ph.p_offset + (a - ph.p_vaddr)) ELSE 0

ImageEnd(f) == Max({f.phdrs[i].p_vaddr + f.phdrs[i].p_memsz : i \in Loads(f)})

\* The segments lie inside the file, and the file's bytes inside the segments.
SegmentsOK(f) ==
    \A i \in Loads(f) :
        /\ f.phdrs[i].p_offset + f.phdrs[i].p_filesz <= f.len
        /\ f.phdrs[i].p_filesz <= f.phdrs[i].p_memsz

\* A server that load_elf must load
LoadOK(f) ==
    /\ parse(f, "ET_DYN") /\ SegmentsOK(f)
    /\ f.relasz_ok
    /\ \A i \in DOMAIN f.relas :
           /\ f.relas[i].r_sym = 0 /\ f.relas[i].r_type = "RELATIVE"
           /\ f.relas[i].r_offset + 8 <= align_up(ImageEnd(f), PageSize)

\* Exactly the servers that can be loaded are running, in the order of the archives, each
\* with the image its file describes: a server that load_elf returns an error for does not
\* keep the ones behind it from being loaded.  (One with a segment outside of its file
\* does: the slice panics, and init does not come to its end.)
ServersExact ==
    lat = "done" =>
        LET wanted == {i \in DOMAIN files : files[i].name = "server" /\ LoadOK(files[i].elf)
                                            /\ i \notin loadOom}
        IN
        /\ {servers[i].file : i \in DOMAIN servers} = wanted
        /\ \A i, j \in DOMAIN servers : i < j => servers[i].file < servers[j].file
        /\ \A i \in DOMAIN servers :
               LET f == files[servers[i].file].elf IN
               /\ servers[i].entry = f.entry
               /\ DOMAIN servers[i].image = 0..(align_up(ImageEnd(f), PageSize) - 1)
               /\ \A a \in DOMAIN servers[i].image : servers[i].image[a] = LoadedByte(f, a)
===============================================================================
