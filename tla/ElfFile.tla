-------------------------------- MODULE ElfFile --------------------------------
(***************************************************************************)
(* ELF files as the kernel's loader and the lx server read them            *)
(* (libs/rust/ftl_elf), and the alignment helpers.                         *)
(*                                                                         *)
(* A file is a record: its length, the fields of the header that are       *)
(* looked at (magic and machine only as "right" or not) and its program    *)
(* headers.  The byte at offset o of a file is the number o + 1, so that   *)
(* every byte is told from every other one and from a zero byte.           *)
(***************************************************************************)
EXTENDS Integers, Sequences

CONSTANT PageSize   \* MIN_PAGE_SIZE, PAGE_SIZE

ASSUME PageAssumption == PageSize \in Nat \ {0}

align_down(value, align) == value - (value % align)
align_up(value, align) == align_down(value + align - 1, align)

EhdrSize == 64   \* size_of::<Ehdr>()
PhdrSize == 56   \* size_of::<Phdr>()
FileByte(o) == o + 1

\* Elf::parse; every error is handled alike by the two callers.
parse(f, expected_type) ==
    /\ f.len >= EhdrSize
    /\ f.magic
    /\ f.e_type = expected_type
    /\ f.machine
    /\ f.e_ehsize = EhdrSize
    /\ f.e_phentsize = PhdrSize
    /\ f.len >= f.e_phoff + Len(f.phdrs) * PhdrSize

Loads(f) == {i \in DOMAIN f.phdrs : f.phdrs[i].p_type = "Load"}
===============================================================================
