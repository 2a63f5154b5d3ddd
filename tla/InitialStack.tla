----------------------------- MODULE InitialStack -----------------------------
(***************************************************************************)
(* The initial stack of a Linux process: estimate_stack_size and           *)
(* build_initial_stack with its StackWriter (servers/lx/src/elf.rs).       *)
(*                                                                         *)
(* The addresses put on the stack are computed from the estimate, before   *)
(* anything is written; the writer then appends to a buffer that is copied *)
(* to the end of the stack area.  Both must agree to the byte.             *)
(*                                                                         *)
(* A string is its length.  The strings of argv and env are numbered       *)
(* through; args.ends[k] is where string k would end if they lay one       *)
(* behind the other, so that ends[k] - ends[k - 1] is the length of        *)
(* string k.  An item of the buffer has a place, a length and a value: the *)
(* word written, or the number of the string.                              *)
(***************************************************************************)
EXTENDS Integers, Sequences

CONSTANTS
    StackBase, StackSize, \* STACK_BASE, STACK_SIZE
    StackArgs             \* the arguments of build_initial_stack

Word == 8         \* size_of::<usize>()
RandomLen == 16   \* random.len()
AT_NULL == 0
AT_PHDR == 3
AT_PHENT == 4
AT_PHNUM == 5
AT_PAGESZ == 6
AT_ENTRY == 9
AT_RANDOM == 25
AT_EXECFN == 31
PAGE_SIZE == 4096

\* argc and envc strings; nul[k]: string k ends with a NUL, and so is not empty.
StackArgsOK(a) ==
    /\ a.argc \in Nat /\ a.envc \in Nat
    /\ a.ends \in [0..(a.argc + a.envc) -> Nat] /\ a.ends[0] = 0
    /\ a.nul \in [1..(a.argc + a.envc) -> BOOLEAN]
    /\ \A i, j \in 0..(a.argc + a.envc) : i <= j => a.ends[i] <= a.ends[j]
    /\ \A i \in 1..(a.argc + a.envc) : a.nul[i] => a.ends[i - 1] < a.ends[i]
    /\ a.phdr \in Nat /\ a.phent \in Nat /\ a.phnum \in Nat /\ a.entry \in Nat

ASSUME StackAssumption ==
    /\ StackBase \in Nat /\ StackBase % 16 = 0
    /\ StackSize \in Nat /\ StackSize % 16 = 0
    /\ \A a \in StackArgs : StackArgsOK(a)

VARIABLES
    args,        \* the arguments
    at,          \* where the two functions are
    k,           \* how often the loop has run
    offset,      \* estimate_stack_size: offset
    env_offset,  \*   and env_offset
    layout,      \* the Layout it returns
    uaddr,       \* build_initial_stack: uaddr
    buf,         \* StackWriter.buf: its items,
    length,      \*   and its length
    remaining,   \* StackWriter.remaining
    error        \* the Error returned, or None

writer == <<buf, length, remaining>>
stackVars == <<args, at, k, offset, env_offset, layout, uaddr, writer, error>>

None == "none"
NoLayout == [sp |-> 0, argv_base |-> 0, env_base |-> 0, random_uaddr |-> 0]
Strings == args.argc + args.envc
Len1(i) == args.ends[i] - args.ends[i - 1]

\* align_up for the constant alignment of the stack
align_up16(v) == ((v + 15) \div 16) * 16

\* How many auxv entries estimate_stack_size makes room for.  Faulty variant: an entry
\* was added and the count forgotten.
AUXV_COUNT_stale == 7
AUXV_COUNT == 8

Auxv ==
    << AT_RANDOM, layout.random_uaddr,  AT_EXECFN, layout.argv_base,
       AT_PHDR,   args.phdr,            AT_PHENT,  args.phent,
       AT_PHNUM,  args.phnum,           AT_PAGESZ, PAGE_SIZE,
       AT_ENTRY,  args.entry,           AT_NULL,   0 >>

\* The offset before the strings are counted: argc, argv, NULL, envp, NULL, auxv.
argv_offset ==
    Word + Word * args.argc + Word + Word * args.envc + Word + Word * AUXV_COUNT * 2

StackInit ==
    /\ args \in StackArgs
    /\ at = "estimate" /\ k = 0 /\ offset = 0 /\ env_offset = 0
    /\ layout = NoLayout /\ uaddr = 0
    /\ buf = <<>> /\ length = 0 /\ remaining = StackSize
    /\ error = None

Fail(e) ==
    /\ error' = e /\ at' = "failed"
    /\ UNCHANGED <<args, k, offset, env_offset, layout, uaddr, writer>>

-------------------------------------------------------------------------------
(* estimate_stack_size                                                        *)

EstimateWords ==
    /\ at = "estimate"
    /\ offset' = argv_offset
    /\ at' = "estimate_argv"
    /\ UNCHANGED <<args, k, env_offset, layout, uaddr, writer, error>>

EstimateString(loop, end) ==
    /\ at = loop /\ k < end
    /\ \/ ~args.nul[k + 1] /\ Fail("NotNulTerminated")
       \/ /\ args.nul[k + 1]
          /\ offset' = offset + Len1(k + 1)
          /\ k' = k + 1
          /\ UNCHANGED <<args, at, env_offset, layout, uaddr, writer, error>>

EstimateEnv ==
    /\ at = "estimate_argv" /\ k = args.argc
    /\ env_offset' = offset
    /\ at' = "estimate_env"
    /\ UNCHANGED <<args, k, offset, layout, uaddr, writer, error>>

EstimateDone ==
    LET total == align_up16(offset + RandomLen)
        sp == StackBase + StackSize - total
    IN
    /\ at = "estimate_env" /\ k = Strings
    /\ \/ total > StackSize /\ Fail("StackTooSmall")
       \/ /\ total <= StackSize
          /\ layout' = [sp |-> sp, argv_base |-> sp + argv_offset,
                        env_base |-> sp + env_offset, random_uaddr |-> sp + offset]
          /\ at' = "argc" /\ k' = 0
          /\ UNCHANGED <<args, offset, env_offset, uaddr, writer, error>>

-------------------------------------------------------------------------------
(* StackWriter                                                                *)

\* write_bytes of n bytes with the value v; then on to `label`.
write_bytes(n, v, label, i, u) ==
    \/ remaining < n /\ Fail("StackTooSmall")
    \/ /\ remaining >= n
       /\ buf' = Append(buf, [at |-> length, len |-> n, value |-> v])
       /\ length' = length + n
       /\ remaining' = remaining - n
       /\ at' = label /\ k' = i /\ uaddr' = u
       /\ UNCHANGED <<args, offset, env_offset, layout, error>>

write_usize(v, label, i, u) ==
    \/ length % Word # 0 /\ Fail("UnalignedWrite")
    \/ length % Word = 0 /\ write_bytes(Word, v, label, i, u)

\* StackWriter::align.  Faulty variant: it aligns to words only.
PaddingToWord == ((length + 7) \div 8) * 8 - length
Padding == align_up16(length) - length

-------------------------------------------------------------------------------
(* build_initial_stack                                                        *)

WriteArgc == at = "argc" /\ write_usize(args.argc, "argv", 0, layout.argv_base)

\* argv[i], envp[i]
WritePointer(loop, end) ==
    /\ at = loop /\ k < end
    /\ write_usize(uaddr, loop, k + 1, uaddr + Len1(k + 1))

WriteArgvNull ==
    at = "argv" /\ k = args.argc /\ write_usize(0, "envp", k, layout.env_base)

WriteEnvpNull == at = "envp" /\ k = Strings /\ write_usize(0, "auxv", 0, uaddr)

WriteAuxv ==
    /\ at = "auxv" /\ k < Len(Auxv)
    /\ write_usize(Auxv[k + 1], "auxv", k + 1, uaddr)

AuxvDone ==
    /\ at = "auxv" /\ k = Len(Auxv)
    /\ at' = "strings" /\ k' = 0
    /\ UNCHANGED <<args, offset, env_offset, layout, uaddr, writer, error>>

\* The strings of argv, then those of env.
WriteString ==
    /\ at = "strings" /\ k < Strings
    /\ write_bytes(Len1(k + 1), k + 1, "strings", k + 1, uaddr)

WriteRandom ==
    /\ at = "strings" /\ k = Strings
    /\ write_bytes(RandomLen, Strings + 1, "align", k, uaddr)

WritePadding == at = "align" /\ write_bytes(Padding, 0, "finish", k, uaddr)

\* vmarea.write(remaining, buf), which fails if there are not enough pages.
Finish ==
    /\ at = "finish"
    /\ \/ Fail("VmAreaWrite")
       \/ at' = "built" /\ UNCHANGED <<args, k, offset, env_offset, layout, uaddr, writer, error>>

StackNext ==
    \/ EstimateWords \/ EstimateEnv \/ EstimateDone
    \/ EstimateString("estimate_argv", args.argc)
    \/ EstimateString("estimate_env", Strings)
    \/ WriteArgc \/ WriteArgvNull \/ WriteEnvpNull \/ WriteAuxv \/ AuxvDone
    \/ WritePointer("argv", args.argc) \/ WritePointer("envp", Strings)
    \/ WriteString \/ WriteRandom \/ WritePadding \/ Finish

StackSpec == StackInit /\ [][StackNext]_stackVars

-------------------------------------------------------------------------------
(* Properties                                                                 *)

\* The area is mapped at StackBase, the buffer lies at its offset `remaining`.
Placed(i) == StackBase + remaining + buf[i].at
NumWords == 3 + args.argc + args.envc + Len(Auxv)

\* The stack that a program finds: sp is aligned and points to argc; every pointer of
\* argv and envp is the address at which its string has been put, both lists end with
\* NULL; AT_RANDOM and AT_EXECFN point to the random bytes and to argv[0]; nothing
\* reaches beyond the area.  (estimate_stack_size computes the addresses before
\* build_initial_stack writes anything.)
StackExact ==
    at = "built" =>
        LET first == NumWords + 1
            auxv == 3 + args.argc + args.envc
        IN
        /\ layout.sp = Placed(1) /\ layout.sp % 16 = 0
        /\ buf[1].value = args.argc
        /\ \A i \in 1..args.argc :
               buf[1 + i].value = Placed(NumWords + i) /\ buf[NumWords + i].value = i
        /\ buf[2 + args.argc].value = 0
        /\ \A i \in (args.argc + 1)..Strings :
               buf[2 + i].value = Placed(NumWords + i) /\ buf[NumWords + i].value = i
        /\ buf[auxv].value = 0
        /\ buf[auxv + 2].value = Placed(first + Strings)
        /\ args.argc > 0 => buf[auxv + 4].value = Placed(first)
        /\ remaining + length = StackSize
        /\ \A i \in DOMAIN buf : buf[i].at + buf[i].len <= length

\* Once the estimate has accepted the arguments, no write fails for lack of room or of
\* alignment: every `?` on the writer is dead but the last one.
EstimateCovers ==
    at = "failed" /\ layout # NoLayout => error = "VmAreaWrite"
===============================================================================
