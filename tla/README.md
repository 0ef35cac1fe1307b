# BSVM in TLA+

A TLA+ development of BSVM, a small virtual machine (`bsvm`) with its assembler
(`bsm`). It models what the programs do, as the C source does it, checks it with
TLC on small instances, and proves parts of it with TLAPS for all instances.

## The system

`bsm` turns a text file into a binary: lexer, parser, two assembler passes, an
encoder. `bsvm` reads the binary, loads its code at address 0 and its data at
`DATA_BASE` of a 2048 byte memory, and steps the processor until an instruction
fails or halts the machine. Each program has one thread. The hard behaviours are
long sequences of legal operations (mallocs and frees, pushes and returns,
comparisons and jumps, syscalls, lines of a program), boundaries of numbers and
segments, state left behind by an earlier step, undefined behaviour of the C
code, and, for the file between the two programs, crashes, short writes and a
reader beside a writer.

| Component | State | Operations | What makes it correct |
|---|---|---|---|
| Heap allocator (`allocator.c`) | the list `vm->memblocks` | `vm_alloc`, `vm_free` | the nodes cover the heap; a block in use is nobody else's; freed memory can be used again |
| Arithmetic and flags (`instructions.c` 13-1026) | registers, `sr` | 12 instructions in up to 5 modes | results wrap to 64 bits; the flags of CMP decide every conditional jump |
| Memory, stack, control (`instructions.c` 1029-1824, `memory.c`, `cpu.c`, `vm.c`) | `sp`, `pc`, `memory`, `running` | LD, ST, SWP, FAS, PUSH, POP, CALL, RTN, jumps, NOP, RST, HALT | the stack stays in its segment and is last in first out; the code is not overwritten |
| Codec (`instructions_codec.c`) | none, but an uninitialised variable of `cpu_step` | `instructionEncode`, `instructionDecode` | what is encoded is decoded; nothing is read beyond the segment |
| Syscalls (`instructions.c` 1828-2122) | heap, stack, files | TRAP and 16 syscalls | a failure changes nothing but the stack; code and data are safe; RST and the heap agree |
| Loader, binary file (`loader.c`, `binary.c`) | the file, the buffers of `bsvm` | write, read, load | the machine starts with one image, or none; segments that do not fit are refused |
| Assembler (`assembler.c`) | symbol table, section, addresses, buffers | two passes | both passes agree on every address; the buffers are filled and not overrun; exactly the well formed programs are accepted |
| Parser, lexer (`parser.c`, `lexer.c`) | buffer of the line, list of nodes | tokens, lines | each line is one node that says what the line says; wrong lines are refused |

How they interact: the parser asks the lexer for tokens of its line buffer and
gives the assembler a list of nodes; the assembler uses the encoder and gives
`writeBinaryFile` an image; `bsvm` reads and loads it. The processor calls the
allocator through TRAP and the syscalls, which pop their arguments with the
handler of POP; RST calls `destroyVM` and `initVM`, hence clears heap, memory and
registers alike; the stack segment begins where the heap ends, so that a push
too many would write to the last block of the heap.

## Modules

| Module | What it holds | Code |
|---|---|---|
| `Allocator` | the node list and its operations, as operators | `vm_alloc`, `vm_free` |
| `Heap` | state machine of a program that mallocs and frees | the allocator and the syscalls malloc and free |
| `AbstractHeap` | what malloc and free promise | - |
| `Words` | words, results, flags, conditions of the jumps | `setSR...`, arithmetic |
| `InstructionSet` | opcodes, modes, sizes, operands | `instructions.h`, the tables of `instructions.c` |
| `Machine` | the processor, one action per instruction | `cpu_step`, every handler but TRAP |
| `BoundedStack` | what the stack promises | - |
| `System` | `Machine`, `Allocator` and the syscalls on one memory | `instrTRAP` and the syscalls |
| `Codec` | instructions as bytes | `instructions_codec.c` |
| `IR` | lines and operands | `parser.h` |
| `Assembler` | state machine of the two passes | `assembler.c`, `main_bsm.c` |
| `AssembledProgram` | what a program means: addresses, well formed lines, bytes | - |
| `Image` | the file, its writer, its reader, the loader | `binary.c`, `loader.c`, `main_bsvm.c` |
| `Lexer` | tokens of a line | `lexer_next_token` |
| `Parser` | state machine that reads a file line by line | `parser.c` |
| `ParsedFile` | what a line means, stated by its form | - |
| `MCMachine`, `MCSystem`, `MCAssembler`, `MCImage`, `MCParser` | programs, images and files for the runs | - |
| `WordsProofs`, `CodecProofs`, `SystemProofs`, `AllocatorProofs`, `HeapProofs`, `AssemblerProofs`, `ImageProofs`, `ParserProofs` | the proofs | - |

`Words` is extended by `InstructionSet`, that by `Codec`, `IR` and `Machine`;
`System` extends `Machine` and instantiates `Allocator`; `Assembler` and `Image`
extend `Codec`; `Parser` extends `Lexer` and `IR`. A list of nodes of `Parser`
is a program of `Assembler` (`IR.Line`), and an image of `Assembler` is a file
of `Image` (`Codec.Encode`).

Named mutants (`...PastEnd`, `...NoTrap` and the like) are wrong variants of the
operator that follows them. They are not used by the specification; they show
which mistake each property would catch.

### Heap

`nodes` is the list linked by `MemNode.next`, in that order; `held` is no state
of the code but the account of its user: the blocks the program was given and
has not given back. A call that does not return `VM_OK` ends the run of the
machine, so `status` blocks every action after it. The program may also free any
address it does not hold (`StrayFree`). A `Malloc` with an exact fit leaves an
empty free node, as the code does.

### Words

A register is a signed word, an address the same word read unsigned. The status
register is the set of the names of its bits. `Result` and `SetFlags` follow the
C expressions; a shift count is masked, a signed overflow wraps, which is what
the compiled code does under the project's flags. Operators on bits work on
sets of bit positions. `WORD_SIZE`, `BASE` and `BITS` scale the words down.

### Machine

The state is `struct VM` without the heap, plus `status`, which `cpu_step`
returned last, and one history variable, `compared`, the words that the last CMP
compared, forgotten when another instruction sets the flags.

* **Instructions.** The code segment keeps no bytes. `Code[x]` is the set of
  instructions that the bytes at the address x may be: a singleton for one
  program, more for every choice among programs at once. A byte that an
  instruction overwrites becomes a number, and an instruction is fetched only
  while its own bytes are intact, or when two bytes 0 make ADD without operands,
  which is unknown. Other overwritten code is not decoded and the model stops;
  so does the real machine when an opcode is invalid (`exit`).
* **The operand.** `instructionDecode` ORs the operand into an uninitialised
  variable. `Decoded` ORs it with any member of `Garbage`. With `Garbage = {0}`
  the variable happened to be clear. The theorems hold for every `Garbage`, and
  `machine_compare` runs with two.
* **A word at the last addresses.** `addr + 7` wraps around for the last 7
  addresses, and the bytes below address 0 are the status register and part of
  `pc`: a read gives any word, a store any flags and perhaps another `pc`.
* **Register numbers.** The assembler takes register numbers up to 255
  (`parser.c:378`). Most handlers refuse one that does not exist; the jumps,
  FASI and FASX do not always. `struct VM` keeps `sp` and `pc` behind the
  registers, then the byte `sr` and the memory, so that the number `r` is the
  word at `SlotPlace(r)`, counted from the memory: `N_REG + 2` is `sr` with the
  first bytes of the code, larger numbers are words of the memory, each one byte
  off. A FAS into such a register loads over the flags (`StatusAfter`, which
  drops `compared`) or the memory (`MemoryAfter`), and where the word that it
  reads and the one that it loads into overlap, `memRead64` reads the bytes it
  has just put there (`WordsInto`). `MaxRegister` is any number that stays
  within the memory.
* **RTN** compares a word that a failed read leaves uninitialised: both errors
  are possible then.

Several handlers share an action where the code repeats itself: the 62 handlers
of ADD to SHR differ in `Result` and `SetFlags` alone, so `BinaryStep` and
`Operand` stand for all. The map of PROJECT.json names for each shared operator
one family of handlers it stands for.

### System

One action per syscall. `PopFails(k)` is the k-th pop that fails: the k - 1
words before it are gone and the last of them is in register 0. `Returns` is the
end of a handler as `cpu_step` sees it. The bytes that a file or the terminal
gives are any of `Input`, what the operating system answers to write, open,
close and scanf any of `Results`. Where C leaves the outcome undefined (a write
past the memory, a memcpy with overlap, a table read out of bounds) the status
is `"UNDEFINED"` and the run ends, so no property says anything of what follows.

read_str, memset and memcpy add an address of 64 bits to `vm->memory`, and an
address near 2^64 lies before it: the sum that read_str and memset test wraps
around and passes. Such an address is a small negative number here. What is
written there are the fields of `struct VM` before the memory, each overlaid
with the bytes that reach it (`Overlaid`), and the first bytes of the memory
(`Puts`, `ReturnsOver`): `sr`, `pc`, `sp`, the registers, then the code. fgets
takes its size as an `int` (`CInt`). Only beyond `struct VM` (`InTheVM`) is the
outcome undefined.
`held` is again the account of the program, which RST does not change, since the
program that held the blocks is gone with its code.

### Assembler

One step per line and pass. `status` is the local variable that
`getModeFromOperands` leaves alone for an instruction without operands: at the
start of a pass it is `"ASM_OK"` or garbage. `room` keeps both sizes of the
symbol table, the number of entries that `size` says and the number that
`realloc` gave (`2 * size` bytes). A byte of a buffer that `malloc` has just
returned is `Unset`, which is no byte. `at` is a history variable: addresses and
section before each line in the first pass. A `.word` with a name writes
whatever pointer the union holds (`Pointers`).

### Image

Two processes. The writer truncates, then writes header, code and data, each
with one `write` that may store less than it is given when the disk becomes
full; it may be killed before or in the middle of a write. The reader reads
header, code and data with one `read` each, into buffers of zeros, and loads.
`seen` is the file as it was when the reader opened it, `overlapped` tells that
the writer did something between two reads. `bsvm` may be run again and again.

### Lexer and Parser

A line is a sequence of lexemes instead of characters: numbers, registers,
names, signs, comments, and `OTHER` for what no token begins with. `Token` and
`After` are the token at a cursor and the cursor behind it. What is kept is
where control looks: comments that end a line, numbers that are too large and
pass (each digit is tested against the signed word that the digits before it
have made, `TooLong`), and what lies in the buffer behind the end of a line,
since `parse_instrOPE` may take the end of a line itself and then asks for one
more. Leftovers in the buffer thus begin at a lexeme. `zeroed` tells that the
node that comes next was cleared by an empty line; a field that no line assigns
is `"UNSET"` otherwise. All errors but the unlooked-at ones end the program and
are one, `"refused"`.

`ParsedFile` says what a line means by its form, without cursor and buffer, and
names the forms that the code treats otherwise (`Takes`, `Refuses`, `GoesOn`).
`AssembledProgram` does the same for the assembler: addresses are sums over the
lines before, without passes.

## What the runs check

| Run | Shows | Bounds |
|---|---|---|
| `heap_programs` | `TypeOK`, `Tiling`, `HeldIsReserved`, `ImplementsAbstractHeap`, 46,940 states | a heap of 4 bytes, blocks of 0 to 5 bytes, 6 nodes (`MaxNodes`), 4 blocks held (`MaxHeld`): four blocks fill the heap and six nodes make room for empty ones |
| `heap_lifo` | `LifoShape`: with frees in reverse order one free node follows the blocks | a heap of 8 bytes; no bound of the nodes is reached, since sizes begin at 1 |
| `machine_stack` | `StackBounds`, `PushesInTheStack`, `ImplementsBoundedStack`, 62,379 states | words of two bytes, a stack of three words, so that it is empty, full and between; the program chooses at two addresses among 17 instructions and comes back |
| `machine_compare` | `TypeOK`, `JumpsFollowCompare`, 4,729 states | 6-bit words; operands -32, -1, 0, 1, 31, every arithmetic instruction, a FAS into the register number that is `sr`, all conditional jumps, two values of the uninitialised operand |
| `machine_memory` | `CodeIsProtected`, 24,626 states | stores of every kind to data, stack, code and the last address; FAS with register numbers up to 15, which are `sr` and words of the memory |
| `system_syscalls` | `SysTypeOK`, `SysStackBounds`, `BlocksStayDisjoint`, `ProgramIsProtected`, `FailedSyscallsOnlyPop`, `ResetEnds`, 40,411 states | 8-bit words, a heap of 3 bytes, a stack of 3 words; syscall numbers 0 to 17, one negative and one that is 10 only as an int, after 0 to 3 pushes of addresses of code, heap and stack and of words that wrap around, so that -1 is the address of `sr` and -5 that of `sp`; a loop of malloc, free and RST with up to 9 nodes (`MaxNodes`); reads of up to 3 bytes (`MaxRead`) |
| `assembler_programs` | `TypeOK`, `PassesAgree`, `WritesFit`, `ImageIsWhole`, `AcceptsWellFormed`, `AssembledRight`, 302,864 states | all programs of two data and two text lines among 9 and 12, in both orders of the sections, and 14 kinds of wrong lines; the table starts with 2 entries, so that the third label is one too many |
| `image_files` | `TypeOK`, `WholeUnlessFull`, `LoadsOneImage`, `WholeImageIsLoaded`, `RunsWhatWasWritten`, 67,174 states | 6 images, each over each other and over 3 files that are none: small, full to the last byte, an instruction too near the end, too much code, too much data for the segment and for the buffer |
| `parser_files` | `TypeOK`, `ParsedAsWritten`, `RefusesOnlyIllWritten`, about 58,600 states | all lines of up to 4 lexemes after two mnemonics, all of up to 3 in brackets, numbers too large by one digit and by more, the forms of directives and labels; in files of one to three lines, one of them too long for the buffer and one that fits it but for its newline, so that a list of 2 nodes overflows on two lines; a buffer takes 9 lexemes |

A stack, heap or memory that is larger repeats the same cases, and the theorems
below remove the bounds for the properties they cover. A mixture that a larger
program would show needs no more than two data lines, two text lines and a
reference in each direction, since a line's effect depends on the counters, the
section and the table alone.

`CHECK_DEADLOCK FALSE` stands in the heap runs, where nothing follows a failed
call, and in `image_files`, where the machine has been started, or the reader
has written past its buffer, and the writer is done. The other specifications
have an action `Exit` for their ends, so that TLC's deadlock check shows that
every instruction, syscall and line has an outcome.

**Fairness.** `SysSpec` alone states it: `WF_sysVars(SysNext)`. The loop of
`vm_run` (`vm.c:39-45`) calls `cpu_step` again as long as it returns `VM_OK` and
the machine runs, and nothing else stops it. No stronger fairness is needed:
`ResetEnds` says that a machine whose memory is cleared ends with
`VM_UNKNOWN_INSTR`. The other specifications have no liveness property: a
program may loop for ever, and bsm may be killed.

Violation runs, each about one sentence of the manual, a comment or a message
(details in the findings of PROJECT.json):

| Run | Property | What the code does |
|---|---|---|
| `heap_leak` | `NoLeak` | an exact fit leaves an empty free node; freeing the block that begins there releases the empty node, the block stays in use |
| `machine_operands` | `LoadsItsOperand` | LD R0, 12 may load more than 12 |
| `parser_lines` | `UnknownLinesAreRefused` | a line that begins with no dot, name or mnemonic is accepted, in the trace a string alone, and its node is uninitialised |

Other places where the code and its texts part, modelled but without a run of
their own:

* JNE through a register's address tests the opposite of its comment
  (`instructions.c:1641`, comment 1639); `JumpsFollowCompare` excludes it.
* FASI stores at the number of its register (1280, comment 1268); it is one of
  the exceptions of `CodeIsProtected`.
* CALL and RTN accept a negative target (1331); register `N_REG`, which is `sp`,
  passes the checks of `jumpr`, `jumpi` and `jumpx` (1479), and any number up to
  255 those of FASI and FASX beside a register that exists (1270, 1287).
* read_str, memset and memcpy at an address near 2^64 write over `sp`, `pc`,
  the flags and the code, and return `VM_OK` (1963, 2015, 2042); they are the
  exceptions of `SysStackBounds` and `ProgramIsProtected`.
* "Heap is out of memory" (`vm.c:65`) is reported of a heap that is all free but
  cut into nodes; a free of a free block returns `VM_OK` where `vm.c:66` has a
  message for it.
* A JMP to its own address goes on with the next instruction; JMP [x] refuses
  every x of the data segment (`instructions.c:1492`).
* memset takes the pointer, then the value, then the size off the stack, where
  the manual has `memset(size, addr, value)` (`README.md:48`); read is number 1
  of the table and number 2 in the manual; read_str refuses a block that ends
  at the end of the heap.
* The size of the data is compared with a negative number taken as a size
  (`binary.c:49`) and never refused there.
* A `.word` with a name writes a pointer of the assembler into the image.
* A name stands for the first of the table that begins with it: S is SUB.

## What is proved

Every theorem holds for all values of the constants that the assumptions below
allow. `AllocatorProofs` holds lemmas about the operators of `Allocator` that
`HeapProofs` and `SystemProofs` share.

* **The heap** (`HeapProofs`), for every heap, every `MinSize` and every bound:
  `HeapTypeCorrect`, `HeapTiles`, `HeapReserves`, `HeapImplementsAbstractHeap`.
  `HeldIsReserved` is not inductive: a stray free releases the first node at an
  address, and what keeps it off a block held is that no two nodes that matter
  share bytes. The inductive invariant `HeapInv` adds the order of the nodes by
  address, that blocks held are distinct, and a matching: each block held,
  even an empty one, has a node in use of its own at its address. The matching
  is what makes a free of an empty block harmless to its neighbours.
  `LifoKeepsTheHeapWhole`, for blocks that are not empty (`MinSize > 0`, the
  theorem's hypothesis, and what `heap_lifo` runs with): `LifoInv` adds to the
  shape of the list that no block held is empty, so that `vm_free`, which takes
  the first node at the address, takes the last block.
* **Types** (`MachineIsTyped`, `SystemIsTyped`, `AssemblerTypes`,
  `FilesAreTyped`). That AND, OR, XOR and NOT give words needs the sum of the
  powers of two of a set of bits; `WordsProofs` bounds it by induction over the
  bits. The library's theorems of induction cannot be used here, as they take
  a predicate for a parameter; `SetInduction` states induction for a set of
  numbers and is proved from its least element outside.
* **Comparison** (`WordsProofs`, `SystemProofs`): `CompareDecides`, for every
  width of the words and all operands: the flags of CMP decide all six jumps on
  the signed order, also when the subtraction overflows. `JumpsAlwaysFollow`
  carries it through the machine: as long as `compared` is valid, the flags are
  those of a comparison of its words, since each instruction leaves both or
  drops `compared`; so each conditional jump but JNEI goes by them.
* **The stack** (`SystemProofs`): `StackIsBounded` and `PushesAreConfined`, for
  every layout whose stack segment is a whole number of words, every word size,
  every set of programs and every `Garbage`, under `FasRegistersExist`: FAS is
  the only instruction that can load into `sp` through a register number. The
  invariant is that `sp` is a whole number of words below `MEM_SIZE`: `sp`
  strictly above `STACK_BASE` then leaves room for a word, which the test
  `sp <= STACK_BASE` alone does not say.
* **The stack as a stack** (`StackImplementsBoundedStack`): under the same
  condition `Machine` implements `BoundedStack`, with the words between `sp` and
  `MEM_SIZE` as the mapping. Each instruction is one of seven kinds
  (`StackStep`): it spares the stack, stores one word somewhere, pushes, pops,
  is refused for overflow or for underflow, or is RST. The store is the hard
  one: it may be unaligned, cross two words and wrap around behind the last
  address. The bytes it reaches are less than a word apart (`ReachIsShort`), so
  they belong to at most two words, which are neighbours: a `Poke`. The
  invariant adds the types and that the stack segment holds bytes, also where no
  push has been yet.
* **The code segment** (`SystemProofs`): `CodeIsAlwaysProtected`, for every
  program and every register number: an instruction that changes a byte of the
  code is RST, a FAS that stores elsewhere than it loads or loads into a
  register number that is a word of the memory, or a store at an address whose
  word wraps around. A checked store is at or above `DATA_BASE` and ends below
  `MOD` (`CheckedStore`); PUSH and CALL need no invariant for that: a word below
  any `sp` above `STACK_BASE` is above the code, since there is room for a word
  between the two (`PushSparesCode`).
* **Syscalls** (`SystemProofs`): `SystemStackIsBounded`, under
  `FasRegistersExist`, as an action property: no step takes `sp` out of the
  stack segment but a read_str, memset or memcpy at an address before the
  memory. A syscall pops up to three words and may fail between two of them; k
  pops that succeed end at `sp + k` words, not above `MEM_SIZE` (`TopsStay`).
  For every program: `SyscallsFailCleanly`, that a failing syscall has popped at
  most three words and changed register 0 and nothing else, and
  `ProgramIsAlwaysProtected`, that read, read_str and memset fill memory from an
  address in the heap or above, although the sum they compare with its end may
  wrap around, or begin before the memory (`Handles` lists what a syscall may
  do, `PutsHandled` covers the three that write).
* **Blocks of a running program** (`BlocksAlwaysDisjoint`): the system
  implements the abstract heap for the blocks that are not empty, without
  `FasRegistersExist`. The heap's invariant does not carry over as it stands:
  RST makes a new list of nodes while the program holds its blocks. The
  invariant `BlocksInv` says that each block in use has a node of its own, or
  that every byte of the memory is 0; all that can be fetched then is an ADD
  without operands, which is unknown.
* **The codec** (`CodecProofs`): `DecodedAsEncoded`, for every instruction, word
  size and place in memory, provided `instructionDecode` is told of two bytes
  more than there are and finds its variable clear: what `machine_operands`
  shows is that the second condition is needed. Words go through bytes and
  back by `BitsRestoreTheWord` and the sums of bytes.
* **The assembler** (`AssemblerProofs`): `PassesAlwaysAgree`, `WritesAlwaysFit`
  and `ImageIsAlwaysWhole`, for every set of programs. The invariant `PassInv`
  says of the history `at` that each entry follows from the one before by its
  line, that both addresses never decrease, that the first pass stands at its
  end, and that the second walks along it: hence it stays below the last entry,
  from which the buffers have their sizes. `ImageIsWhole` is inductive with it:
  each line of the second pass writes all bytes between the addresses before and
  after it.
* **What the assembler makes of a program**: `WellFormedIsAccepted` and
  `ProgramsAreAssembledRight`, for every set of programs and every pointer that
  a `.word` with a name may write. `AssemblerInv` adds four parts to `PassInv`:
  `Learned`, that the table holds the labels of the lines passed, each once and
  at its address, and that these lines passed the checks; `StatusKnown`, that a
  status is garbage only as long as no instruction had operands; `Ends`, why an
  assembly ended, as a fact of the state it ended in; and `Written`, that each
  line the second pass has left stands in the buffers, where it stays, since
  every later line writes behind it (`WrittenStays`). Behind the first pass the
  history is what the lines mean (`SectionsAsMeant`, `CodeAsMeant`,
  `DataAsMeant`, the sums of `AssembledProgram` by induction over the lines) and
  the table is `LabelAddress` (`SymbolsAsMeant`). That a table is overrun by
  more labels than `SYMBOLS` alone takes an injection of its entries and the
  new name into the labels (`TableOverrun`).
* **The file** (`ImageProofs`): `WrittenFilesAreWhole`, `AlwaysLoadsOneImage`,
  `WholeImagesAreLoaded` and `ProgramsRunAsWritten`. `DiskInv` says of the
  writer that the file is the old one, or the first n bytes of the new image,
  and how n goes with the part that is being written. `ReaderInv` says of the
  reader, unless a write came between its reads, that its buffers are what the
  file it opened determines. What a beginning of an image determines
  (`BeginningsAreRead`) leads to the properties, the last of them with
  `DecodedAsEncoded` and the place of an instruction in the code, which is a
  sum over the instructions before it (`JoinOf`).
* **The parser** (`ParserProofs`): `ParserTypesAlways`, `ParsedAsWrittenAlways`
  and `RefusesOnlyIllWrittenAlways`, for every set of files and every size of
  the buffer and of the list. `ParsedAsWritten` is not inductive: it speaks of
  the end alone. The invariant `ParserInv` says that what is unread is the end
  of the file, that the last two places of the buffer were never written, that
  as long as the parser runs the next read begins at a place of `ReadFrom` or
  behind the file, and that the list has one node for each line of `NonBlank`
  before that place, each as its line is written; for the other ends it says
  which line, or which number of reads and nodes, led there. Three groups of
  lemmas carry it:
  * *Tokens and operands.* `Token` and `After` at a cursor are one lexeme of the
    line or its end (`NextToken`, `TokenIs`), so each parsing function gives one
    of a few operands for the lexemes at its cursor (`OperandGives`,
    `InBracketsGives`, `DirGives`, `InstrGives`); types follow.
  * *A line, both ways.* In a buffer that begins with a line and its end
    (`View`), a line that stands for a node is parsed to that node or is one that
    `Refuses` names (`MeantIsParsed`), and a line that is parsed stands for a
    node or is one that `Takes` names (`ParsedIsMeant`). The hard case is the
    instruction that takes the end of the line for a token of its own and asks
    for one more, which may be a leftover of an earlier line: only a last line
    without newline that ends with a label in brackets lets it see that
    (`LabelGoesOn`, the case of `GoesOn`).
  * *The file.* `fgets` at a place of `ReadFrom` gives one line, or the newline
    of a line that filled the buffer (`ChunkOfLine`, `ViewOfLine`), and the next
    read begins at the next such place (`NextRead`).

`JumpsAlwaysFollow`, `MachineIsTyped`, `SystemIsTyped` and
`BlocksAlwaysDisjoint` hold for every register number too, and the last two with
writes before the memory in the system.

The assumptions are those of the modules on their constants (`HeapAssumption`,
`SizeAssumption`, `WordAssumption`, `MachineAssumption`, `SystemAssumption`,
`CodecAssumption`, `AssemblerAssumption`, `ImageAssumption`, `ParserAssumption`,
`NamesAssumption`), which TLC evaluates for the values of the runs and which the
values of `common.h` satisfy. `MachineAssumption` bounds `MaxRegister` by the
memory: the word that the number names ends in it, as the 255 of an operand of
one byte does (`8 * (255 - N_REG - 1) <= MEM_SIZE`).
`ImageAssumption` says of the images what bsm makes: operands that an
instruction does not have are zeros (`assembler.c:233`), sizes are numbers of 64
bits, the last byte of the magic number is not 0 (0x66838677), and a file that
is no image does not begin with the magic number. `ParserAssumption` says that a
byte is not larger than a positive word (`BASE <= HALF`) and that a file is a text: the
lexeme `EOF` stands for the byte 0 that ends the buffer, and is in no file.
`NamesAssumption` has no parameter of the system: it says of the two tables of
names what TLC can compute and the provers cannot, to whom strings are no
sequences, namely that each name is found at its own place. `FasRegistersExist` is a
condition of the theorems that name it, not an assumption, since the assembler
accepts FAS with registers that do not exist; without it a FAS may load anything
into `sp`.

Every invariant and action property of a passing run is stated by a theorem.
Only model-checked: liveness (`ResetEnds`), which is out of the prover's reach;
so is that an assembly ends at all, which no property says. That no step but an
end is without a successor (deadlock) is also TLC's alone, since it is a matter
of ENABLED.

`RunsWhatWasWritten` decodes with a variable that happened to be clear; what
else may come of it is `machine_operands`.

## Not modelled

* The characters of a line: how names, numbers and strings are spelled, escapes
  (`\"` gives a tab, `lexer.c:14`), blanks, columns, and a leftover in the buffer
  that begins in the middle of a lexeme. They are data to the parser.
* What the programs print (messages, dumps, `printIRNode`, `printVM`) and the
  memory they release at their ends.
* `encodeProgram` and `totalProgSize` (`loader.c`), which nothing calls.
* What follows undefined behaviour: such a step ends the model with `"UNDEFINED"`.
* Code that an instruction has overwritten with anything but zeros.

## What is left

* Composition: `Parser`, `Assembler`, `Image` and `Machine` as one
  specification, in which a source text is the state before the first step of
  the machine. The interfaces, `IR.Line` and `Codec.Encode`, are shared already.
