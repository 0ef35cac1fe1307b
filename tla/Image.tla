------------------------------- MODULE Image -------------------------------
(***************************************************************************)
(* The binary file between the assembler and the virtual machine:          *)
(* writeBinaryFile and readBinaryFile (src/src/format/binary.c),           *)
(* loadProgram (src/src/runtime/loader.c) and the main of bsvm.  The one   *)
(* writes while the other may read; the writer may be killed, and the disk *)
(* may be full, at any byte.                                               *)
(***************************************************************************)
EXTENDS Codec

SX == INSTANCE SequencesExt

CONSTANTS
  STACK_BASE, HEAP_BASE, DATA_BASE, MEM_SIZE,
  Magic,          \* the bytes of MAGIC_NUMBER
  Programs,       \* what may be written: [entry, instrs, data]
  Strangers       \* files that are no image

(* The last byte of MAGIC_NUMBER in the file is 0x66: no file that is too  *)
(* short for it has it when zeros are added.  A field that the mode of an  *)
(* instruction lacks is 0 (assembler.c:233).                               *)
ASSUME ImageAssumption ==
  /\ DATA_BASE \in Nat \ {0} /\ HEAP_BASE \in Nat /\ STACK_BASE \in Nat
  /\ MEM_SIZE \in Nat /\ DATA_BASE < HEAP_BASE /\ HEAP_BASE < STACK_BASE
  /\ STACK_BASE < MEM_SIZE /\ MEM_SIZE < HALF
  /\ Magic \in Seq(Byte) /\ Magic # <<>> /\ Magic[Len(Magic)] # 0
  /\ Strangers \subseteq Seq(Byte)
  /\ \A s \in Strangers : ~SX!IsPrefix(Magic, s)
  /\ Programs \subseteq [entry : Word, instrs : Seq(Instruction), data : Seq(Byte)]
  /\ \A p \in Programs : \A k \in DOMAIN p.instrs : LET i == p.instrs[k] IN
       /\ i.mode = "NONE" => i.a = 0
       /\ ~HasSecondRegister(i.mode) => i.b = 0
       /\ ~HasWord(i.mode) => i.imm = 0

VARIABLES
  new,            \* the program that the assembler writes
  old,            \* the file that was there before: the bytes
  file,           \* the file
  writer,         \* what writeBinaryFile does next
  written,        \* the offset of the writer in the file
  full,           \* the disk takes no more
  reader,         \* what bsvm does next
  offset,         \* of the reader in the file
  bin,            \* the struct Binary of the reader
  mem, pc,        \* the memory and the pc that the virtual machine starts with
  seen,           \* history: the file as it was when bsvm opened it
  overlapped      \* history: the writer did something while bsvm read

disk == <<old, new, file, writer, written, full>>
bsvm == <<reader, offset, bin, mem, pc, seen>>
vars == <<disk, bsvm, overlapped>>

CodeOf(p) == SX!FlattenSeq([k \in DOMAIN p.instrs |-> Encode(p.instrs[k])])

(* The sizes are of the type size_t.                                       *)
ASSUME SizeAssumption ==
  \A p \in Programs : Len(CodeOf(p)) < MOD /\ Len(p.data) < MOD

Header(p) == Magic \o BytesOfWord(p.entry) \o BytesOfWord(Len(CodeOf(p)))
                   \o BytesOfWord(Len(p.data))

HDR_SIZE == Len(Magic) + 3 * WORD_SIZE

FileOf(p) == Header(p) \o CodeOf(p) \o p.data

Zeros(n) == [x \in 0..(n - 1) |-> 0]

NoBinary == [entry |-> 0, code_size |-> 0, data_size |-> 0,
             bytecode |-> Zeros(DATA_BASE),
             data |-> Zeros(STACK_BASE - DATA_BASE)]

Init ==
  /\ new \in Programs
  /\ old \in Strangers \cup {FileOf(p) : p \in Programs}
  /\ file = old /\ writer = "open" /\ written = 0 /\ full = FALSE
  /\ reader = "open" /\ offset = 0 /\ seen = <<>> /\ overlapped = FALSE
  /\ bin = NoBinary /\ mem = Zeros(MEM_SIZE) /\ pc = 0

----------------------------------------------------------------------------
(* writeBinaryFile.                                                        *)
Reads == reader \in {"code", "data", "load"}

WriterSteps ==
  /\ overlapped' = (overlapped \/ Reads)
  /\ UNCHANGED <<old, new, bsvm>>

OpenToWriteOver ==                               \* mutant of OpenToWrite
  /\ writer = "open" /\ writer' = "header"
  /\ WriterSteps /\ UNCHANGED <<file, written, full>>

OpenToWrite ==
  /\ writer = "open" /\ writer' = "header"
  /\ file' = <<>>
  /\ WriterSteps /\ UNCHANGED <<written, full>>

(* Each part goes to the file with one write, which may store only the     *)
(* first bytes of it.                                                      *)
FileParts == [header |-> Header(new), code |-> CodeOf(new), data |-> new.data]
After     == [header |-> "code", code |-> "data", data |-> "close"]

Store(n) ==
  /\ file' = SubSeq(file, 1, written) \o SubSeq(FileParts[writer], 1, n)
               \o SubSeq(file, written + n + 1, Len(file))
  /\ written' = written + n

(* On a full disk a write that stores less than it was given counts as a   *)
(* success; one that can store nothing makes CHK exit.                     *)
WritePart ==
  /\ writer \in DOMAIN After
  /\ LET size == Len(FileParts[writer]) IN
     \/ /\ ~full \/ size = 0
        /\ Store(size) /\ writer' = After[writer]
        /\ UNCHANGED full
     \/ /\ ~full
        /\ \E n \in 1..(size - 1) : Store(n)
        /\ full' = TRUE /\ writer' = After[writer]
     \/ /\ full /\ size > 0
        /\ writer' = "failed"
        /\ UNCHANGED <<file, written, full>>
  /\ WriterSteps

CloseWritten ==
  /\ writer = "close" /\ writer' = "done"
  /\ WriterSteps /\ UNCHANGED <<file, written, full>>

(* The process is killed, in the middle of a write or before it.           *)
Killed ==
  /\ writer \notin {"done", "failed"} /\ writer' = "failed"
  /\ \/ UNCHANGED <<file, written>>
     \/ /\ writer \in DOMAIN After /\ ~full
        /\ \E n \in 1..Len(FileParts[writer]) : Store(n)
  /\ WriterSteps /\ UNCHANGED full

----------------------------------------------------------------------------
(* readBinaryFile: a read gives the bytes that are there, perhaps fewer    *)
(* than it is asked for, and the buffers are 0 before.                     *)
Upto(s, n) == SubSeq(s, 1, IF n < Len(s) THEN n ELSE Len(s))

BytesRead(n) == Upto(SubSeq(file, offset + 1, Len(file)), n)

Padded(bytes, n) == [k \in 1..n |-> IF k <= Len(bytes) THEN bytes[k] ELSE 0]

WordOf(bytes) == CHOOSE w \in Word : BytesOfWord(w) = bytes

Field(header, k) == WordOf(SubSeq(header, Len(Magic) + k * WORD_SIZE + 1,
                                  Len(Magic) + (k + 1) * WORD_SIZE))

TooBigPast(code_size, data_size) ==              \* mutant of TooBig
  code_size > DATA_BASE \/ data_size >= (DATA_BASE - STACK_BASE) % MOD

(* The bound of the data is a negative number taken as a size_t.           *)
TooBig(code_size, data_size) ==
  code_size >= DATA_BASE \/ data_size >= (DATA_BASE - STACK_BASE) % MOD

ReadHeader ==
  /\ reader = "open"
  /\ LET bytes == BytesRead(HDR_SIZE)
         header == Padded(bytes, HDR_SIZE)
         code_size == Unsigned(Field(header, 1))
         data_size == Unsigned(Field(header, 2))
     IN
     \/ /\ SubSeq(header, 1, Len(Magic)) # Magic
        /\ reader' = "refused" /\ UNCHANGED <<offset, bin>>
     \/ /\ SubSeq(header, 1, Len(Magic)) = Magic
        /\ TooBig(code_size, data_size)
        /\ reader' = "refused" /\ UNCHANGED <<offset, bin>>
     \/ /\ SubSeq(header, 1, Len(Magic)) = Magic
        /\ ~TooBig(code_size, data_size)
        /\ bin' = [bin EXCEPT !.entry = Unsigned(Field(header, 0)),
                              !.code_size = code_size, !.data_size = data_size]
        /\ reader' = "code" /\ offset' = Len(bytes)
  /\ seen' = file
  /\ UNCHANGED <<disk, mem, pc, overlapped>>

Filled(buffer, bytes) == [x \in DOMAIN buffer |->
  IF x + 1 \in DOMAIN bytes THEN bytes[x + 1] ELSE buffer[x]]

ReadCode ==
  /\ reader = "code"
  /\ bin' = [bin EXCEPT !.bytecode = Filled(@, BytesRead(bin.code_size))]
  /\ offset' = offset + Len(BytesRead(bin.code_size))
  /\ reader' = "data"
  /\ UNCHANGED <<disk, mem, pc, seen, overlapped>>

(* The buffer for the data is as long as the segments from DATA_BASE to    *)
(* STACK_BASE.  A read of more than half of all addresses is an error.     *)
ReadData ==
  /\ reader = "data"
  /\ LET bytes == BytesRead(bin.data_size) IN
     \/ /\ bin.data_size >= HALF
        /\ reader' = "refused" /\ UNCHANGED <<bin, offset>>
     \/ /\ bin.data_size < HALF /\ Len(bytes) <= STACK_BASE - DATA_BASE
        /\ bin' = [bin EXCEPT !.data = Filled(@, bytes)]
        /\ offset' = offset + Len(bytes)
        /\ reader' = "load"
     \/ /\ bin.data_size < HALF /\ Len(bytes) > STACK_BASE - DATA_BASE
        /\ reader' = "UNDEFINED" /\ UNCHANGED <<bin, offset>>
  /\ UNCHANGED <<disk, mem, pc, seen, overlapped>>

(* loadProgram into a machine that initVM has cleared.                     *)
LoadRefusesByBuffer ==                           \* mutant of LoadRefuses
  bin.code_size >= DATA_BASE \/ bin.data_size >= STACK_BASE - DATA_BASE

LoadRefuses ==
  bin.code_size >= DATA_BASE \/ bin.data_size >= HEAP_BASE - DATA_BASE

Load ==
  /\ reader = "load"
  /\ \/ LoadRefuses /\ reader' = "refused" /\ UNCHANGED <<mem, pc>>
     \/ /\ ~LoadRefuses
        /\ mem' = [x \in 0..(MEM_SIZE - 1) |->
             IF x < bin.code_size THEN bin.bytecode[x]
             ELSE IF x >= DATA_BASE /\ x < DATA_BASE + bin.data_size
             THEN bin.data[x - DATA_BASE] ELSE 0]
        /\ pc' = bin.entry
        /\ reader' = "loaded"
  /\ UNCHANGED <<disk, offset, bin, seen, overlapped>>

(* bsvm is run again.                                                      *)
RunAgain ==
  /\ reader \in {"loaded", "refused"}
  /\ reader' = "open" /\ offset' = 0 /\ seen' = <<>> /\ overlapped' = FALSE
  /\ bin' = NoBinary /\ mem' = Zeros(MEM_SIZE) /\ pc' = 0
  /\ UNCHANGED disk

Next == \/ OpenToWrite \/ WritePart \/ CloseWritten \/ Killed
        \/ ReadHeader \/ ReadCode \/ ReadData \/ Load \/ RunAgain

Spec == Init /\ [][Next]_vars

----------------------------------------------------------------------------
(* Correctness.                                                            *)

(* The offset of the writer never passes the end of the file, and what     *)
(* bsvm has of it fits its two buffers (binary.c:12-92, main_bsvm.c:27-30).*)
TypeOK ==
  /\ writer \in {"open", "header", "code", "data", "close", "done", "failed"}
  /\ reader \in {"open", "code", "data", "load", "loaded", "refused", "UNDEFINED"}
  /\ file \in Seq(Byte) /\ written \in 0..Len(file) /\ offset \in Nat
  /\ bin.code_size \in 0..(DATA_BASE - 1)
  /\ DOMAIN bin.bytecode = 0..(DATA_BASE - 1)
  /\ DOMAIN bin.data = 0..(STACK_BASE - DATA_BASE - 1)
  /\ DOMAIN mem = 0..(MEM_SIZE - 1) /\ pc \in Address

(* bsm ends with success only when the file is the image and nothing else, *)
(* unless the disk became full: binary.c takes a short write for a whole   *)
(* one (binary.c:65-91, common.h:9-14).                                    *)
WholeUnlessFull == writer = "done" /\ ~full => file = FileOf(new)

(* The first bytes of code and data, and zeros behind them: what the       *)
(* memory holds of a program when only n of its bytes were in the file.    *)
Segment(from, to) == [k \in 1..(to - from) |-> mem[from + k - 1]]

HoldsFirst(p, n) ==
  LET code == CodeOf(p)
      m == IF n <= Len(code) THEN 0 ELSE n - Len(code) IN
  /\ Segment(0, DATA_BASE) = Padded(Upto(code, n), DATA_BASE)
  /\ Segment(DATA_BASE, HEAP_BASE)
       = Padded(Upto(p.data, m), HEAP_BASE - DATA_BASE)

(* However the writer was interrupted, by a signal or by a full disk, bsvm *)
(* starts on the first bytes of one program, the new or the old, and never *)
(* on a mixture of the two, if it did not read while the other wrote       *)
(* (O_TRUNC at binary.c:65, the zeroed buffers at main_bsvm.c:27-28).      *)
LoadsOneImage ==
  reader = "loaded" /\ ~overlapped =>
    \E p \in {new} \cup {q \in Programs : FileOf(q) = old} :
      \E n \in 0..(Len(CodeOf(p)) + Len(p.data)) : HoldsFirst(p, n)

(* A whole image is refused, or written past the buffer, only when it does *)
(* not fit, and otherwise the machine starts at its entry with its code    *)
(* and data in their segments and zeros elsewhere (binary.c:12-59,         *)
(* loader.c:40-56).                                                        *)
AddressOf(p, k) == Len(CodeOf([p EXCEPT !.instrs = SubSeq(@, 1, k - 1)]))

WholeImageIsLoaded ==
  \A p \in Programs :
    seen = FileOf(p) /\ ~overlapped =>
      /\ reader = "loaded" =>
           /\ HoldsFirst(p, Len(CodeOf(p)) + Len(p.data)) /\ pc = Unsigned(p.entry)
           /\ \A x \in HEAP_BASE..(MEM_SIZE - 1) : mem[x] = 0
      /\ reader = "refused" => \/ Len(CodeOf(p)) >= DATA_BASE
                               \/ Len(p.data) >= HEAP_BASE - DATA_BASE
      /\ reader = "UNDEFINED" => Len(p.data) > STACK_BASE - DATA_BASE

(* The processor decodes the instructions that were written, each where    *)
(* the ones before it end, unless they lie in the last bytes of the        *)
(* segment: cpu_step tells the decoder of one byte less than there is, and *)
(* that asks for the first two bytes twice (cpu.c:17-30,                   *)
(* instructions_codec.c:68-107).                                           *)
NearTheEnd(a, i) ==
  a + Size(i.mode) + (IF i.mode = "NONE" THEN 1 ELSE 3) > DATA_BASE

RunsWhatWasWritten ==
  \A p \in Programs :
    seen = FileOf(p) /\ ~overlapped /\ reader = "loaded" =>
      \A k \in DOMAIN p.instrs :
        LET a == AddressOf(p, k)  i == p.instrs[k] IN
        NearTheEnd(a, i) \/ Decode(mem, a, DATA_BASE - a - 1, 0)
                             = [consumed |-> Size(i.mode), instr |-> i]
=============================================================================
