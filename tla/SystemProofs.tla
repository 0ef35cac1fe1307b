---------------------------- MODULE SystemProofs ----------------------------
(***************************************************************************)
(* Theorems about the machine, for every word size, memory layout and      *)
(* program.  First the processor (module Machine): its types, the jumps    *)
(* and the protection of its code, and, for the programs whose FAS load    *)
(* into registers that exist, its stack segment as the implementation of   *)
(* BoundedStack.  Then the whole machine: the types of its state, the      *)
(* stack segment under syscalls, what a failed syscall has done, what may  *)
(* overwrite the program, and the blocks of the heap as the implementation *)
(* of AbstractHeap.                                                        *)
(***************************************************************************)
EXTENDS System, WordsProofs, SequenceTheorems

(* The inductive invariant: the bounds of sp, and the memory has an entry  *)
(* for each of its addresses.                                              *)
MachineInv == StackBounds /\ DOMAIN mem = 0..(MEM_SIZE - 1)

(* The layout, as integers.                                                *)
LEMMA Layout ==
  /\ MEM_SIZE \in Nat /\ STACK_BASE \in Nat /\ WORD_SIZE \in Nat /\ HALF \in Nat
  /\ DATA_BASE \in Nat /\ N_REG \in Nat
  /\ 0 < WORD_SIZE /\ 0 < STACK_BASE /\ MEM_SIZE < HALF /\ MOD = 2 * HALF
  /\ STACK_BASE < MEM_SIZE /\ WORD_SIZE <= MEM_SIZE
  /\ HEAP_BASE \in Nat /\ 0 < DATA_BASE
  /\ DATA_BASE < HEAP_BASE /\ HEAP_BASE < STACK_BASE
  /\ DATA_BASE + WORD_SIZE <= STACK_BASE
BY MachineAssumption, Widths DEF MOD

(* Products with the size of a word.                                       *)
LEMMA WordSteps ==
  ASSUME NEW w \in Nat, 0 < w, NEW j \in Nat, NEW k \in Nat, w * j < w * k
  PROVE  /\ j + 1 <= k /\ w * (j + 1) = w * j + w /\ w * (j + 1) <= w * k
OBVIOUS

(* A word pushed by PUSH or CALL lies in the stack segment.                *)
LEMMA PushStays ==
  ASSUME StackBounds, STACK_BASE < sp
  PROVE  /\ Pushed = sp - WORD_SIZE /\ STACK_BASE <= Pushed
         /\ \E k \in 0..MEM_SIZE : Pushed = MEM_SIZE - WORD_SIZE * k
<1>1. PICK k \in 0..MEM_SIZE : sp = MEM_SIZE - WORD_SIZE * k
  BY DEF StackBounds
<1>2. PICK c \in 1..MEM_SIZE : MEM_SIZE - STACK_BASE = WORD_SIZE * c
  BY MachineAssumption
<1>3. k \in Nat /\ c \in Nat /\ WORD_SIZE * k \in Nat /\ WORD_SIZE * c \in Nat
  BY Layout
<1>4. WORD_SIZE * k < WORD_SIZE * c
  BY <1>1, <1>2, <1>3, Layout
<1>5. /\ k + 1 <= c /\ WORD_SIZE * (k + 1) = WORD_SIZE * k + WORD_SIZE
      /\ WORD_SIZE * (k + 1) <= WORD_SIZE * c
  BY <1>3, <1>4, Layout, WordSteps
<1>6. STACK_BASE <= sp - WORD_SIZE /\ sp - WORD_SIZE < MOD
  BY <1>1, <1>2, <1>3, <1>5, Layout
<1>7. Pushed = sp - WORD_SIZE
  <2>1. \A n, m \in Nat : n < m => n % m = n
    OBVIOUS
  <2>2. sp - WORD_SIZE \in Nat /\ MOD \in Nat
    BY <1>1, <1>3, <1>6, Layout
  <2>. QED  BY <1>6, <2>1, <2>2 DEF Pushed
<1>8. Pushed = MEM_SIZE - WORD_SIZE * (k + 1) /\ k + 1 \in 0..MEM_SIZE
  BY <1>1, <1>2, <1>3, <1>5, <1>7, Layout
<1>. QED  BY <1>6, <1>7, <1>8

(* A place in the stack segment that holds a word, or its end.             *)
InStack(top) ==
  /\ \E k \in 0..MEM_SIZE : top = MEM_SIZE - WORD_SIZE * k
  /\ STACK_BASE <= top

(* Above a word of the stack is another one, or the end.                   *)
LEMMA WordsAbove ==
  ASSUME NEW top, InStack(top), top < MEM_SIZE
  PROVE  InStack(top + WORD_SIZE)
<1>1. PICK k \in 0..MEM_SIZE : top = MEM_SIZE - WORD_SIZE * k
  BY DEF InStack
<1>2. k # 0
  BY <1>1, Layout
<1>3. k - 1 \in 0..MEM_SIZE
  BY <1>2, Layout
<1>4. WORD_SIZE * k = WORD_SIZE * (k - 1) + WORD_SIZE
  <2>1. k - 1 \in Nat /\ (k - 1) + 1 = k
    BY <1>3
  <2>2. \A w, j \in Nat : w * (j + 1) = w * j + w
    OBVIOUS
  <2>. QED  BY <2>1, <2>2, Layout
<1>5. WORD_SIZE * (k - 1) \in Nat /\ WORD_SIZE * k \in Nat
  BY <1>3, Layout
<1>6. top + WORD_SIZE = MEM_SIZE - WORD_SIZE * (k - 1)
  BY <1>1, <1>4, <1>5, Layout
<1>7. STACK_BASE <= top + WORD_SIZE
  BY <1>1, <1>5, Layout DEF InStack
<1>. QED  BY <1>3, <1>6, <1>7 DEF InStack

(* A word popped by POP or RTN leaves sp in the bounds of the stack.       *)
LEMMA PopStays ==
  ASSUME StackBounds, sp < MEM_SIZE
  PROVE  /\ STACK_BASE <= sp + WORD_SIZE
         /\ \E k \in 0..MEM_SIZE : sp + WORD_SIZE = MEM_SIZE - WORD_SIZE * k
BY WordsAbove DEF InStack, StackBounds

(* A store changes values of the memory, not its size.                     *)
LEMMA StoreKeepsSize ==
  ASSUME NEW addr, NEW w, Store(addr, w), DOMAIN mem = 0..(MEM_SIZE - 1)
  PROVE  DOMAIN mem' = 0..(MEM_SIZE - 1)
BY DEF Store, StoredIn

(* Decoding gives an instruction the operation and registers of its bytes. *)
LEMMA FetchedFas ==
  ASSUME FasRegistersExist, NEW i \in Fetched, i.op = "FAS"
  PROVE  InRange(i.a)
<1>1. Decodes /\ (i \in Loaded \/ i = Blank)
  BY DEF Fetched, Blanked
<1>2. i # Blank
  BY DEF Blank
<1>3. PICK c \in Code[pc] : i \in Decoded(c)
  BY <1>1, <1>2 DEF Loaded
<1>4. pc \in 0..(DATA_BASE - 1)
  BY <1>1, Layout DEF Decodes
<1>5. c \in Instruction
  BY <1>3, <1>4, MachineAssumption
<1>6. i.op = c.op /\ i.a = c.a
  BY <1>3, <1>5 DEF Decoded, Instruction
<1>. QED  BY <1>3, <1>4, <1>6 DEF FasRegistersExist

----------------------------------------------------------------------------
(* Types.  What instructionDecode leaves in an instruction: registers that *)
(* are numbers, and a word as operand, although it ORs the bytes of the    *)
(* operand into a variable that cpu_step does not initialise (cpu.c:15).   *)
LEMMA FetchedTypes ==
  ASSUME NEW i \in Fetched
  PROVE  /\ i.op \in Opcodes /\ i.mode \in Modes
         /\ i.a \in Nat /\ i.b \in Nat /\ i.imm \in Word
         /\ pc \in 0..(DATA_BASE - 3)
<1>1. Decodes /\ (i \in Loaded \/ i = Blank)
  BY DEF Fetched, Blanked
<1>2. CASE i = Blank
  <2>1. 0 \in Word
    BY Widths DEF Word
  <2>. QED  BY <1>1, <1>2, <2>1 DEF Blank, Decodes, Opcodes, Modes, Binary
<1>3. CASE i \in Loaded
  <2>1. PICK c \in Code[pc] : i \in Decoded(c)
    BY <1>3 DEF Loaded
  <2>2. pc \in 0..(DATA_BASE - 1)
    BY <1>1, Layout DEF Decodes
  <2>3. c \in Instruction
    BY <2>1, <2>2, MachineAssumption
  <2>4. /\ c.op \in Opcodes /\ c.mode \in Modes /\ c.a \in Nat /\ c.b \in Nat
        /\ c.imm \in Word
    BY <2>3, MachineAssumption DEF Instruction
  <2>5. CASE HasOperand(c)
    <3>1. PICK g \in Garbage : i = [c EXCEPT !.imm = Result("OR", g, c.imm)]
      BY <2>1, <2>5 DEF Decoded
    <3>2. g \in Word
      BY MachineAssumption
    <3>3. Result("OR", g, c.imm) \in Word
      BY <2>4, <3>2, ResultIsWord
    <3>4. /\ i.op = c.op /\ i.mode = c.mode /\ i.a = c.a /\ i.b = c.b
          /\ i.imm = Result("OR", g, c.imm)
      BY <2>3, <3>1 DEF Instruction
    <3>. QED  BY <1>1, <2>4, <3>3, <3>4 DEF Decodes
  <2>6. CASE ~HasOperand(c)
    BY <1>1, <2>1, <2>4, <2>6 DEF Decoded, Decodes
  <2>. QED  BY <2>5, <2>6
<1>. QED  BY <1>1, <1>2, <1>3

(* The operand of what is fetched is a word, in every state.               *)
LEMMA OperandsAreWords == \A i \in Fetched : i.imm \in Word
BY FetchedTypes

(* What the instructions leave of the right type, together.                *)
Registers == regs \in [0..(N_REG - 1) -> Word]
Memory    == mem \in [0..(MEM_SIZE - 1) -> Byte \cup {CodeByte}]
Pointers  == sp \in Address /\ pc \in Address
Flagged   == /\ sr \subseteq Flags
             /\ compared \in [valid : BOOLEAN, a : Word, b : Word]
Control   == running \in BOOLEAN /\ status \in Statuses
Types     == Registers /\ Memory /\ Pointers /\ Flagged /\ Control

(* The words 0 and 1.                                                      *)
LEMMA SmallWords == 0 \in Word /\ None \in [valid : BOOLEAN, a : Word, b : Word]
BY Widths DEF Word, None

(* A register that exists holds a word.                                    *)
LEMMA RegisterIsWord ==
  ASSUME Registers, NEW r \in Nat, InRange(r)
  PROVE  regs[r] \in Word
BY Layout DEF Registers, InRange

(* A failing handler changes the status alone.                             *)
LEMMA FailTypes ==
  ASSUME Types, NEW e \in Statuses, Fail(e)
  PROVE  Types'
BY DEF Types, Registers, Memory, Pointers, Flagged, Control, Fail, machine

(* memWrite64 stores bytes (memory.c:28-30).                               *)
LEMMA StoreTypes ==
  ASSUME Memory, NEW addr, NEW w \in Int, Store(addr, w)
  PROVE  Memory'
<1>1. \A j \in BytesOfWord : ByteOf(w, j) \in Byte
  BY ByteIsByte, Widths DEF BytesOfWord
<1>. QED  BY <1>1 DEF Memory, Store, StoredIn

(* An instruction that fits is followed by an address of the code.         *)
LEMMA GotoTypes ==
  ASSUME NEW i \in Fetched, Fits(i), pc \in Address, NEW target \in Address,
         Goto(i, target)
  PROVE  pc' \in Address
<1>1. pc \in 0..(DATA_BASE - 3) /\ i.mode \in Modes
  BY FetchedTypes
<1>2. Size(i.mode) \in Nat
  BY <1>1, Layout DEF Size, Modes
<1>3. pc + Size(i.mode) <= DATA_BASE
  <2>1. CASE i.mode = "NONE"
    <3>1. Size(i.mode) = 2
      BY <2>1 DEF Size
    <3>. QED  BY <1>1, <3>1, Layout
  <2>2. CASE i.mode # "NONE"
    <3>1. DATA_BASE - pc - 3 >= Size(i.mode)
      BY <2>2 DEF Fits
    <3>. QED  BY <1>1, <1>2, <3>1, Layout
  <2>. QED  BY <2>1, <2>2
<1>4. pc + Size(i.mode) \in Address
  BY <1>1, <1>2, <1>3, Layout DEF Address
<1>. QED  BY <1>4 DEF Goto

(* The flags that an instruction sets are flags.                           *)
LEMMA SetFlagsTypes ==
  ASSUME sr \subseteq Flags, NEW op, NEW a, NEW b
  PROVE  SetFlags(sr, op, a, b) \subseteq Flags
BY DEF SetFlags, When, Flags, Arithmetic

(* A store wherever it goes, with what it spills (memory.c:23-32).         *)
LEMMA SpillTypes ==
  ASSUME Flagged, pc \in Address, NEW i \in Fetched, Fits(i), NEW addr,
         NEW target \in Address, SpillStatus(addr), SpillPc(i, addr, target)
  PROVE  Flagged' /\ pc' \in Address
<1>1. Flagged'
  BY SmallWords DEF Flagged, SpillStatus
<1>2. MOD - 1 \in Address
  BY Layout DEF Address
<1>. QED  BY <1>1, <1>2, GotoTypes DEF SpillPc

(* What an operand evaluates to: a word, or an error.                      *)
LEMMA OperandTypes ==
  ASSUME Types, NEW i \in Fetched, NEW v \in Operand(i)
  PROVE  /\ v.status \in Statuses /\ v.word \in Word
         /\ v.status = "VM_OK" => OperandError(i) = "VM_OK"
<1>1. CASE OperandError(i) # "VM_OK"
  BY <1>1, SmallWords DEF Operand, Error, OperandError, Statuses
<1>2. CASE OperandError(i) = "VM_OK"
  <2>1. PICK w : /\ v = [status |-> "VM_OK", word |-> w]
                 /\ \/ i.mode = "IMM" /\ w = i.imm
                    \/ i.mode = "REG" /\ w = regs[i.b]
                    \/ w \in WordsAt(SourceAddress(i))
    BY <1>2 DEF Operand, Values
  <2>2. w \in Word
    <3>1. CASE i.mode = "IMM" /\ w = i.imm
      BY <3>1, FetchedTypes
    <3>2. CASE i.mode = "REG" /\ w = regs[i.b]
      <4>1. InRange(i.b)
        BY <1>2, <3>2 DEF OperandError, RegistersExist
      <4>. QED  BY <3>2, <4>1, FetchedTypes, RegisterIsWord DEF Types
    <3>3. CASE w \in WordsAt(SourceAddress(i))
      BY <3>3 DEF WordsAt
    <3>. QED  BY <2>1, <3>1, <3>2, <3>3
  <2>. QED  BY <1>2, <2>1, <2>2 DEF Statuses
<1>. QED  BY <1>1, <1>2

(* An operand that passed the checks comes with a register that exists.    *)
LEMMA OperandRegister ==
  ASSUME Types, NEW i \in Fetched, OperandError(i) = "VM_OK"
  PROVE  InRange(i.a) /\ regs[i.a] \in Word
<1>1. InRange(i.a)
  BY DEF OperandError, RegistersExist
<1>. QED  BY <1>1, FetchedTypes, RegisterIsWord DEF Types

(* Arithmetic, logic and comparison (instructions.c:50-1027).              *)
LEMMA ComputeTypes ==
  ASSUME Types, NEW i \in Fetched, UnaryStep(i) \/ BinaryStep(i)
  PROVE  Types'
<1>1. i.a \in Nat /\ i.op \in Opcodes
  BY FetchedTypes
<1>2. CASE UnaryStep(i)
  <2>1. CASE Fail("VM_ILL_REGISTER")
    BY <2>1, FailTypes DEF Statuses
  <2>2. CASE /\ InRange(i.a)
             /\ SetRegister(i.a, Result(i.op, regs[i.a], 0))
             /\ sr' = SetFlags(sr, i.op, regs[i.a], 0)
             /\ compared' = None /\ Advance(i)
             /\ UNCHANGED <<sp, mem, running, status>>
    <3>1. i.op \in {"NEG", "NOT"} /\ Fits(i)
      BY <1>2 DEF UnaryStep, Executes, Unary
    <3>2. regs[i.a] \in Word
      BY <1>1, <2>2, RegisterIsWord DEF Types
    <3>3. Result(i.op, regs[i.a], 0) \in Word
      BY <3>1, <3>2, SmallWords, ResultIsWord
    <3>4. Registers'
      BY <2>2, <3>3 DEF Types, Registers, SetRegister
    <3>5. Pointers'
      BY <2>2, <3>1, GotoTypes DEF Types, Pointers, Advance
    <3>6. Flagged'
      BY <2>2, SetFlagsTypes, SmallWords DEF Types, Flagged
    <3>. QED  BY <2>2, <3>4, <3>5, <3>6 DEF Types, Memory, Control
  <2>. QED  BY <1>2, <2>1, <2>2 DEF UnaryStep
<1>3. CASE BinaryStep(i)
  <2>1. PICK v \in Operand(i) :
          \/ BinaryError(i, v) # "VM_OK" /\ Fail(BinaryError(i, v))
          \/ /\ BinaryError(i, v) = "VM_OK"
             /\ IF i.op = "CMP" THEN UNCHANGED regs
                ELSE SetRegister(i.a, Result(i.op, regs[i.a], v.word))
             /\ sr' = SetFlags(sr, i.op, regs[i.a], v.word)
             /\ compared' = Compared(i.op, regs[i.a], v.word)
             /\ Advance(i)
             /\ UNCHANGED <<sp, mem, running, status>>
    BY <1>3 DEF BinaryStep
  <2>2. v.status \in Statuses /\ v.word \in Word
    BY OperandTypes
  <2>3. CASE BinaryError(i, v) # "VM_OK" /\ Fail(BinaryError(i, v))
    <3>1. BinaryError(i, v) \in Statuses
      BY <2>2 DEF BinaryError, Statuses
    <3>. QED  BY <2>3, <3>1, FailTypes
  <2>4. CASE /\ BinaryError(i, v) = "VM_OK"
             /\ IF i.op = "CMP" THEN UNCHANGED regs
                ELSE SetRegister(i.a, Result(i.op, regs[i.a], v.word))
             /\ sr' = SetFlags(sr, i.op, regs[i.a], v.word)
             /\ compared' = Compared(i.op, regs[i.a], v.word)
             /\ Advance(i)
             /\ UNCHANGED <<sp, mem, running, status>>
    <3>1. i.op \in Binary /\ Fits(i)
      BY <1>3 DEF BinaryStep, Executes
    <3>2. v.status = "VM_OK"
      BY <2>4 DEF BinaryError
    <3>3. regs[i.a] \in Word
      BY <3>2, OperandTypes, OperandRegister
    <3>4. Result(i.op, regs[i.a], v.word) \in Word
      <4>1. i.op = "DIV" => v.word # 0 /\ ~(v.word = -1 /\ regs[i.a] = -HALF)
        BY <2>4 DEF BinaryError
      <4>2. i.op \in {"ADD", "SUB", "CMP", "MUL", "DIV", "NEG", "NOT",
                      "AND", "OR", "XOR", "SHL", "SHR"}
        BY <3>1 DEF Binary, Shifts
      <4>. QED  BY <2>2, <3>3, <4>1, <4>2, ResultIsWord
    <3>5. Registers'
      BY <2>4, <3>4 DEF Types, Registers, SetRegister
    <3>6. Pointers'
      BY <2>4, <3>1, GotoTypes DEF Types, Pointers, Advance
    <3>7. Flagged'
      <4>1. sr' \subseteq Flags
        BY <2>4, SetFlagsTypes DEF Types, Flagged
      <4>2. compared' \in [valid : BOOLEAN, a : Word, b : Word]
        BY <2>2, <2>4, <3>3, SmallWords DEF Compared
      <4>. QED  BY <4>1, <4>2 DEF Flagged
    <3>. QED  BY <2>4, <3>5, <3>6, <3>7 DEF Types, Memory, Control
  <2>. QED  BY <2>1, <2>3, <2>4
<1>. QED  BY <1>2, <1>3

(* The moves between registers and memory (instructions.c:1029-1199).      *)
LEMMA MoveTypes ==
  ASSUME Types, NEW i \in Fetched, LD(i) \/ ST(i) \/ SWP(i)
  PROVE  Types'
<1>1. Fits(i) /\ i.a \in Nat /\ i.b \in Nat /\ pc \in Address
  BY FetchedTypes DEF LD, ST, SWP, Executes, Types, Pointers
<1>2. CASE LD(i)
  <2>1. PICK v \in Operand(i) :
          \/ v.status # "VM_OK" /\ Fail(v.status)
          \/ /\ v.status = "VM_OK"
             /\ SetRegister(i.a, v.word) /\ Advance(i)
             /\ UNCHANGED <<sp, sr, mem, running, status, compared>>
    BY <1>2 DEF LD
  <2>2. v.status \in Statuses /\ v.word \in Word
    BY OperandTypes
  <2>3. CASE Fail(v.status)
    BY <2>2, <2>3, FailTypes
  <2>4. CASE /\ SetRegister(i.a, v.word) /\ Advance(i)
             /\ UNCHANGED <<sp, sr, mem, running, status, compared>>
    <3>1. Registers'
      BY <2>2, <2>4 DEF Types, Registers, SetRegister
    <3>2. Pointers'
      BY <1>1, <2>4, GotoTypes DEF Types, Pointers, Advance
    <3>. QED  BY <2>4, <3>1, <3>2 DEF Types, Memory, Flagged, Control
  <2>. QED  BY <2>1, <2>3, <2>4
<1>3. CASE ST(i)
  <2>1. CASE OperandError(i) # "VM_OK" /\ Fail(OperandError(i))
    BY <2>1, FailTypes DEF OperandError, Statuses
  <2>2. CASE /\ OperandError(i) = "VM_OK"
             /\ Store(SourceAddress(i), regs[i.a])
             /\ SpillStatus(SourceAddress(i))
             /\ SpillPc(i, SourceAddress(i), pc)
             /\ UNCHANGED <<regs, sp, running, status>>
    <3>1. regs[i.a] \in Int
      BY <2>2, OperandRegister, Widths DEF Word
    <3>2. Memory'
      BY <2>2, <3>1, StoreTypes DEF Types
    <3>3. Flagged' /\ pc' \in Address
      BY <1>1, <2>2, SpillTypes DEF Types
    <3>. QED  BY <2>2, <3>2, <3>3 DEF Types, Registers, Pointers, Control
  <2>. QED  BY <1>3, <2>1, <2>2 DEF ST
<1>4. CASE SWP(i)
  <2>1. PICK v \in Operand(i) :
          \/ v.status # "VM_OK" /\ Fail(v.status)
          \/ /\ v.status = "VM_OK" /\ i.mode = "REG"
             /\ regs' = [regs EXCEPT ![i.a] = regs[i.b], ![i.b] = regs[i.a]]
             /\ Advance(i)
             /\ UNCHANGED <<sp, sr, mem, running, status, compared>>
          \/ /\ v.status = "VM_OK" /\ i.mode # "REG"
             /\ SetRegister(i.a, v.word)
             /\ Store(SourceAddress(i), regs[i.a])
             /\ SpillStatus(SourceAddress(i))
             /\ SpillPc(i, SourceAddress(i), pc)
             /\ UNCHANGED <<sp, running, status>>
    BY <1>4 DEF SWP
  <2>2. v.status \in Statuses /\ v.word \in Word
    BY OperandTypes
  <2>3. CASE v.status # "VM_OK" /\ Fail(v.status)
    BY <2>2, <2>3, FailTypes
  <2>4. ASSUME v.status = "VM_OK"
        PROVE  OperandError(i) = "VM_OK" /\ regs[i.a] \in Word
    BY <2>4, OperandTypes, OperandRegister
  <2>5. CASE /\ v.status = "VM_OK" /\ i.mode = "REG"
             /\ regs' = [regs EXCEPT ![i.a] = regs[i.b], ![i.b] = regs[i.a]]
             /\ Advance(i)
             /\ UNCHANGED <<sp, sr, mem, running, status, compared>>
    <3>1. regs[i.a] \in Word /\ regs[i.b] \in Word
      <4>1. InRange(i.b)
        BY <2>4, <2>5 DEF OperandError, RegistersExist
      <4>. QED  BY <1>1, <2>4, <2>5, <4>1, RegisterIsWord DEF Types
    <3>2. Registers'
      BY <2>5, <3>1 DEF Types, Registers
    <3>3. Pointers'
      BY <1>1, <2>5, GotoTypes DEF Types, Pointers, Advance
    <3>. QED  BY <2>5, <3>2, <3>3 DEF Types, Memory, Flagged, Control
  <2>6. CASE /\ v.status = "VM_OK" /\ i.mode # "REG"
             /\ SetRegister(i.a, v.word)
             /\ Store(SourceAddress(i), regs[i.a])
             /\ SpillStatus(SourceAddress(i))
             /\ SpillPc(i, SourceAddress(i), pc)
             /\ UNCHANGED <<sp, running, status>>
    <3>1. Registers'
      BY <2>2, <2>6 DEF Types, Registers, SetRegister
    <3>2. Memory'
      <4>1. regs[i.a] \in Int
        BY <2>4, <2>6, Widths DEF Word
      <4>. QED  BY <2>6, <4>1, StoreTypes DEF Types
    <3>3. Flagged' /\ pc' \in Address
      BY <1>1, <2>6, SpillTypes DEF Types
    <3>. QED  BY <2>6, <3>1, <3>2, <3>3 DEF Types, Pointers, Control
  <2>. QED  BY <2>1, <2>3, <2>5, <2>6
<1>. QED  BY <1>2, <1>3, <1>4

(* A word stored in a memory of bytes leaves one.                          *)
LEMMA StoredTypes ==
  ASSUME NEW m \in [0..(MEM_SIZE - 1) -> Byte \cup {CodeByte}],
         NEW addr, NEW w \in Int
  PROVE  StoredIn(m, addr, w) \in [0..(MEM_SIZE - 1) -> Byte \cup {CodeByte}]
<1>1. \A j \in BytesOfWord : ByteOf(w, j) \in Byte
  BY ByteIsByte, Widths DEF BytesOfWord
<1>. QED  BY <1>1 DEF StoredIn

(* FAS: also one that loads sp, pc, sr or a word of the memory             *)
(* (instructions.c:1250-1303).                                             *)
LEMMA FasLoadTypes ==
  ASSUME Types, NEW i \in Fetched, Fits(i), NEW v, NEW w \in Word,
         FasLoads(i, v, w)
  PROVE  Types'
<1>1. w \in Int /\ Unsigned(w) \in Address /\ pc \in Address
  BY Widths, UnsignedIsAddress DEF Word, Types, Pointers
<1>2. Registers' /\ sp' \in Address
  BY <1>1 DEF FasLoads, Types, Registers, Pointers, SetSlot
<1>3. PcAfter(i.a, w) \in Address
  BY <1>1 DEF PcAfter
<1>4. MemoryAfter(i.a, w) \in [0..(MEM_SIZE - 1) -> Byte \cup {CodeByte}]
  BY <1>1, StoredTypes DEF MemoryAfter, Types, Memory
<1>5. StatusAfter(i.a, w) => Flagged'
  BY SmallWords DEF StatusAfter, FlagsOf, Types, Flagged
<1>6. CASE /\ mem' = StoredIn(MemoryAfter(i.a, w), FasStores(i, v, w), 1)
           /\ IF Straddles(FasStores(i, v, w))
              THEN SpillStatus(FasStores(i, v, w))
              ELSE StatusAfter(i.a, w)
           /\ SpillPc(i, FasStores(i, v, w), PcAfter(i.a, w))
           /\ UNCHANGED <<running, status>>
  <2>1. Memory'
    BY <1>4, <1>6, StoredTypes DEF Memory
  <2>2. Flagged'
    BY <1>5, <1>6, SmallWords DEF Types, Flagged, SpillStatus
  <2>3. pc' \in Address
    <3>1. MOD - 1 \in Address
      BY Layout DEF Address
    <3>. QED  BY <1>1, <1>3, <1>6, <3>1, GotoTypes DEF SpillPc
  <2>. QED  BY <1>2, <1>6, <2>1, <2>2, <2>3 DEF Types, Pointers, Control
<1>7. CASE /\ status' = "VM_ILL_MEM_ACCESS"
           /\ mem' = MemoryAfter(i.a, w) /\ StatusAfter(i.a, w)
           /\ pc' = PcAfter(i.a, w)
           /\ UNCHANGED running
  BY <1>2, <1>3, <1>4, <1>5, <1>7 DEF Types, Memory, Pointers, Control, Statuses
<1>. QED  BY <1>6, <1>7 DEF FasLoads

LEMMA FasTypes ==
  ASSUME Types, NEW i \in Fetched, FAS(i)
  PROVE  Types'
<1>1. PICK v \in SlotWords(i.b) :
        \/ Fail(FasError(i, v))
        \/ \E w \in WordsInto(i.a, AddressOf(i, v)) : FasLoads(i, v, w)
  BY DEF FAS
<1>2. CASE Fail(FasError(i, v))
  <2>1. FasError(i, v) \in Statuses
    BY DEF FasError, Statuses
  <2>. QED  BY <1>2, <2>1, FailTypes
<1>3. CASE \E w \in WordsInto(i.a, AddressOf(i, v)) : FasLoads(i, v, w)
  BY <1>3, FasLoadTypes DEF FAS, Executes, WordsInto
<1>. QED  BY <1>1, <1>2, <1>3

(* What a jump, a call or a return goes to: a word, or an error.           *)
Goal(t) == t.status \in Statuses /\ t.word \in Word

(* The target of a jump is an address.                                     *)
LEMMA GoalAddress ==
  ASSUME NEW t, Goal(t)
  PROVE  Unsigned(t.word) \in Address
BY UnsignedIsAddress, Widths DEF Goal, Word

(* A target that is refused has the type of a target.                      *)
LEMMA ErrorTypes ==
  ASSUME NEW e \in Statuses, NEW t \in Error(e)
  PROVE  Goal(t)
BY SmallWords DEF Goal, Error

(* So has one that is checked,                                             *)
LEMMA TargetTypes ==
  ASSUME NEW i, NEW w \in Word, NEW t \in Target(i, w)
  PROVE  Goal(t)
<1>1. CASE BeyondCode(i, w)
  BY <1>1, ErrorTypes DEF Target, Statuses
<1>2. CASE ~BeyondCode(i, w)
  BY <1>2 DEF Target, Values, Goal, Statuses
<1>. QED  BY <1>1, <1>2

(* one that is read from the memory,                                       *)
LEMMA TargetInTypes ==
  ASSUME NEW i, NEW addr, NEW t \in TargetIn(i, addr)
  PROVE  Goal(t)
<1>1. CASE ~InMemory(addr)
  BY <1>1, ErrorTypes DEF TargetIn, Statuses
<1>2. CASE InMemory(addr)
  <2>1. PICK w \in WordsAt(addr) : t \in Target(i, w)
    BY <1>2 DEF TargetIn
  <2>2. w \in Word
    BY DEF WordsAt
  <2>. QED  BY <2>1, <2>2, TargetTypes
<1>. QED  BY <1>1, <1>2

(* PUSH and POP (instructions.c:1201-1248).                                *)
LEMMA PushPopTypes ==
  ASSUME Types, NEW i \in Fetched, PUSH(i) \/ POP(i)
  PROVE  Types'
<1>1. Fits(i) /\ i.a \in Nat /\ i.imm \in Word /\ pc \in Address /\ sp \in Int
  BY FetchedTypes, Widths DEF PUSH, POP, Executes, Types, Pointers, Address
<1>2. CASE PUSH(i)
  <2>1. CASE PushError(i) # "VM_OK" /\ Fail(PushError(i))
    BY <2>1, FailTypes DEF PushError, Statuses
  <2>2. CASE /\ PushError(i) = "VM_OK" /\ sp' = Pushed
             /\ Store(Pushed, IF i.mode = "IMM" THEN i.imm ELSE regs[i.a])
             /\ Advance(i)
             /\ UNCHANGED <<regs, sr, running, status, compared>>
    <3>1. InRange(i.a)
      BY <2>2 DEF PushError
    <3>2. (IF i.mode = "IMM" THEN i.imm ELSE regs[i.a]) \in Int
      BY <1>1, <3>1, RegisterIsWord, Widths DEF Types, Word
    <3>3. Memory'
      BY <2>2, <3>2, StoreTypes DEF Types
    <3>4. sp' \in Address
      BY <1>1, <2>2, Layout DEF Pushed, Address
    <3>5. pc' \in Address
      BY <1>1, <2>2, GotoTypes DEF Advance
    <3>. QED  BY <2>2, <3>3, <3>4, <3>5
              DEF Types, Registers, Pointers, Flagged, Control
  <2>. QED  BY <1>2, <2>1, <2>2 DEF PUSH
<1>3. CASE POP(i)
  <2>1. CASE PopError(i) # "VM_OK" /\ Fail(PopError(i))
    BY <2>1, FailTypes DEF PopError, PopErrorAt, Statuses
  <2>2. CASE /\ PopError(i) = "VM_OK" /\ \E w \in WordsAt(sp) : SetRegister(i.a, w)
             /\ sp' = sp + WORD_SIZE
             /\ Advance(i)
             /\ UNCHANGED <<sr, mem, running, status, compared>>
    <3>1. Registers'
      BY <2>2 DEF Types, Registers, SetRegister, WordsAt
    <3>2. sp < MEM_SIZE
      BY <1>1, <2>2, Layout DEF PopError, PopErrorAt
    <3>3. sp' \in Address
      BY <1>1, <2>2, <3>2, Layout DEF Types, Pointers, Address
    <3>4. pc' \in Address
      BY <1>1, <2>2, GotoTypes DEF Advance
    <3>. QED  BY <2>2, <3>1, <3>3, <3>4
              DEF Types, Memory, Pointers, Flagged, Control
  <2>. QED  BY <1>3, <2>1, <2>2 DEF POP
<1>. QED  BY <1>2, <1>3

(* What CALL, RTN and the jumps go to (instructions.c:1304-1817).          *)
LEMMA CallTargetTypes ==
  ASSUME Types, NEW i \in Fetched, i.mode \in ModesOf("CALL"),
         NEW t \in CallTarget(i)
  PROVE  Goal(t)
<1>1. /\ i.a \in Nat /\ i.imm \in Word
      /\ i.mode \in {"IMM", "REGU", "DIR", "IND", "IDX"}
  BY FetchedTypes
     DEF ModesOf, Binary, Shifts, Unary, Jumps, CondJump, Bare
<1>2. \/ t \in Error("VM_STACK_OVERFLOW") \cup Error("VM_ILL_REGISTER")
      \/ i.mode = "IMM" /\ t \in Target(i, i.imm)
      \/ i.mode = "REGU" /\ InRange(i.a) /\ t \in Target(i, regs[i.a])
      \/ t \in TargetIn(i, AddressOf(i, regs[i.a]))
  BY <1>1 DEF CallTarget
<1>3. CASE t \in Error("VM_STACK_OVERFLOW") \cup Error("VM_ILL_REGISTER")
  BY <1>3, ErrorTypes DEF Statuses
<1>4. CASE i.mode = "IMM" /\ t \in Target(i, i.imm)
  BY <1>1, <1>4, TargetTypes
<1>5. CASE InRange(i.a) /\ t \in Target(i, regs[i.a])
  BY <1>1, <1>5, RegisterIsWord, TargetTypes DEF Types
<1>6. CASE t \in TargetIn(i, AddressOf(i, regs[i.a]))
  BY <1>6, TargetInTypes
<1>. QED  BY <1>2, <1>3, <1>4, <1>5, <1>6

(* The number that a register holds, sp and pc included, is a word.        *)
LEMMA SlotTypes ==
  ASSUME Types, NEW r \in Nat
  PROVE  Slot(r) \in Word
<1>1. sp \in Int /\ pc \in Int
  BY Layout DEF Types, Pointers, Address
<1>2. CASE InRange(r)
  BY <1>2, RegisterIsWord DEF Types, Slot
<1>3. CASE ~InRange(r)
  BY <1>1, <1>3, WrapIsWord DEF Slot
<1>. QED  BY <1>2, <1>3

(* and that of every mode of a jump.                                       *)
LEMMA JumpTargetTypes ==
  ASSUME Types, NEW i \in Fetched, i.op \in Jumps, i.mode \in ModesOf(i.op),
         NEW t \in JumpTarget(i)
  PROVE  Goal(t)
<1>1. /\ i.a \in Nat /\ i.imm \in Word
      /\ i.mode \in {"IMM", "REGU", "DIR", "IND", "IDX"}
  BY FetchedTypes
     DEF ModesOf, Binary, Shifts, Unary, Jumps, CondJump, Bare
<1>2. \/ t \in Error("VM_ILL_REGISTER") \cup Error("VM_INVALID_JMP")
                 \cup Error("VM_ILL_MEM_ACCESS")
      \/ i.mode = "IMM" /\ t \in Target(i, i.imm)
      \/ i.mode = "REGU" /\ t \in Target(i, Slot(i.a))
      \/ \E addr : t \in TargetIn(i, addr)
  BY <1>1 DEF JumpTarget
<1>3. CASE t \in Error("VM_ILL_REGISTER") \cup Error("VM_INVALID_JMP")
                   \cup Error("VM_ILL_MEM_ACCESS")
  BY <1>3, ErrorTypes DEF Statuses
<1>4. CASE i.mode = "IMM" /\ t \in Target(i, i.imm)
  BY <1>1, <1>4, TargetTypes
<1>5. CASE i.mode = "REGU" /\ t \in Target(i, Slot(i.a))
  BY <1>1, <1>5, SlotTypes, TargetTypes
<1>6. CASE \E addr : t \in TargetIn(i, addr)
  BY <1>6, TargetInTypes
<1>. QED  BY <1>2, <1>3, <1>4, <1>5, <1>6

(* CALL, RTN and the jumps: CALL pushes the address of the next            *)
(* instruction, a word.                                                    *)
LEMMA TransferTypes ==
  ASSUME Types, NEW i \in Fetched, CALL(i) \/ RTN(i) \/ Jump(i)
  PROVE  Types'
<1>1. /\ Fits(i) /\ i.mode \in ModesOf(i.op) /\ pc \in Address
      /\ pc \in Int /\ sp \in Int
  BY Layout DEF CALL, RTN, Jump, Executes, Types, Pointers, Address
<1>2. \A t : Goal(t) /\ Goto(i, Unsigned(t.word)) => pc' \in Address
  BY <1>1, GoalAddress, GotoTypes
<1>3. CASE CALL(i)
  <2>1. PICK t \in CallTarget(i) :
          \/ t.status # "VM_OK" /\ Fail(t.status)
          \/ Fail("VM_ILL_MEM_ACCESS")
          \/ /\ sp' = Pushed /\ Store(Pushed, pc + Size(i.mode))
             /\ Goto(i, Unsigned(t.word))
             /\ UNCHANGED <<regs, sr, running, status, compared>>
    BY <1>3 DEF CALL
  <2>2. Goal(t)
    <3>1. i.mode \in ModesOf("CALL")
      BY <1>1, <1>3 DEF CALL, Executes
    <3>. QED  BY <3>1, CallTargetTypes
  <2>3. CASE Fail(t.status) \/ Fail("VM_ILL_MEM_ACCESS")
    BY <2>2, <2>3, FailTypes DEF Goal, Statuses
  <2>4. CASE /\ sp' = Pushed /\ Store(Pushed, pc + Size(i.mode))
             /\ Goto(i, Unsigned(t.word))
             /\ UNCHANGED <<regs, sr, running, status, compared>>
    <3>1. Size(i.mode) \in Int
      BY FetchedTypes, Layout DEF Size, Modes
    <3>2. Memory'
      BY <1>1, <2>4, <3>1, StoreTypes DEF Types
    <3>3. sp' \in Address
      BY <1>1, <2>4, Layout DEF Pushed, Address
    <3>4. pc' \in Address
      BY <1>2, <2>2, <2>4
    <3>. QED  BY <2>4, <3>2, <3>3, <3>4
              DEF Types, Registers, Pointers, Flagged, Control
  <2>. QED  BY <2>1, <2>3, <2>4
<1>4. CASE RTN(i)
  <2>1. CASE Fail("VM_STACK_UNDERFLOW")
    BY <2>1, FailTypes DEF Statuses
  <2>2. CASE /\ sp < MEM_SIZE
             /\ \E t \in ReturnTarget(i) :
                  \/ t.status # "VM_OK" /\ Fail(t.status)
                  \/ /\ sp' = sp + WORD_SIZE
                     /\ Goto(i, Unsigned(t.word))
                     /\ UNCHANGED <<regs, sr, mem, running, status, compared>>
    <3>1. PICK t \in ReturnTarget(i) :
                  \/ t.status # "VM_OK" /\ Fail(t.status)
                  \/ /\ sp' = sp + WORD_SIZE
                     /\ Goto(i, Unsigned(t.word))
                     /\ UNCHANGED <<regs, sr, mem, running, status, compared>>
      BY <2>2
    <3>2. Goal(t)
      <4>1. CASE InMemory(sp)
        BY <4>1, TargetInTypes DEF ReturnTarget
      <4>2. CASE ~InMemory(sp)
        BY <4>2, ErrorTypes DEF ReturnTarget, Statuses
      <4>. QED  BY <4>1, <4>2
    <3>3. CASE Fail(t.status)
      BY <3>2, <3>3, FailTypes DEF Goal
    <3>4. CASE /\ sp' = sp + WORD_SIZE
               /\ Goto(i, Unsigned(t.word))
               /\ UNCHANGED <<regs, sr, mem, running, status, compared>>
      <4>1. sp' \in Address
        BY <1>1, <2>2, <3>4, Layout DEF Types, Pointers, Address
      <4>2. pc' \in Address
        BY <1>2, <3>2, <3>4
      <4>. QED  BY <3>4, <4>1, <4>2
                DEF Types, Registers, Memory, Pointers, Flagged, Control
    <3>. QED  BY <3>1, <3>3, <3>4
  <2>. QED  BY <1>4, <2>1, <2>2 DEF RTN
<1>5. CASE Jump(i)
  <2>1. CASE /\ Advance(i)
             /\ UNCHANGED <<regs, sp, sr, mem, running, status, compared>>
    <3>1. pc' \in Address
      BY <1>1, <2>1, GotoTypes DEF Advance
    <3>. QED  BY <2>1, <3>1
              DEF Types, Registers, Memory, Pointers, Flagged, Control
  <2>2. CASE \E t \in JumpTarget(i) :
               \/ t.status # "VM_OK" /\ Fail(t.status)
               \/ /\ t.status = "VM_OK" /\ Goto(i, Unsigned(t.word))
                  /\ UNCHANGED <<regs, sp, sr, mem, running, status, compared>>
    <3>1. PICK t \in JumpTarget(i) :
               \/ Fail(t.status)
               \/ /\ Goto(i, Unsigned(t.word))
                  /\ UNCHANGED <<regs, sp, sr, mem, running, status, compared>>
      BY <2>2
    <3>2. Goal(t)
      BY <1>1, <1>5, JumpTargetTypes DEF Jump, Executes
    <3>3. CASE Fail(t.status)
      BY <3>2, <3>3, FailTypes DEF Goal
    <3>4. CASE /\ Goto(i, Unsigned(t.word))
               /\ UNCHANGED <<regs, sp, sr, mem, running, status, compared>>
      <4>1. pc' \in Address
        BY <1>2, <3>2, <3>4
      <4>. QED  BY <3>4, <4>1
                DEF Types, Registers, Memory, Pointers, Flagged, Control
    <3>. QED  BY <3>1, <3>3, <3>4
  <2>. QED  BY <1>5, <2>1, <2>2 DEF Jump
<1>. QED  BY <1>3, <1>4, <1>5

(* NOP, RST and HALT, and what cpu_step refuses (cpu.c:12-38).             *)
LEMMA ControlTypes ==
  ASSUME Types, NEW i \in Fetched,
         NOP(i) \/ RST(i) \/ HALT(i) \/ Truncated(i) \/ Unknown(i)
  PROVE  Types'
<1>1. pc \in Address
  BY DEF Types, Pointers
<1>2. CASE NOP(i) \/ HALT(i)
  <2>1. pc' \in Address
    BY <1>1, <1>2, GotoTypes DEF NOP, HALT, Executes, Advance
  <2>. QED  BY <1>2, <2>1 DEF NOP, HALT, Types, Registers, Memory, Pointers,
                              Flagged, Control
<1>3. CASE RST(i)
  <2>1. 0 \in Address /\ MEM_SIZE \in Address /\ 0 \in Byte
    BY Layout, Widths DEF Address, Byte
  <2>2. pc' \in Address
    BY <1>1, <1>3, <2>1, GotoTypes DEF RST, Executes
  <2>3. Registers' /\ Memory'
    BY <1>3, <2>1, SmallWords DEF RST, Registers, Memory
  <2>. QED  BY <1>3, <2>1, <2>2, <2>3, SmallWords
            DEF RST, Types, Pointers, Flagged, Flags, Control
<1>4. CASE Truncated(i) \/ Unknown(i)
  BY <1>4, FailTypes DEF Truncated, Unknown, Statuses
<1>. QED  BY <1>2, <1>3, <1>4

(* initVM and loadProgram (vm.c:15-27, loader.c).                          *)
LEMMA InitTypes == Init => Types
<1>. SUFFICES ASSUME Init PROVE Types
  OBVIOUS
<1>1. 0 \in Byte /\ MEM_SIZE \in Address
  BY Layout, Widths DEF Byte, Address
<1>2. Registers /\ Pointers
  BY <1>1, SmallWords, MachineAssumption DEF Init, Cleared, Registers, Pointers
<1>3. Memory
  <2>1. \A x \in 0..(MEM_SIZE - 1) : LoadedMemory[x] \in Byte \cup {CodeByte}
    <3>. SUFFICES ASSUME NEW x \in 0..(MEM_SIZE - 1)
                  PROVE  LoadedMemory[x] \in Byte \cup {CodeByte}
      OBVIOUS
    <3>1. CASE ~(x < DATA_BASE) /\ x < HEAP_BASE
      <4>1. x \in DATA_BASE..(HEAP_BASE - 1)
        BY <3>1, Layout, MachineAssumption
      <4>. QED  BY <3>1, <4>1, MachineAssumption DEF LoadedMemory
    <3>. QED  BY <1>1, <3>1 DEF LoadedMemory
  <2>. QED  BY <2>1 DEF Init, LoadedMemory, Memory
<1>. QED  BY <1>2, <1>3, SmallWords
          DEF Init, Cleared, Types, Flagged, Flags, Control, Statuses

(* Every step of the machine keeps its types.                              *)
LEMMA NextTypes ==
  ASSUME Types, [Next]_vars
  PROVE  Types'
<1>1. CASE \E i \in Fetched : Step(i)
  BY <1>1, ComputeTypes, MoveTypes, FasTypes, PushPopTypes, TransferTypes,
     ControlTypes DEF Step
<1>2. CASE OutOfCode \/ Undecoded
  BY <1>2, FailTypes DEF OutOfCode, Undecoded, Statuses
<1>3. CASE Exit \/ UNCHANGED vars
  BY <1>3 DEF Exit, vars, Types, Registers, Memory, Pointers, Flagged, Control
<1>. QED  BY <1>1, <1>2, <1>3 DEF Next

(* The inductive invariant of the types.                                   *)
THEOREM MachineTypes == Spec => []Types
<1>1. Types /\ [Next]_vars => Types'
  BY NextTypes
<1>. QED  BY <1>1, InitTypes, PTL DEF Spec

(* Registers always hold 64-bit words, memory bytes, sp and pc unsigned    *)
(* words, and operands words, for every program, whatever it computes,     *)
(* stores or jumps to (vm.h, struct VM; instructions.c, every handler):    *)
(* the processor has no state outside of its types, the conversions of its *)
(* handlers between int64_t and uint64_t included.                         *)
THEOREM MachineIsTyped == Spec => []TypeOK
<1>1. Types /\ (\A i \in Fetched : i.imm \in Word) => TypeOK
  BY DEF Types, Registers, Memory, Pointers, Flagged, Control, TypeOK
<1>. QED  BY <1>1, MachineTypes, OperandsAreWords, PTL

----------------------------------------------------------------------------
(* initVM and loadProgram establish the invariant (vm.c:15-27).            *)
LEMMA InitInv == Init => MachineInv
<1>. SUFFICES ASSUME Init PROVE MachineInv
  OBVIOUS
<1>1. sp = MEM_SIZE /\ mem = LoadedMemory
  BY DEF Init, Cleared
<1>2. MEM_SIZE = MEM_SIZE - WORD_SIZE * 0 /\ 0 \in 0..MEM_SIZE
  BY Layout
<1>3. StackBounds
  BY <1>1, <1>2, Layout DEF StackBounds
<1>4. DOMAIN mem = 0..(MEM_SIZE - 1)
  BY <1>1 DEF LoadedMemory
<1>. QED  BY <1>3, <1>4 DEF MachineInv

(* A step that leaves sp and the memory alone keeps it.                    *)
LEMMA StutterInv ==
  ASSUME MachineInv, UNCHANGED <<sp, mem>>
  PROVE  MachineInv'
BY DEF MachineInv, StackBounds

(* So does a store, wherever it goes (memory.c:23-32).                     *)
LEMMA StoreInv ==
  ASSUME MachineInv, UNCHANGED sp, NEW addr, NEW w, Store(addr, w)
  PROVE  MachineInv'
BY StoreKeepsSize DEF MachineInv, StackBounds

(* So does the push of a word (instructions.c:1208-1209, 1311-1313).       *)
LEMMA PushInv ==
  ASSUME MachineInv, STACK_BASE < sp, sp' = Pushed,
         NEW w, Store(Pushed, w)
  PROVE  MachineInv'
<1>1. StackBounds'
  BY PushStays DEF MachineInv, StackBounds
<1>. QED  BY <1>1, StoreKeepsSize DEF MachineInv

(* So does a pop (instructions.c:1244-1246, 1446-1448).                    *)
LEMMA PopInv ==
  ASSUME MachineInv, sp < MEM_SIZE, sp' = sp + WORD_SIZE, UNCHANGED mem
  PROVE  MachineInv'
<1>1. StackBounds'
  BY PopStays DEF MachineInv, StackBounds
<1>. QED  BY <1>1 DEF MachineInv

(* A call that is not refused has checked that the stack is not full.      *)
LEMMA CallChecks ==
  ASSUME NEW i, NEW t \in CallTarget(i), t.status = "VM_OK",
         sp \in Int
  PROVE  STACK_BASE < sp
BY Layout DEF CallTarget, Error

(* A FAS whose first register exists leaves sp alone, and the memory but   *)
(* for the word that it sets to 1 (instructions.c:1250-1303).              *)
LEMMA FasStoresOne ==
  ASSUME FasRegistersExist, NEW i \in Fetched, FAS(i)
  PROVE  UNCHANGED sp /\ (UNCHANGED mem \/ \E addr : Store(addr, 1))
<1>1. InRange(i.a)
  BY FetchedFas DEF FAS, Executes
<1>2. i.a # N_REG /\ ~InTheMemory(i.a)
  BY <1>1, FetchedTypes, Layout DEF InRange, InTheMemory
<1>3. PICK v \in SlotWords(i.b) :
        \/ Fail(FasError(i, v))
        \/ \E w \in WordsInto(i.a, AddressOf(i, v)) : FasLoads(i, v, w)
  BY DEF FAS
<1>4. CASE Fail(FasError(i, v))
  BY <1>4 DEF Fail, machine
<1>5. CASE \E w \in WordsInto(i.a, AddressOf(i, v)) : FasLoads(i, v, w)
  <2>1. PICK w : FasLoads(i, v, w)
    BY <1>5
  <2>2. MemoryAfter(i.a, w) = mem
    BY <1>2 DEF MemoryAfter
  <2>. QED  BY <1>2, <2>1, <2>2 DEF FasLoads, SetSlot, Store
<1>. QED  BY <1>3, <1>4, <1>5

(* Every instruction keeps the invariant.                                  *)
LEMMA StepInv ==
  ASSUME FasRegistersExist, MachineInv, NEW i \in Fetched, Step(i)
  PROVE  MachineInv'
<1>1. \A e : Fail(e) => UNCHANGED <<sp, mem>>
  BY DEF Fail, machine
<1>2. CASE UnaryStep(i) \/ BinaryStep(i) \/ LD(i) \/ NOP(i) \/ HALT(i)
  BY <1>1, <1>2, StutterInv DEF UnaryStep, BinaryStep, LD, NOP, HALT
<1>3. CASE Jump(i) \/ Truncated(i) \/ Unknown(i)
  BY <1>1, <1>3, StutterInv DEF Jump, Truncated, Unknown
<1>4. CASE ST(i)
  BY <1>1, <1>4, StutterInv, StoreInv DEF ST
<1>5. CASE SWP(i)
  BY <1>1, <1>5, StutterInv, StoreInv DEF SWP
<1>6. CASE FAS(i)
  BY <1>6, FasStoresOne, StutterInv, StoreInv
<1>7. sp \in Int
  <2>1. PICK k \in 0..MEM_SIZE : sp = MEM_SIZE - WORD_SIZE * k
    BY DEF MachineInv, StackBounds
  <2>2. WORD_SIZE * k \in Int
    BY Layout
  <2>. QED  BY <2>1, <2>2, Layout
<1>8. CASE PUSH(i)
  <2>1. CASE PushError(i) # "VM_OK" /\ Fail(PushError(i))
    BY <1>1, <2>1, StutterInv
  <2>2. CASE PushError(i) = "VM_OK" /\ sp' = Pushed
    <3>1. STACK_BASE < sp
      BY <1>7, <2>2, Layout DEF PushError
    <3>. QED  BY <1>8, <2>2, <3>1, PushInv, <1>1 DEF PUSH
  <2>. QED  BY <1>8, <2>1, <2>2 DEF PUSH
<1>9. CASE CALL(i)
  <2>1. PICK t \in CallTarget(i) :
          \/ t.status # "VM_OK" /\ Fail(t.status)
          \/ Fail("VM_ILL_MEM_ACCESS")
          \/ /\ t.status = "VM_OK" /\ sp' = Pushed
             /\ Store(Pushed, pc + Size(i.mode))
    BY <1>9 DEF CALL
  <2>2. CASE t.status = "VM_OK" /\ sp' = Pushed /\ Store(Pushed, pc + Size(i.mode))
    BY <1>7, <2>2, CallChecks, PushInv
  <2>. QED  BY <1>1, <2>1, <2>2, StutterInv
<1>10. CASE POP(i)
  <2>1. CASE PopError(i) # "VM_OK" /\ Fail(PopError(i))
    BY <1>1, <2>1, StutterInv
  <2>2. CASE PopError(i) = "VM_OK" /\ sp' = sp + WORD_SIZE /\ UNCHANGED mem
    <3>1. sp < MEM_SIZE
      BY <1>7, <2>2, Layout DEF PopError, PopErrorAt
    <3>. QED  BY <2>2, <3>1, PopInv
  <2>. QED  BY <1>10, <2>1, <2>2 DEF POP
<1>11. CASE RTN(i)
  BY <1>1, <1>11, StutterInv, PopInv DEF RTN
<1>12. CASE RST(i)
  <2>1. sp' = MEM_SIZE /\ mem' = [x \in 0..(MEM_SIZE - 1) |-> 0]
    BY <1>12 DEF RST
  <2>2. MEM_SIZE = MEM_SIZE - WORD_SIZE * 0 /\ 0 \in 0..MEM_SIZE
    BY Layout
  <2>3. StackBounds'
    BY <2>1, <2>2, Layout DEF StackBounds
  <2>. QED  BY <2>1, <2>3 DEF MachineInv
<1>. QED  BY <1>2, <1>3, <1>4, <1>5, <1>6, <1>8, <1>9, <1>10, <1>11, <1>12 DEF Step

(* Every step of the machine keeps the invariant.                          *)
LEMMA NextInv ==
  ASSUME FasRegistersExist, MachineInv, [Next]_vars
  PROVE  MachineInv'
<1>1. CASE \E i \in Fetched : Step(i)
  BY <1>1, StepInv
<1>2. CASE OutOfCode \/ Undecoded \/ Exit \/ UNCHANGED vars
  BY <1>2, StutterInv DEF OutOfCode, Undecoded, Exit, Fail, machine, vars
<1>. QED  BY <1>1, <1>2 DEF Next

----------------------------------------------------------------------------
(* The inductive invariant holds of every program whose FAS load into      *)
(* registers that exist (instructions.c, every handler).                   *)
THEOREM MachineInvariant == FasRegistersExist => (Spec => []MachineInv)
<1>. SUFFICES ASSUME FasRegistersExist PROVE Spec => []MachineInv
  OBVIOUS
<1>1. MachineInv /\ [Next]_vars => MachineInv'
  BY NextInv
<1>. QED  BY <1>1, InitInv, PTL DEF Spec

(* The stack pointer never leaves the stack segment, and is a whole number *)
(* of words below MEM_SIZE: no sequence of PUSH, POP, CALL, RTN and the    *)
(* other instructions runs over either end (instructions.c:1201-1451).     *)
THEOREM StackIsBounded == FasRegistersExist => (Spec => []StackBounds)
<1>1. MachineInv => StackBounds
  BY DEF MachineInv
<1>. QED  BY <1>1, MachineInvariant, PTL

----------------------------------------------------------------------------
(* A store that lies in the stack segment leaves the rest of the memory as *)
(* it was.                                                                 *)
LEMMA StoreAbove ==
  ASSUME DOMAIN mem = 0..(MEM_SIZE - 1),
         NEW addr \in Int, STACK_BASE <= addr, addr < MEM_SIZE,
         NEW w, Store(addr, w), NEW x \in 0..(STACK_BASE - 1)
  PROVE  mem'[x] = mem[x]
<1>1. x \in DOMAIN mem
  BY Layout
<1>2. x - addr \in -(MEM_SIZE)..-1
  BY Layout
<1>3. (x - addr) % MOD = x - addr + MOD
  <2>1. \A n \in Int : \A m \in Nat : -m <= n /\ n < 0 => n % m = n + m
    OBVIOUS
  <2>. DEFINE d == x - addr
  <2>2. MOD \in Nat /\ d \in Int /\ -MOD <= d /\ d < 0
    BY <1>2, Layout
  <2>3. d % MOD = d + MOD
    <3>. HIDE DEF d
    <3>. QED  BY <2>1, <2>2
  <2>. QED  BY <2>3
<1>4. (x - addr) % MOD \notin BytesOfWord
  BY <1>2, <1>3, Layout DEF BytesOfWord
<1>. QED  BY <1>1, <1>4 DEF Store, StoredIn

(* PUSH and CALL leave the memory below the stack segment as it was.       *)
LEMMA PushConfined ==
  ASSUME MachineInv, NEW i \in Fetched, PUSH(i) \/ CALL(i),
         NEW x \in 0..(STACK_BASE - 1)
  PROVE  mem'[x] = mem[x]
<1>1. sp \in Int /\ sp <= MEM_SIZE
  <2>1. PICK k \in 0..MEM_SIZE : sp = MEM_SIZE - WORD_SIZE * k
    BY DEF MachineInv, StackBounds
  <2>2. WORD_SIZE * k \in Nat
    BY Layout
  <2>. QED  BY <2>1, <2>2, Layout
<1>2. CASE UNCHANGED mem
  BY <1>2
<1>3. CASE STACK_BASE < sp /\ \E w : Store(Pushed, w)
  <2>1. Pushed \in Int /\ STACK_BASE <= Pushed /\ Pushed < MEM_SIZE
    <3>1. Pushed = sp - WORD_SIZE /\ STACK_BASE <= Pushed
      BY <1>3, PushStays DEF MachineInv
    <3>. QED  BY <1>1, <3>1, Layout
  <2>. QED  BY <1>3, <2>1, StoreAbove DEF MachineInv
<1>4. CASE PUSH(i)
  <2>1. CASE Fail(PushError(i))
    BY <1>2, <2>1 DEF Fail, machine
  <2>2. CASE PushError(i) = "VM_OK" /\ \E w : Store(Pushed, w)
    <3>1. STACK_BASE < sp
      BY <1>1, <2>2, Layout DEF PushError
    <3>. QED  BY <1>3, <2>2, <3>1
  <2>. QED  BY <1>4, <2>1, <2>2 DEF PUSH
<1>5. CASE CALL(i)
  <2>1. PICK t \in CallTarget(i) :
          \/ \E e : Fail(e)
          \/ t.status = "VM_OK" /\ Store(Pushed, pc + Size(i.mode))
    BY <1>5 DEF CALL
  <2>2. CASE \E e : Fail(e)
    BY <1>2, <2>2 DEF Fail, machine
  <2>3. CASE t.status = "VM_OK" /\ Store(Pushed, pc + Size(i.mode))
    BY <1>1, <1>3, <2>3, CallChecks
  <2>. QED  BY <2>1, <2>2, <2>3
<1>. QED  BY <1>4, <1>5

(* PUSH and CALL write to the stack segment alone: they never reach the    *)
(* blocks of the heap that ends where it begins (instructions.c:1201-1431).*)
THEOREM PushesAreConfined == FasRegistersExist => (Spec => PushesInTheStack)
<1>. SUFFICES ASSUME FasRegistersExist PROVE Spec => PushesInTheStack
  OBVIOUS
<1>. DEFINE Confined == \A i \in Fetched : PUSH(i) \/ CALL(i) =>
                          \A x \in 0..(STACK_BASE - 1) : mem'[x] = mem[x]
<1>1. MachineInv /\ [Next]_vars => [Confined]_vars
  BY PushConfined
<1>. QED  BY <1>1, MachineInvariant, PTL DEF Spec, PushesInTheStack

----------------------------------------------------------------------------
(* The address of an operand in memory is an integer.                      *)
LEMMA AddressIsInt ==
  ASSUME NEW i \in Fetched, i.mode \in {"DIR", "IND", "IDX"},
         NEW w \in Word
  PROVE  AddressOf(i, w) \in Int
<1>1. \A n \in Int : Unsigned(n) \in Int /\ Wrap(n) \in Int
  BY Layout DEF Unsigned, Wrap
<1>2. w \in Int /\ i.imm \in Int
  BY FetchedTypes, Layout DEF Word
<1>3. CASE i.mode = "DIR"
  BY <1>1, <1>2, <1>3 DEF AddressOf
<1>4. CASE i.mode = "IND"
  BY <1>1, <1>2, <1>4 DEF AddressOf
<1>5. CASE i.mode = "IDX"
  <2>1. w + i.imm \in Int
    BY <1>2
  <2>. QED  BY <1>1, <1>5, <2>1 DEF AddressOf
<1>. QED  BY <1>3, <1>4, <1>5

(* A store above the code that does not wrap around leaves it as it was.   *)
LEMMA StoreSparesCode ==
  ASSUME DOMAIN mem = 0..(MEM_SIZE - 1), DATA_BASE < MEM_SIZE,
         NEW addr \in Int, DATA_BASE <= addr, ~Straddles(addr),
         NEW w, Store(addr, w), NEW x \in 0..(DATA_BASE - 1)
  PROVE  mem'[x] = mem[x]
<1>1. x \in DOMAIN mem
  BY Layout
<1>2. addr + WORD_SIZE - 1 < MOD /\ x - addr \in -MOD..-1
  BY Layout DEF Straddles
<1>3. (x - addr) % MOD = x - addr + MOD
  <2>1. \A n \in Int : \A m \in Nat : -m <= n /\ n < 0 => n % m = n + m
    OBVIOUS
  <2>. DEFINE d == x - addr
  <2>2. MOD \in Nat /\ d \in Int /\ -MOD <= d /\ d < 0
    BY <1>2, Layout
  <2>3. d % MOD = d + MOD
    <3>. HIDE DEF d
    <3>. QED  BY <2>1, <2>2
  <2>. QED  BY <2>3
<1>4. (x - addr) % MOD \notin BytesOfWord
  BY <1>2, <1>3, Layout DEF BytesOfWord
<1>. QED  BY <1>1, <1>4 DEF Store, StoredIn

(* So does one that ST, SWP and most FAS make: they refuse an address in   *)
(* the code.                                                               *)
LEMMA CheckedStore ==
  ASSUME Types, NEW i \in Fetched,
         i.mode \in {"DIR", "IND", "IDX"}, NEW v \in Word,
         ~(AddressOf(i, v) < DATA_BASE), ~Straddles(AddressOf(i, v)),
         NEW w, Store(AddressOf(i, v), w), NEW x \in 0..(DATA_BASE - 1)
  PROVE  mem'[x] = mem[x]
<1>1. AddressOf(i, v) \in Int
  BY AddressIsInt
<1>2. DATA_BASE <= AddressOf(i, v)
  BY <1>1, Layout
<1>3. DATA_BASE < MEM_SIZE /\ DOMAIN mem = 0..(MEM_SIZE - 1)
  BY Layout DEF Types, Memory
<1>. QED  BY <1>1, <1>2, <1>3, StoreSparesCode

(* So does a push, wherever sp is: there is room for a word between the    *)
(* code and STACK_BASE.                                                    *)
LEMMA PushSparesCode ==
  ASSUME Types, STACK_BASE < sp, NEW w, Store(Pushed, w),
         NEW x \in 0..(DATA_BASE - 1)
  PROVE  mem'[x] = mem[x]
<1>1. sp \in Int /\ sp < MOD
  BY Layout DEF Types, Pointers, Address
<1>2. Pushed = sp - WORD_SIZE
  <2>1. \A n, m \in Nat : n < m => n % m = n
    OBVIOUS
  <2>2. sp - WORD_SIZE \in Nat /\ MOD \in Nat /\ sp - WORD_SIZE < MOD
    BY <1>1, Layout
  <2>. QED  BY <2>1, <2>2 DEF Pushed
<1>3. /\ Pushed \in Int /\ DATA_BASE <= Pushed
      /\ ~Straddles(Pushed) /\ DATA_BASE < MEM_SIZE
  BY <1>1, <1>2, Layout DEF Straddles
<1>4. DOMAIN mem = 0..(MEM_SIZE - 1)
  BY DEF Types, Memory
<1>. QED  BY <1>3, <1>4, StoreSparesCode

(* An operand that passed the checks is at the address that Overwrites     *)
(* speaks of.                                                              *)
LEMMA CheckedOperand ==
  ASSUME NEW i \in Fetched, i.mode \in {"DIR", "IND", "IDX"},
         OperandError(i) = "VM_OK", i.b \in Nat
  PROVE  /\ SourceAddress(i) = AddressOf(i, Slot(i.b))
         /\ ~(AddressOf(i, Slot(i.b)) < DATA_BASE)
<1>1. ~(SourceAddress(i) < DATA_BASE) /\ RegistersExist(i)
  BY DEF OperandError, MemoryMode
<1>2. SourceAddress(i) = AddressOf(i, Slot(i.b))
  <2>1. CASE i.mode = "DIR"
    BY <2>1 DEF SourceAddress, AddressOf
  <2>2. CASE i.mode # "DIR"
    BY <1>1, <2>2 DEF RegistersExist, Slot, SourceAddress
  <2>. QED  BY <2>1, <2>2
<1>. QED  BY <1>1, <1>2

(* The addressing modes of the instructions that store.                    *)
LEMMA StoringModes ==
  /\ ModesOf("ST") = {"DIR", "IND", "IDX"}
  /\ ModesOf("FAS") = {"DIR", "IND", "IDX"}
  /\ ModesOf("SWP") = {"REG", "DIR", "IND", "IDX"}
BY DEF ModesOf, Binary, Shifts, Unary, Jumps, CondJump, Bare

(* The word that a FAS takes for the register i.b.                         *)
LEMMA SlotWordsTypes ==
  ASSUME Types, NEW r \in Nat, NEW v \in SlotWords(r)
  PROVE  v \in Word
BY SlotTypes DEF SlotWords, WordsAt

(* PUSH and CALL.                                                          *)
LEMMA PushPassesCode ==
  ASSUME Types, NEW i \in Fetched, PUSH(i) \/ CALL(i),
         NEW x \in 0..(DATA_BASE - 1)
  PROVE  mem'[x] = mem[x]
<1>1. \A e : Fail(e) => UNCHANGED mem
  BY DEF Fail, machine
<1>2. sp \in Int
  BY Layout DEF Types, Pointers, Address
<1>3. CASE PUSH(i)
  <2>1. CASE Fail(PushError(i))
    BY <1>1, <2>1
  <2>2. CASE PushError(i) = "VM_OK" /\ \E w : Store(Pushed, w)
    <3>1. STACK_BASE < sp
      BY <1>2, <2>2, Layout DEF PushError
    <3>. QED  BY <2>2, <3>1, PushSparesCode
  <2>. QED  BY <1>3, <2>1, <2>2 DEF PUSH
<1>4. CASE CALL(i)
  <2>1. PICK t \in CallTarget(i) :
          \/ \E e : Fail(e)
          \/ t.status = "VM_OK" /\ Store(Pushed, pc + Size(i.mode))
    BY <1>4 DEF CALL
  <2>2. CASE \E e : Fail(e)
    BY <1>1, <2>2
  <2>3. CASE t.status = "VM_OK" /\ Store(Pushed, pc + Size(i.mode))
    BY <1>2, <2>3, CallChecks, PushSparesCode
  <2>. QED  BY <2>1, <2>2, <2>3
<1>. QED  BY <1>3, <1>4

(* An instruction that changes the code is one of those named.             *)
LEMMA StepSparesCode ==
  ASSUME Types, NEW i \in Fetched, Step(i),
         ~Overwrites(i), NEW x \in 0..(DATA_BASE - 1)
  PROVE  mem'[x] = mem[x]
<1>1. \A e : Fail(e) => UNCHANGED mem
  BY DEF Fail, machine
<1>2. i.b \in Nat /\ Slot(i.b) \in Word
  BY FetchedTypes, SlotTypes
<1>3. CASE UnaryStep(i) \/ BinaryStep(i) \/ LD(i) \/ NOP(i) \/ HALT(i)
  BY <1>1, <1>3 DEF UnaryStep, BinaryStep, LD, NOP, HALT
<1>4. CASE Jump(i) \/ Truncated(i) \/ Unknown(i) \/ POP(i) \/ RTN(i)
  BY <1>1, <1>4 DEF Jump, Truncated, Unknown, POP, RTN
<1>5. CASE PUSH(i) \/ CALL(i)
  BY <1>5, PushPassesCode
<1>6. CASE ST(i)
  <2>1. i.mode \in {"DIR", "IND", "IDX"}
    BY <1>6, StoringModes DEF ST, Executes
  <2>2. ~Straddles(SourceAddress(i))
    BY <1>6 DEF Overwrites
  <2>3. CASE Fail(OperandError(i))
    BY <1>1, <2>3
  <2>4. CASE OperandError(i) = "VM_OK" /\ Store(SourceAddress(i), regs[i.a])
    BY <1>2, <2>1, <2>2, <2>4, CheckedOperand, CheckedStore
  <2>. QED  BY <1>6, <2>3, <2>4 DEF ST
<1>7. CASE SWP(i)
  <2>1. i.mode \in {"REG", "DIR", "IND", "IDX"}
    BY <1>7, StoringModes DEF SWP, Executes
  <2>2. ~Straddles(SourceAddress(i))
    BY <1>7 DEF Overwrites
  <2>3. PICK v \in Operand(i) :
          \/ UNCHANGED mem
          \/ /\ v.status = "VM_OK" /\ i.mode # "REG"
             /\ Store(SourceAddress(i), regs[i.a])
    BY <1>1, <1>7 DEF SWP
  <2>4. CASE /\ v.status = "VM_OK" /\ i.mode # "REG"
             /\ Store(SourceAddress(i), regs[i.a])
    <3>1. OperandError(i) = "VM_OK"
      BY <2>4 DEF Operand, Error
    <3>. QED  BY <1>2, <2>1, <2>2, <2>4, <3>1, CheckedOperand, CheckedStore
  <2>. QED  BY <2>3, <2>4
<1>8. CASE FAS(i)
  <2>1. i.mode \in {"DIR", "IND", "IDX"}
    BY <1>8, StoringModes DEF FAS, Executes
  <2>2. /\ \A v \in SlotWords(i.b) : ~Straddles(AddressOf(i, v))
        /\ ~InTheMemory(i.a)
        /\ i.mode = "DIR" \/ (i.mode = "IDX" /\ i.a # i.b)
    BY <1>8, <2>1 DEF Overwrites
  <2>3. PICK v \in SlotWords(i.b) :
          \/ Fail(FasError(i, v))
          \/ FasError(i, v) = "VM_OK" /\ \E w : FasLoads(i, v, w)
    BY <1>8 DEF FAS
  <2>4. CASE Fail(FasError(i, v))
    BY <1>1, <2>4
  <2>5. CASE FasError(i, v) = "VM_OK" /\ \E w : FasLoads(i, v, w)
    <3>1. PICK w : FasLoads(i, v, w)
      BY <2>5
    <3>2. ~(AddressOf(i, v) < DATA_BASE) /\ v \in Word
      BY <1>2, <2>5, SlotWordsTypes DEF FasError
    <3>3. FasStores(i, v, w) = AddressOf(i, v)
      BY <2>2 DEF FasStores, AddressOf
    <3>4. MemoryAfter(i.a, w) = mem
      BY <2>2 DEF MemoryAfter
    <3>5. UNCHANGED mem \/ Store(AddressOf(i, v), 1)
      BY <3>1, <3>3, <3>4 DEF FasLoads, Store
    <3>. QED  BY <2>1, <2>2, <3>2, <3>5, CheckedStore
  <2>. QED  BY <2>3, <2>4, <2>5
<1>9. ~RST(i)
  BY DEF Overwrites
<1>. QED  BY <1>3, <1>4, <1>5, <1>6, <1>7, <1>8, <1>9 DEF Step

(* Every check that the stores make holds together: whatever runs, and     *)
(* whatever sp is, the code is overwritten by RST, by a FAS that stores    *)
(* elsewhere than it loads or loads into the memory, or at one of the last *)
(* addresses of all, and in no other way (instructions.c:1029-1303,        *)
(* memory.c:23-32).                                                        *)
THEOREM CodeIsAlwaysProtected == Spec => CodeIsProtected
<1>. DEFINE Protected == (\E x \in 0..(DATA_BASE - 1) : mem'[x] # mem[x])
                           => \E i \in Fetched : Overwrites(i)
<1>1. Types /\ [Next]_vars => [Protected]_vars
  <2>. SUFFICES ASSUME Types, Next,
                       NEW x \in 0..(DATA_BASE - 1), mem'[x] # mem[x]
                PROVE  \E i \in Fetched : Overwrites(i)
    OBVIOUS
  <2>1. CASE \E i \in Fetched : Step(i)
    BY <2>1, StepSparesCode
  <2>2. CASE OutOfCode \/ Undecoded \/ Exit
    BY <2>2 DEF OutOfCode, Undecoded, Exit, Fail, machine, vars
  <2>. QED  BY <2>1, <2>2 DEF Next
<1>. QED  BY <1>1, MachineTypes, PTL DEF Spec, CodeIsProtected

----------------------------------------------------------------------------
(* The flags that the last comparison left decide on its operands.         *)
FlagsRemember ==
  compared.valid => FlagsDecide(sr, compared.a, compared.b)

(* A step that leaves flags and comparison alone, or forgets the           *)
(* comparison, keeps them together.                                        *)
LEMMA FlagsKept ==
  ASSUME FlagsRemember, UNCHANGED <<sr, compared>> \/ compared' = None
  PROVE  FlagsRemember'
BY DEF FlagsRemember, FlagsDecide, Equal, NotEqual, LessOrEqual, Less,
       GreaterOrEqual, Greater, EqLog, None

(* CMP sets the flags of the operands it is remembered with.               *)
LEMMA CompareRemembers ==
  ASSUME NEW a \in Word, NEW b \in Word, sr' = SetFlags(sr, "CMP", a, b),
         compared' = [valid |-> TRUE, a |-> a, b |-> b]
  PROVE  FlagsRemember'
<1>1. FlagsDecide(SetFlags(sr, "CMP", a, b), a, b)
  BY CompareDecides
<1>2. FlagsDecide(sr', compared'.a, compared'.b)
  BY <1>1
<1>. QED  BY <1>2 DEF FlagsRemember, FlagsDecide, Equal, NotEqual,
                      LessOrEqual, Less, GreaterOrEqual, Greater, EqLog

(* Every instruction keeps flags and comparison together.                  *)
LEMMA StepRemembers ==
  ASSUME FlagsRemember, Types', NEW i \in Fetched, Step(i)
  PROVE  FlagsRemember'
<1>1. \A e : Fail(e) => UNCHANGED <<sr, compared>>
  BY DEF Fail, machine
<1>2. \A addr : SpillStatus(addr) =>
                  UNCHANGED <<sr, compared>> \/ compared' = None
  BY DEF SpillStatus
<1>3. CASE UnaryStep(i) \/ RST(i)
  BY <1>1, <1>3, FlagsKept DEF UnaryStep, RST
<1>4. CASE BinaryStep(i)
  <2>1. PICK v \in Operand(i) :
          \/ Fail(BinaryError(i, v))
          \/ /\ sr' = SetFlags(sr, i.op, regs[i.a], v.word)
             /\ compared' = Compared(i.op, regs[i.a], v.word)
    BY <1>4 DEF BinaryStep
  <2>2. CASE Fail(BinaryError(i, v))
    BY <1>1, <2>2, FlagsKept
  <2>3. CASE /\ sr' = SetFlags(sr, i.op, regs[i.a], v.word)
             /\ compared' = Compared(i.op, regs[i.a], v.word)
    <3>1. CASE i.op # "CMP"
      BY <2>3, <3>1, FlagsKept DEF Compared
    <3>2. CASE i.op = "CMP"
      <4>1. compared' = [valid |-> TRUE, a |-> regs[i.a], b |-> v.word]
        BY <2>3, <3>2 DEF Compared
      <4>2. compared' \in [valid : BOOLEAN, a : Word, b : Word]
        BY DEF Types, Flagged
      <4>3. compared'.a = regs[i.a] /\ compared'.b = v.word
        BY <4>1
      <4>4. regs[i.a] \in Word /\ v.word \in Word
        BY <4>2, <4>3
      <4>5. sr' = SetFlags(sr, "CMP", regs[i.a], v.word)
        BY <2>3, <3>2
      <4>. QED  BY <4>1, <4>4, <4>5, CompareRemembers
    <3>. QED  BY <3>1, <3>2
  <2>. QED  BY <2>1, <2>2, <2>3
<1>5. CASE LD(i) \/ NOP(i) \/ HALT(i)
  BY <1>1, <1>5, FlagsKept DEF LD, NOP, HALT
<1>6. CASE ST(i) \/ SWP(i)
  BY <1>1, <1>2, <1>6, FlagsKept DEF ST, SWP
<1>7. CASE FAS(i)
  <2>1. PICK v : (\E e : Fail(e)) \/ \E w : FasLoads(i, v, w)
    BY <1>7 DEF FAS
  <2>2. ASSUME NEW w, FasLoads(i, v, w)
        PROVE  UNCHANGED <<sr, compared>> \/ compared' = None
    BY <1>2, <2>2 DEF FasLoads, StatusAfter
  <2>. QED  BY <1>1, <2>1, <2>2, FlagsKept
<1>8. CASE PUSH(i) \/ POP(i)
  BY <1>1, <1>8, FlagsKept DEF PUSH, POP
<1>9. CASE CALL(i) \/ RTN(i)
  BY <1>1, <1>9, FlagsKept DEF CALL, RTN
<1>10. CASE Jump(i) \/ Truncated(i) \/ Unknown(i)
  BY <1>1, <1>10, FlagsKept DEF Jump, Truncated, Unknown
<1>. QED  BY <1>3, <1>4, <1>5, <1>6, <1>7, <1>8, <1>9, <1>10 DEF Step

(* So do the steps without an instruction.                                 *)
LEMMA NextRemembers ==
  ASSUME FlagsRemember, Types', [Next]_vars
  PROVE  FlagsRemember'
<1>1. CASE \E i \in Fetched : Step(i)
  BY <1>1, StepRemembers
<1>2. CASE OutOfCode \/ Undecoded \/ Exit \/ UNCHANGED vars
  <2>1. UNCHANGED <<sr, compared>>
    BY <1>2 DEF OutOfCode, Undecoded, Exit, Fail, machine, vars
  <2>. QED  BY <2>1, FlagsKept
<1>. QED  BY <1>1, <1>2 DEF Next

(* A conditional jump tests the flags for the order that it is named for.  *)
LEMMA JumpsOnOrder ==
  ASSUME FlagsRemember, compared.valid, NEW i, i.op \in CondJump,
         ~(i.op = "JNE" /\ i.mode = "IND")
  PROVE  JumpsOn(i) <=> Holds(i.op, compared.a, compared.b)
<1>1. FlagsDecide(sr, compared.a, compared.b)
  BY DEF FlagsRemember
<1>2. CASE i.op = "JEQ"
  BY <1>1, <1>2 DEF JumpsOn, Holds, FlagsDecide
<1>3. CASE i.op = "JNE"
  BY <1>1, <1>3 DEF JumpsOn, Holds, FlagsDecide
<1>4. CASE i.op = "JLE"
  BY <1>1, <1>4 DEF JumpsOn, Holds, FlagsDecide
<1>5. CASE i.op = "JLT"
  BY <1>1, <1>5 DEF JumpsOn, Holds, FlagsDecide
<1>6. CASE i.op = "JGE"
  BY <1>1, <1>6 DEF JumpsOn, Holds, FlagsDecide
<1>7. CASE i.op = "JGT"
  BY <1>1, <1>7 DEF JumpsOn, Holds, FlagsDecide
<1>. QED  BY <1>2, <1>3, <1>4, <1>5, <1>6, <1>7 DEF CondJump

(* Whatever ran since the last CMP, a conditional jump goes by the order   *)
(* of its operands until the flags are set again, JNEI excepted            *)
(* (instructions.c:1573-1817).                                             *)
THEOREM JumpsAlwaysFollow == Spec => JumpsFollowCompare
<1>. DEFINE Follow ==
       \A i \in Fetched :
         /\ i.op \in CondJump /\ compared.valid
         /\ ~(i.op = "JNE" /\ i.mode = "IND")
         /\ Jump(i)
         => Decides(i)
<1>1. Init => FlagsRemember
  BY DEF Init, None, FlagsRemember
<1>2. FlagsRemember /\ Types' /\ [Next]_vars => FlagsRemember'
  BY NextRemembers
<1>3. FlagsRemember => Follow
  <2>. SUFFICES ASSUME FlagsRemember, NEW i \in Fetched, i.op \in CondJump,
                       compared.valid, ~(i.op = "JNE" /\ i.mode = "IND"),
                       Jump(i)
                PROVE  Decides(i)
    OBVIOUS
  <2>1. JumpsOn(i) <=> Holds(i.op, compared.a, compared.b)
    BY JumpsOnOrder
  <2>2. status = "VM_OK"
    BY DEF Jump, Executes, Steps
  <2>3. CASE JumpsOn(i)
    <3>1. PICK t \in JumpTarget(i) :
            \/ t.status # "VM_OK" /\ Fail(t.status)
            \/ /\ t.status = "VM_OK" /\ Goto(i, Unsigned(t.word))
               /\ UNCHANGED status
      BY <2>3 DEF Jump
    <3>2. /\ status' = t.status
          /\ t.status = "VM_OK" => Goto(i, Unsigned(t.word))
      BY <2>2, <3>1 DEF Fail
    <3>3. Takes(i)
      BY <3>2 DEF Takes
    <3>. QED  BY <2>1, <2>3, <3>3 DEF Decides
  <2>4. CASE ~JumpsOn(i)
    <3>1. Advance(i) /\ UNCHANGED status
      BY <2>4 DEF Jump
    <3>2. Falls(i)
      BY <2>2, <3>1 DEF Falls, Advance, Goto
    <3>. QED  BY <2>1, <2>4, <3>2 DEF Decides
  <2>. QED  BY <2>3, <2>4
<1>4. FlagsRemember /\ [Next]_vars => [Follow]_vars
  BY <1>3
<1>. QED  BY <1>1, <1>2, <1>4, MachineTypes, PTL DEF Spec, JumpsFollowCompare
----------------------------------------------------------------------------
(* The stack.  What an instruction does to it, if it runs at all: nothing, *)
(* a store, a push, a pop, a refusal or a reset.                           *)
Harmless == Statuses \ {"VM_STACK_OVERFLOW", "VM_STACK_UNDERFLOW"}

StackSpared ==
  UNCHANGED <<sp, mem>> /\ status' \in Harmless
StackPoked ==
  /\ UNCHANGED <<sp, status>>
  /\ \E addr \in Address : \E w \in Int : Store(addr, w)
StackPushed ==
  /\ STACK_BASE < sp /\ sp' = Pushed /\ UNCHANGED status
  /\ \E w \in Int : Store(Pushed, w)
StackPopped ==
  sp < MEM_SIZE /\ sp' = sp + WORD_SIZE /\ UNCHANGED <<mem, status>>
StackOverflown ==
  sp <= STACK_BASE /\ UNCHANGED <<sp, mem>> /\ status' = "VM_STACK_OVERFLOW"
StackUnderflown ==
  sp >= MEM_SIZE /\ UNCHANGED <<sp, mem>> /\ status' = "VM_STACK_UNDERFLOW"
StackReset ==
  /\ sp' = MEM_SIZE /\ UNCHANGED status
  /\ mem' = [x \in 0..(MEM_SIZE - 1) |-> 0]

StackStep == \/ StackSpared \/ StackPoked \/ StackPushed \/ StackPopped
             \/ StackOverflown \/ StackUnderflown \/ StackReset

(* A handler that fails for another reason leaves the stack alone.         *)
LEMMA FailSpares ==
  ASSUME NEW e \in Harmless, Fail(e)
  PROVE  StackSpared
BY DEF Fail, machine, StackSpared

(* Operands and targets are never refused because of the stack.            *)
LEMMA OperandHarmless ==
  ASSUME NEW i, NEW v \in Operand(i)
  PROVE  v.status \in Harmless /\ OperandError(i) \in Harmless
<1>1. OperandError(i) \in Harmless /\ "VM_OK" \in Harmless
  BY DEF OperandError, Harmless, Statuses
<1>. QED  BY <1>1 DEF Operand, Error, Values

(* A target that is refused is not refused for the stack,                  *)
LEMMA TargetHarmless ==
  ASSUME NEW i, NEW w, NEW t \in Target(i, w)
  PROVE  t.status \in Harmless
BY DEF Target, Error, Values, Harmless, Statuses

(* neither is one that is read from the memory.                            *)
LEMMA TargetInHarmless ==
  ASSUME NEW i, NEW addr, NEW t \in TargetIn(i, addr)
  PROVE  t.status \in Harmless
<1>1. CASE ~InMemory(addr)
  BY <1>1 DEF TargetIn, Error, Harmless, Statuses
<1>2. CASE InMemory(addr)
  BY <1>2, TargetHarmless DEF TargetIn
<1>. QED  BY <1>1, <1>2

(* A register number in an instruction is an address.                      *)
LEMMA FetchedRegister ==
  ASSUME NEW i \in Fetched
  PROVE  i.b \in Address
<1>1. Decodes /\ (i \in Loaded \/ i = Blank)
  BY DEF Fetched, Blanked
<1>2. CASE i = Blank
  BY <1>2, Layout DEF Blank, Address
<1>3. CASE i \in Loaded
  <2>1. PICK c \in Code[pc] : i \in Decoded(c)
    BY <1>3 DEF Loaded
  <2>2. pc \in 0..(DATA_BASE - 1)
    BY <1>1, Layout DEF Decodes
  <2>3. c \in Instruction
    BY <2>1, <2>2, MachineAssumption
  <2>4. c.b \in 0..MaxRegister
    BY <2>3 DEF Instruction
  <2>5. MaxRegister \in Nat /\ MaxRegister + WORD_SIZE <= MEM_SIZE
    BY MachineAssumption
  <2>6. c.b \in Address
    BY <2>4, <2>5, Layout DEF Address
  <2>7. i.b = c.b
    BY <2>1, <2>3 DEF Decoded, Instruction
  <2>. QED  BY <2>6, <2>7
<1>. QED  BY <1>1, <1>2, <1>3

(* What AddressOf gives is an address.                                     *)
LEMMA AddressOfIsAddress ==
  ASSUME NEW i \in Fetched, i.mode \in {"DIR", "IND", "IDX"},
         NEW w \in Word
  PROVE  AddressOf(i, w) \in Address
<1>1. w \in Int /\ i.imm \in Int /\ w + i.imm \in Int
  BY FetchedTypes, Layout DEF Word
<1>2. Wrap(w + i.imm) \in Int
  BY <1>1, WrapIsWord, Layout DEF Word
<1>. QED  BY <1>1, <1>2, UnsignedIsAddress DEF AddressOf
(* ST, SWP and FAS store a word at an address, or fail                     *)
(* (instructions.c:1029-1303).                                             *)
LEMMA StorePokes ==
  ASSUME UNCHANGED <<sp, status>>, NEW addr \in Address, NEW w \in Int,
         Store(addr, w)
  PROVE  StackPoked
BY DEF StackPoked

(* ST, SWP and FAS store at one address or leave the memory alone.         *)
LEMMA MovesOnStack ==
  ASSUME FasRegistersExist, Types, NEW i \in Fetched, ST(i) \/ SWP(i) \/ FAS(i)
  PROVE  StackStep
<1>1. /\ i.a \in Nat /\ i.b \in Nat /\ i.mode \in ModesOf(i.op)
      /\ status = "VM_OK" /\ "VM_OK" \in Harmless
  BY FetchedTypes DEF ST, SWP, FAS, Executes, Steps, Harmless, Statuses
<1>2. \A e \in Harmless : Fail(e) => StackStep
  BY FailSpares DEF StackStep
<1>3. ASSUME OperandError(i) = "VM_OK", i.mode \in {"DIR", "IND", "IDX"},
             Store(SourceAddress(i), regs[i.a]), UNCHANGED <<sp, status>>
      PROVE  StackStep
  <2>1. SourceAddress(i) = AddressOf(i, Slot(i.b)) /\ InRange(i.a)
    BY <1>1, <1>3, CheckedOperand DEF OperandError, RegistersExist
  <2>2. Slot(i.b) \in Word /\ regs[i.a] \in Word
    BY <1>1, <2>1, SlotTypes, RegisterIsWord DEF Types
  <2>3. SourceAddress(i) \in Address /\ regs[i.a] \in Int
    BY <1>3, <2>1, <2>2, AddressOfIsAddress, Layout DEF Word
  <2>. QED  BY <1>3, <2>3, StorePokes DEF StackStep
<1>4. CASE ST(i)
  <2>1. i.mode \in {"DIR", "IND", "IDX"}
    BY <1>1, <1>4, StoringModes DEF ST, Executes
  <2>2. OperandError(i) \in Harmless
    BY DEF OperandError, Harmless, Statuses
  <2>. QED  BY <1>2, <1>3, <1>4, <2>1, <2>2 DEF ST
<1>5. CASE SWP(i)
  <2>1. i.mode \in {"REG", "DIR", "IND", "IDX"}
    BY <1>1, <1>5, StoringModes DEF SWP, Executes
  <2>2. PICK v \in Operand(i) :
          \/ v.status # "VM_OK" /\ Fail(v.status)
          \/ v.status = "VM_OK" /\ UNCHANGED <<sp, mem, status>>
          \/ /\ v.status = "VM_OK" /\ i.mode # "REG"
             /\ Store(SourceAddress(i), regs[i.a])
             /\ UNCHANGED <<sp, status>>
    BY <1>5 DEF SWP
  <2>3. v.status \in Harmless
    BY OperandHarmless
  <2>4. v.status = "VM_OK" => OperandError(i) = "VM_OK"
    BY OperandTypes
  <2>5. CASE UNCHANGED <<sp, mem, status>>
    BY <1>1, <2>5 DEF StackStep, StackSpared
  <2>. QED  BY <1>2, <1>3, <2>1, <2>2, <2>3, <2>4, <2>5
<1>6. CASE FAS(i)
  <2>1. i.op = "FAS" /\ i.mode \in {"DIR", "IND", "IDX"}
    BY <1>6, StoringModes DEF FAS, Executes
  <2>2. UNCHANGED sp
    BY <1>6, FasStoresOne
  <2>3. ~InTheMemory(i.a)
    <3>1. InRange(i.a)
      BY <2>1, FetchedFas
    <3>. QED  BY <1>1, <3>1, Layout DEF InRange, InTheMemory
  <2>4. PICK v \in SlotWords(i.b) :
          \/ Fail(FasError(i, v))
          \/ \E w \in WordsInto(i.a, AddressOf(i, v)) : FasLoads(i, v, w)
    BY <1>6 DEF FAS
  <2>5. CASE Fail(FasError(i, v))
    <3>1. FasError(i, v) \in Harmless
      BY DEF FasError, Harmless, Statuses
    <3>. QED  BY <1>2, <2>5, <3>1
  <2>6. CASE \E w \in WordsInto(i.a, AddressOf(i, v)) : FasLoads(i, v, w)
    <3>1. PICK w \in WordsInto(i.a, AddressOf(i, v)) : FasLoads(i, v, w)
      BY <2>6
    <3>2. w \in Word /\ v \in Word
      BY <1>1, SlotWordsTypes DEF WordsInto
    <3>3. FasStores(i, v, w) \in Address
      BY <2>1, <3>2, FetchedRegister, AddressOfIsAddress DEF FasStores
    <3>4. MemoryAfter(i.a, w) = mem
      BY <2>3 DEF MemoryAfter
    <3>5. CASE Store(FasStores(i, v, w), 1) /\ UNCHANGED status
      BY <2>2, <3>3, <3>5, StorePokes DEF StackStep
    <3>6. CASE status' = "VM_ILL_MEM_ACCESS" /\ UNCHANGED mem
      BY <2>2, <3>6 DEF StackStep, StackSpared, Harmless, Statuses
    <3>. QED  BY <3>1, <3>4, <3>5, <3>6 DEF FasLoads, Store
  <2>. QED  BY <2>4, <2>5, <2>6
<1>. QED  BY <1>4, <1>5, <1>6

(* PUSH and POP refuse for the stack where it is full or empty, and there  *)
(* alone (instructions.c:1201-1248).                                       *)
LEMMA PushPopOnStack ==
  ASSUME Types, NEW i \in Fetched, PUSH(i) \/ POP(i)
  PROVE  StackStep
<1>1. i.a \in Nat /\ i.imm \in Word /\ sp \in Int /\ Registers
  BY FetchedTypes, Layout DEF Types, Pointers, Address
<1>2. CASE PUSH(i)
  <2>1. CASE PushError(i) = "VM_STACK_OVERFLOW" /\ Fail(PushError(i))
    <3>1. sp <= STACK_BASE
      BY <2>1 DEF PushError
    <3>. QED  BY <2>1, <3>1 DEF StackStep, StackOverflown, Fail, machine
  <2>2. CASE PushError(i) # "VM_STACK_OVERFLOW" /\ Fail(PushError(i))
    <3>1. PushError(i) \in Harmless
      BY <2>2 DEF PushError, Harmless, Statuses
    <3>. QED  BY <2>2, <3>1, FailSpares DEF StackStep
  <2>3. CASE PushError(i) = "VM_OK" /\ ~Fail(PushError(i))
    <3>1. STACK_BASE < sp /\ InRange(i.a)
      BY <1>1, <2>3, Layout DEF PushError
    <3>. DEFINE w == IF i.mode = "IMM" THEN i.imm ELSE regs[i.a]
    <3>2. sp' = Pushed /\ Store(Pushed, w) /\ UNCHANGED status
      BY <1>2, <2>3 DEF PUSH
    <3>3. w \in Int
      BY <1>1, <3>1, RegisterIsWord, Layout DEF Word
    <3>. QED  BY <3>1, <3>2, <3>3 DEF StackStep, StackPushed
  <2>. QED  BY <1>2, <2>1, <2>2, <2>3 DEF PUSH
<1>3. CASE POP(i)
  <2>1. CASE PopError(i) = "VM_STACK_UNDERFLOW" /\ Fail(PopError(i))
    <3>1. sp >= MEM_SIZE
      BY <2>1 DEF PopError, PopErrorAt
    <3>. QED  BY <2>1, <3>1 DEF StackStep, StackUnderflown, Fail, machine
  <2>2. CASE PopError(i) # "VM_STACK_UNDERFLOW" /\ Fail(PopError(i))
    <3>1. PopError(i) \in Harmless
      BY <2>2 DEF PopError, PopErrorAt, Harmless, Statuses
    <3>. QED  BY <2>2, <3>1, FailSpares DEF StackStep
  <2>3. CASE PopError(i) = "VM_OK" /\ ~Fail(PopError(i))
    <3>1. sp < MEM_SIZE
      BY <1>1, <2>3, Layout DEF PopError, PopErrorAt
    <3>. QED  BY <1>3, <2>3, <3>1 DEF POP, StackStep, StackPopped
  <2>. QED  BY <1>3, <2>1, <2>2, <2>3 DEF POP
<1>. QED  BY <1>2, <1>3

(* So do CALL and RTN (instructions.c:1304-1451).                          *)
LEMMA CallReturnOnStack ==
  ASSUME Types, NEW i \in Fetched, CALL(i) \/ RTN(i)
  PROVE  StackStep
<1>1. sp \in Int /\ pc + Size(i.mode) \in Int
  BY FetchedTypes, Layout DEF Types, Pointers, Address, Size, Modes
<1>2. "VM_ILL_MEM_ACCESS" \in Harmless
  BY DEF Harmless, Statuses
<1>3. CASE CALL(i)
  <2>1. PICK t \in CallTarget(i) :
          \/ t.status # "VM_OK" /\ Fail(t.status)
          \/ Fail("VM_ILL_MEM_ACCESS")
          \/ /\ t.status = "VM_OK" /\ sp' = Pushed
             /\ Store(Pushed, pc + Size(i.mode)) /\ UNCHANGED status
    BY <1>3 DEF CALL
  <2>2. t.status \in Harmless \/ (t.status = "VM_STACK_OVERFLOW" /\ sp <= STACK_BASE)
    <3>1. \/ sp <= STACK_BASE /\ t \in Error("VM_STACK_OVERFLOW")
          \/ t \in Error("VM_ILL_REGISTER")
          \/ \E w : t \in Target(i, w)
          \/ \E addr : t \in TargetIn(i, addr)
      BY DEF CallTarget
    <3>2. CASE t \in Error("VM_ILL_REGISTER")
      BY <3>2 DEF Error, Harmless, Statuses
    <3>3. CASE sp <= STACK_BASE /\ t \in Error("VM_STACK_OVERFLOW")
      BY <3>3 DEF Error
    <3>. QED  BY <3>1, <3>2, <3>3, TargetHarmless, TargetInHarmless
  <2>3. CASE Fail("VM_ILL_MEM_ACCESS")
    BY <1>2, <2>3, FailSpares DEF StackStep
  <2>4. CASE Fail(t.status)
    <3>1. CASE t.status \in Harmless
      BY <2>4, <3>1, FailSpares DEF StackStep
    <3>2. CASE t.status = "VM_STACK_OVERFLOW" /\ sp <= STACK_BASE
      BY <2>4, <3>2 DEF StackStep, StackOverflown, Fail, machine
    <3>. QED  BY <2>2, <3>1, <3>2
  <2>5. CASE /\ t.status = "VM_OK" /\ sp' = Pushed
             /\ Store(Pushed, pc + Size(i.mode)) /\ UNCHANGED status
    BY <1>1, <2>5, CallChecks DEF StackStep, StackPushed
  <2>. QED  BY <2>1, <2>3, <2>4, <2>5
<1>4. CASE RTN(i)
  <2>1. CASE sp >= MEM_SIZE /\ Fail("VM_STACK_UNDERFLOW")
    BY <2>1 DEF StackStep, StackUnderflown, Fail, machine
  <2>2. CASE sp < MEM_SIZE
    <3>1. PICK t \in ReturnTarget(i) :
            \/ Fail(t.status)
            \/ sp' = sp + WORD_SIZE /\ UNCHANGED <<mem, status>>
      BY <1>1, <1>4, <2>2, Layout DEF RTN
    <3>2. t.status \in Harmless
      <4>1. CASE InMemory(sp)
        BY <4>1, TargetInHarmless DEF ReturnTarget
      <4>2. CASE ~InMemory(sp)
        BY <4>2 DEF ReturnTarget, Error, Harmless, Statuses
      <4>. QED  BY <4>1, <4>2
    <3>3. CASE Fail(t.status)
      BY <3>2, <3>3, FailSpares DEF StackStep
    <3>4. CASE sp' = sp + WORD_SIZE /\ UNCHANGED <<mem, status>>
      BY <2>2, <3>4 DEF StackStep, StackPopped
    <3>. QED  BY <3>1, <3>3, <3>4
  <2>. QED  BY <1>4, <2>1, <2>2 DEF RTN
<1>. QED  BY <1>3, <1>4

(* Every other instruction leaves the stack alone, but RST, which empties  *)
(* it.                                                                     *)
LEMMA JumpOnStack ==
  ASSUME NEW i \in Fetched, Jump(i)
  PROVE  StackStep
<1>1. status = "VM_OK" /\ "VM_OK" \in Harmless
  BY DEF Jump, Executes, Steps, Harmless, Statuses
<1>2. CASE UNCHANGED <<sp, mem, status>>
  BY <1>1, <1>2 DEF StackStep, StackSpared
<1>3. CASE \E t \in JumpTarget(i) : Fail(t.status)
  <2>1. PICK t \in JumpTarget(i) : Fail(t.status)
    BY <1>3
  <2>2. \/ t \in Error("VM_ILL_REGISTER") \cup Error("VM_INVALID_JMP")
                   \cup Error("VM_ILL_MEM_ACCESS")
        \/ \E w : t \in Target(i, w)
        \/ \E addr : t \in TargetIn(i, addr)
    BY DEF JumpTarget
  <2>3. CASE t \in Error("VM_ILL_REGISTER") \cup Error("VM_INVALID_JMP")
                     \cup Error("VM_ILL_MEM_ACCESS")
    <3>1. t.status \in Harmless
      BY <2>3 DEF Error, Harmless, Statuses
    <3>. QED  BY <2>1, <3>1, FailSpares DEF StackStep
  <2>4. CASE (\E w : t \in Target(i, w)) \/ (\E addr : t \in TargetIn(i, addr))
    <3>1. t.status \in Harmless
      BY <2>4, TargetHarmless, TargetInHarmless
    <3>. QED  BY <2>1, <3>1, FailSpares DEF StackStep
  <2>. QED  BY <2>2, <2>3, <2>4
<1>. QED  BY <1>2, <1>3 DEF Jump

(* The instructions that neither store nor touch sp, and RST.              *)
LEMMA OthersOnStack ==
  ASSUME NEW i \in Fetched,
         \/ UnaryStep(i) \/ BinaryStep(i) \/ LD(i) \/ NOP(i) \/ RST(i) \/ HALT(i)
         \/ Truncated(i) \/ Unknown(i)
  PROVE  StackStep
<1>1. status = "VM_OK" /\ "VM_OK" \in Harmless
  BY DEF UnaryStep, BinaryStep, LD, NOP, RST, HALT, Truncated, Unknown,
         Executes, Steps, Harmless, Statuses
<1>2. CASE UNCHANGED <<sp, mem, status>>
  BY <1>1, <1>2 DEF StackStep, StackSpared
<1>3. ASSUME NEW e \in Harmless, Fail(e) PROVE StackStep
  BY <1>3, FailSpares DEF StackStep
<1>4. CASE UnaryStep(i)
  BY <1>2, <1>3, <1>4 DEF UnaryStep, Harmless, Statuses
<1>5. CASE BinaryStep(i)
  <2>1. \A v \in Operand(i) : BinaryError(i, v) \in Harmless
    <3>1. TAKE v \in Operand(i)
    <3>2. v.status \in Harmless
      BY OperandHarmless
    <3>. QED  BY <3>2 DEF BinaryError, Harmless, Statuses
  <2>. QED  BY <1>2, <1>3, <1>5, <2>1 DEF BinaryStep
<1>6. CASE LD(i)
  BY <1>2, <1>3, <1>6, OperandHarmless DEF LD
<1>7. CASE NOP(i) \/ HALT(i)
  BY <1>2, <1>7 DEF NOP, HALT
<1>8. CASE RST(i)
  BY <1>8 DEF RST, StackStep, StackReset
<1>9. CASE Truncated(i) \/ Unknown(i)
  BY <1>3, <1>9 DEF Truncated, Unknown, Harmless, Statuses
<1>. QED  BY <1>4, <1>5, <1>6, <1>7, <1>8, <1>9

(* Every step of the machine, then, is one of those, or changes nothing.   *)
LEMMA NextOnStack ==
  ASSUME FasRegistersExist, Types, Next
  PROVE  (Steps /\ StackStep) \/ UNCHANGED vars
<1>1. CASE \E i \in Fetched : Step(i)
  <2>1. PICK i \in Fetched : Step(i)
    BY <1>1
  <2>2. Steps
    BY <2>1 DEF Step, UnaryStep, BinaryStep, LD, ST, SWP, FAS, PUSH, POP, CALL,
                RTN, Jump, NOP, RST, HALT, Truncated, Unknown, Executes
  <2>. QED  BY <2>1, <2>2, MovesOnStack, PushPopOnStack, CallReturnOnStack,
               JumpOnStack, OthersOnStack DEF Step
<1>2. CASE OutOfCode \/ Undecoded
  <2>1. PICK e \in Harmless : Steps /\ Fail(e)
    BY <1>2 DEF OutOfCode, Undecoded, Harmless, Statuses
  <2>. QED  BY <2>1, FailSpares DEF StackStep
<1>3. CASE Exit
  BY <1>3 DEF Exit
<1>. QED  BY <1>1, <1>2, <1>3 DEF Next
----------------------------------------------------------------------------
(* Where a store goes.  (x - addr) % MOD, as the difference it is.         *)
Reaches(addr, x) == (x - addr) % MOD \in BytesOfWord

(* The distance from one address to another, around the last one.          *)
LEMMA AroundTheAddresses ==
  ASSUME NEW addr \in Address, NEW x \in 0..(MEM_SIZE - 1)
  PROVE  /\ addr \in Int /\ x \in Int
         /\ addr <= x => (x - addr) % MOD = x - addr
         /\ x < addr => (x - addr) % MOD = x - addr + MOD
<1>1. /\ addr \in Int /\ 0 <= addr /\ addr < MOD /\ MOD \in Nat
      /\ x \in Int /\ 0 <= x /\ x < MOD
  BY Layout DEF Address
<1>. DEFINE d == x - addr
<1>2. d \in Int /\ -MOD <= d /\ d < MOD
  BY <1>1
<1>3. \A n \in Int : \A m \in Nat : 0 <= n /\ n < m => n % m = n
  OBVIOUS
<1>4. \A n \in Int : \A m \in Nat : -m <= n /\ n < 0 => n % m = n + m
  OBVIOUS
<1>5. 0 <= d => d % MOD = d
  <2>. HIDE DEF d
  <2>. QED  BY <1>1, <1>2, <1>3
<1>6. d < 0 => d % MOD = d + MOD
  <2>. HIDE DEF d
  <2>. QED  BY <1>1, <1>2, <1>4
<1>. QED  BY <1>1, <1>5, <1>6

(* What one store reaches is near: less than a word apart.                 *)
LEMMA ReachIsShort ==
  ASSUME NEW addr \in Address,
         NEW x \in 0..(MEM_SIZE - 1), NEW y \in 0..(MEM_SIZE - 1),
         Reaches(addr, x), Reaches(addr, y)
  PROVE  x - y < WORD_SIZE
<1>1. /\ (x - addr) % MOD \in 0..(WORD_SIZE - 1)
      /\ (y - addr) % MOD \in 0..(WORD_SIZE - 1)
  BY DEF Reaches, BytesOfWord
<1>. DEFINE p == (x - addr) % MOD  q == (y - addr) % MOD
<1>2. p \in 0..(WORD_SIZE - 1) /\ q \in 0..(WORD_SIZE - 1)
  BY <1>1
<1>3. /\ addr \in Int /\ x \in Int /\ y \in Int
      /\ addr <= x => p = x - addr
      /\ x < addr => p = x - addr + MOD
      /\ addr <= y => q = y - addr
      /\ y < addr => q = y - addr + MOD
  BY AroundTheAddresses
<1>4. x < MEM_SIZE /\ 0 <= y
  BY Layout
<1>. HIDE DEF p, q
<1>. QED  BY <1>2, <1>3, <1>4, Layout

(* What it does not reach stays.                                           *)
LEMMA StoreReaches ==
  ASSUME NEW addr, NEW w \in Int, Store(addr, w), NEW x \in DOMAIN mem
  PROVE  /\ ~Reaches(addr, x) => mem'[x] = mem[x]
         /\ Reaches(addr, x) => /\ mem'[x] \in Byte
                                /\ mem'[x] = ByteOf(w, (x - addr) % MOD)
<1>1. mem'[x] = IF Reaches(addr, x) THEN ByteOf(w, (x - addr) % MOD) ELSE mem[x]
  BY DEF Store, StoredIn, Reaches
<1>2. ASSUME Reaches(addr, x) PROVE ByteOf(w, (x - addr) % MOD) \in Byte
  <2>. DEFINE j == (x - addr) % MOD
  <2>1. j \in Nat
    BY <1>2, Layout DEF Reaches, BytesOfWord
  <2>. HIDE DEF j
  <2>2. ByteOf(w, j) \in Byte
    BY <2>1, ByteIsByte
  <2>. QED  BY <2>2 DEF j
<1>. QED  BY <1>1, <1>2

----------------------------------------------------------------------------
(* The words of the stack, when there are k of them.                       *)
StackWord(m, n)  == [j \in BytesOfWord |-> m[MEM_SIZE - WORD_SIZE * n + j]]
StackOf(m, k)   == [n \in 1..k |-> StackWord(m, n)]

(* The stack segment holds bytes: none of the code, whose bytes the model  *)
(* keeps no value of.                                                      *)
StackBytes == \A x \in STACK_BASE..(MEM_SIZE - 1) : mem[x] \in Byte

StackInv == MachineInv /\ Types /\ StackBytes

(* sp is as many words below the end of the memory as the stack has.       *)
LEMMA Depth ==
  ASSUME NEW k \in Nat
  PROVE  (WORD_SIZE * k) \div WORD_SIZE = k
<1>1. \A w, n \in Nat : 0 < w => (w * n) \div w = n
  <2>. SUFFICES ASSUME NEW w \in Nat, NEW n \in Nat, 0 < w
                PROVE  (w * n) \div w = n
    OBVIOUS
  <2>. DEFINE q == (w * n) \div w
  <2>1. q \in Int /\ w * n \in Int
    OBVIOUS
  <2>2. w * q <= w * n /\ w * n < w * q + w
    OBVIOUS
  <2>. HIDE DEF q
  <2>3. ~(q < n)
    <3>1. q + 1 <= n => w * (q + 1) <= w * n
      BY <2>1
    <3>. QED  BY <2>1, <2>2, <3>1
  <2>4. ~(n < q)
    <3>1. n + 1 <= q => w * (n + 1) <= w * q
      BY <2>1
    <3>. QED  BY <2>1, <2>2, <3>1
  <2>. QED  BY <2>1, <2>3, <2>4 DEF q
<1>. QED  BY <1>1, Layout

(* How many words lie above sp.                                            *)
LEMMA DepthOf ==
  ASSUME NEW k \in Nat, NEW s, s = MEM_SIZE - WORD_SIZE * k
  PROVE  (MEM_SIZE - s) \div WORD_SIZE = k
<1>1. WORD_SIZE * k \in Nat
  BY Layout
<1>. DEFINE t == WORD_SIZE * k
<1>. HIDE DEF t
<1>2. \A m \in Nat : m - (m - t) = t
  BY <1>1 DEF t
<1>3. MEM_SIZE - s = WORD_SIZE * k
  BY <1>2, Layout DEF t
<1>. QED  BY <1>3, Depth

(* The words of the stack, by their number.                                *)
LEMMA StackIs ==
  ASSUME NEW k \in Nat
  PROVE  /\ sp = MEM_SIZE - WORD_SIZE * k => StackWords = StackOf(mem, k)
         /\ sp' = MEM_SIZE - WORD_SIZE * k => StackWords' = StackOf(mem', k)
BY DepthOf DEF StackWords, StackOf, StackWord
(* The bytes of the words lie between sp and the end of the memory.        *)
LEMMA PlaceOf ==
  ASSUME NEW k \in Nat, NEW n \in 1..k, NEW j \in BytesOfWord
  PROVE  /\ MEM_SIZE - WORD_SIZE * n + j \in Int
         /\ MEM_SIZE - WORD_SIZE * k <= MEM_SIZE - WORD_SIZE * n + j
         /\ MEM_SIZE - WORD_SIZE * n + j < MEM_SIZE
<1>1. \A w, a, b \in Nat : 1 <= a /\ a <= b => w <= w * a /\ w * a <= w * b
  OBVIOUS
<1>2. n \in Nat /\ 1 <= n /\ n <= k
  OBVIOUS
<1>. DEFINE p == WORD_SIZE * n  q == WORD_SIZE * k
<1>3. WORD_SIZE <= p /\ p <= q
  BY <1>1, <1>2, Layout
<1>4. p \in Nat /\ q \in Nat
  BY <1>2, Layout
<1>5. j \in Int /\ 0 <= j /\ j < WORD_SIZE
  BY Layout DEF BytesOfWord
<1>. HIDE DEF p, q
<1>6. /\ MEM_SIZE - p + j \in Int /\ MEM_SIZE - q <= MEM_SIZE - p + j
      /\ MEM_SIZE - p + j < MEM_SIZE
  BY <1>3, <1>4, <1>5, Layout
<1>. QED  BY <1>6 DEF p, q

(* They are a sequence of words.                                           *)
Element == [BytesOfWord -> Byte]

(* A stack of k words is a sequence of k words.                            *)
LEMMA StackTyped ==
  ASSUME NEW k \in Nat, NEW m,
         \A x \in Int : MEM_SIZE - WORD_SIZE * k <= x /\ x < MEM_SIZE
                          => m[x] \in Byte
  PROVE  /\ \A n \in 1..k : StackWord(m, n) \in Element
         /\ StackOf(m, k) \in Seq(Element) /\ Len(StackOf(m, k)) = k
         /\ StackOf(m, k) \in [1..k -> Element]
         /\ \A n \in 1..k : StackOf(m, k)[n] = StackWord(m, n)
<1>1. \A n \in 1..k : StackWord(m, n) \in Element
  <2>. TAKE n \in 1..k
  <2>1. \A j \in BytesOfWord : m[MEM_SIZE - WORD_SIZE * n + j] \in Byte
    BY PlaceOf
  <2>. QED  BY <2>1 DEF StackWord, Element
<1>2. StackOf(m, k) \in [1..k -> Element]
  BY <1>1 DEF StackOf
<1>3. StackOf(m, k) \in Seq(Element)
  BY <1>2, SeqDef
<1>4. Len(StackOf(m, k)) = k
  BY <1>2, <1>3
<1>. QED  BY <1>1, <1>2, <1>3, <1>4 DEF StackOf

(* The depth of the stack, and that of a full one.                         *)
LEMMA StackDepth ==
  ASSUME StackInv
  PROVE  \E k \in Nat : /\ sp = MEM_SIZE - WORD_SIZE * k /\ sp \in Int
                        /\ WORD_SIZE * k \in Nat /\ STACK_BASE <= sp
                        /\ \A x \in Int : sp <= x /\ x < MEM_SIZE => mem[x] \in Byte
                        /\ DOMAIN mem = 0..(MEM_SIZE - 1)
<1>1. PICK k \in 0..MEM_SIZE : sp = MEM_SIZE - WORD_SIZE * k
  BY DEF StackInv, MachineInv, StackBounds
<1>2. k \in Nat
  BY Layout
<1>3. WORD_SIZE * k \in Nat
  BY <1>2, Layout
<1>4. STACK_BASE <= sp /\ sp \in Int /\ DOMAIN mem = 0..(MEM_SIZE - 1)
  BY <1>1, <1>3, Layout DEF StackInv, MachineInv, StackBounds
<1>5. \A x \in Int : sp <= x /\ x < MEM_SIZE => mem[x] \in Byte
  <2>. SUFFICES ASSUME NEW x \in Int, sp <= x, x < MEM_SIZE PROVE mem[x] \in Byte
    OBVIOUS
  <2>1. x \in STACK_BASE..(MEM_SIZE - 1)
    BY <1>4, Layout
  <2>. QED  BY <2>1 DEF StackInv, StackBytes
<1>. QED  BY <1>1, <1>2, <1>3, <1>4, <1>5

(* The invariant.  A store leaves bytes, and so does a reset.              *)
LEMMA StepBytes ==
  ASSUME StackInv, StackStep
  PROVE  StackBytes'
<1>1. StackBytes /\ DOMAIN mem = 0..(MEM_SIZE - 1)
  BY DEF StackInv, MachineInv
<1>2. CASE UNCHANGED mem
  BY <1>1, <1>2 DEF StackBytes
<1>3. CASE \E addr : \E w \in Int : Store(addr, w)
  <2>1. PICK addr : \E w \in Int : Store(addr, w)
    BY <1>3
  <2>2. PICK w \in Int : Store(addr, w)
    BY <2>1
  <2>. SUFFICES ASSUME NEW x \in STACK_BASE..(MEM_SIZE - 1) PROVE mem'[x] \in Byte
    BY DEF StackBytes
  <2>3. x \in DOMAIN mem /\ mem[x] \in Byte
    BY <1>1, Layout DEF StackBytes
  <2>. QED  BY <2>2, <2>3, StoreReaches
<1>4. CASE mem' = [x \in 0..(MEM_SIZE - 1) |-> 0]
  <2>1. 0 \in Byte
    BY Widths DEF Byte
  <2>. QED  BY <1>4, <2>1, Layout DEF StackBytes
<1>. QED  BY <1>2, <1>3, <1>4
          DEF StackStep, StackSpared, StackPoked, StackPushed, StackPopped,
              StackOverflown, StackUnderflown, StackReset

(* The invariant of the refinement is inductive,                           *)
LEMMA StackInvKept ==
  ASSUME FasRegistersExist, StackInv, [Next]_vars
  PROVE  StackInv'
<1>1. MachineInv' /\ Types'
  BY NextInv, NextTypes DEF StackInv
<1>2. CASE UNCHANGED vars
  BY <1>1, <1>2 DEF vars, StackInv, StackBytes
<1>3. CASE Next
  <2>1. StackStep \/ UNCHANGED vars
    BY <1>3, NextOnStack DEF StackInv
  <2>. QED  BY <1>1, <1>2, <2>1, StepBytes DEF StackInv
<1>. QED  BY <1>2, <1>3

(* and holds of the loaded machine (loader.c:40-56).                       *)
LEMMA StackInvInit == Init => StackInv
<1>. SUFFICES ASSUME Init PROVE StackInv
  OBVIOUS
<1>1. StackBytes
  <2>1. /\ 0 \in Byte
        /\ \A x \in STACK_BASE..(MEM_SIZE - 1) : ~(x < DATA_BASE) /\ ~(x < HEAP_BASE)
    BY Layout, Widths, MachineAssumption DEF Byte
  <2>. QED  BY <2>1, Layout DEF Init, LoadedMemory, StackBytes
<1>. QED  BY <1>1, InitInv, InitTypes DEF StackInv
----------------------------------------------------------------------------
(* The steps of the bounded stack.                                         *)
LEMMA EmptyStack ==
  ASSUME NEW m
  PROVE  StackOf(m, 0) = <<>>
<1>1. StackOf(m, 0) \in [1..0 -> Element]
  BY DEF StackOf
<1>2. StackOf(m, 0) \in Seq(Element) /\ Len(StackOf(m, 0)) = 0
  BY <1>1, SeqDef
<1>. QED  BY <1>2, EmptySeq

(* A store leaves all the words below the top but two next to each other   *)
(* (memory.c:23-32).                                                       *)
LEMMA NearWords ==
  ASSUME NEW addr \in Address, NEW k \in Nat, WORD_SIZE * k <= MEM_SIZE,
         NEW n \in 1..k, NEW l \in 1..k,
         \E j \in BytesOfWord : Reaches(addr, MEM_SIZE - WORD_SIZE * n + j),
         \E j \in BytesOfWord : Reaches(addr, MEM_SIZE - WORD_SIZE * l + j)
  PROVE  l <= n + 1
<1>1. PICK i \in BytesOfWord : Reaches(addr, MEM_SIZE - WORD_SIZE * n + i)
  OBVIOUS
<1>2. PICK j \in BytesOfWord : Reaches(addr, MEM_SIZE - WORD_SIZE * l + j)
  OBVIOUS
<1>. DEFINE x == MEM_SIZE - WORD_SIZE * n + i
            y == MEM_SIZE - WORD_SIZE * l + j
<1>3. WORD_SIZE * k \in Nat
  BY Layout
<1>4. x \in 0..(MEM_SIZE - 1) /\ y \in 0..(MEM_SIZE - 1)
  <2>1. /\ x \in Int /\ MEM_SIZE - WORD_SIZE * k <= x /\ x < MEM_SIZE
        /\ y \in Int /\ MEM_SIZE - WORD_SIZE * k <= y /\ y < MEM_SIZE
    BY PlaceOf
  <2>. HIDE DEF x, y
  <2>. QED  BY <1>3, <2>1, Layout
<1>5. x - y < WORD_SIZE
  <2>1. Reaches(addr, x) /\ Reaches(addr, y)
    BY <1>1, <1>2
  <2>. HIDE DEF x, y
  <2>. QED  BY <1>4, <2>1, ReachIsShort
<1>6. ASSUME n + 2 <= l PROVE FALSE
  <2>1. \A w, a, b \in Nat : a + 2 <= b => w * a + w + w <= w * b
    <3>. SUFFICES ASSUME NEW w \in Nat, NEW a \in Nat, NEW b \in Nat, a + 2 <= b
                  PROVE  w * a + w + w <= w * b
      OBVIOUS
    <3>1. w * (a + 2) <= w * b
      OBVIOUS
    <3>2. w * (a + 2) = w * a + w + w
      OBVIOUS
    <3>. QED  BY <3>1, <3>2
  <2>. DEFINE p == WORD_SIZE * n  q == WORD_SIZE * l
  <2>2. p + WORD_SIZE + WORD_SIZE <= q /\ p \in Nat /\ q \in Nat
    BY <1>6, <2>1, Layout
  <2>3. i \in Int /\ 0 <= i /\ j \in Int /\ j < WORD_SIZE
    BY Layout DEF BytesOfWord
  <2>4. (MEM_SIZE - p + i) - (MEM_SIZE - q + j) < WORD_SIZE
    BY <1>5 DEF x, y, p, q
  <2>. HIDE DEF p, q
  <2>. QED  BY <2>2, <2>3, <2>4, Layout
<1>. QED  BY <1>6

(* A store that reaches no byte of a word of the stack leaves it.          *)
LEMMA WordKept ==
  ASSUME StackInv, NEW addr \in Address, NEW w \in Int, Store(addr, w),
         NEW k \in Nat, sp = MEM_SIZE - WORD_SIZE * k, NEW n \in 1..k,
         ~\E j \in BytesOfWord : Reaches(addr, MEM_SIZE - WORD_SIZE * n + j)
  PROVE  StackWord(mem', n) = StackWord(mem, n)
<1>1. DOMAIN mem = 0..(MEM_SIZE - 1) /\ sp \in Int /\ 0 <= sp
  BY StackDepth, Layout
<1>2. ASSUME NEW j \in BytesOfWord
      PROVE  mem'[MEM_SIZE - WORD_SIZE * n + j] = mem[MEM_SIZE - WORD_SIZE * n + j]
  <2>. DEFINE x == MEM_SIZE - WORD_SIZE * n + j
  <2>1. x \in Int /\ sp <= x /\ x < MEM_SIZE
    BY PlaceOf
  <2>2. ~Reaches(addr, x)
    BY <1>2
  <2>. HIDE DEF x
  <2>3. x \in DOMAIN mem
    BY <1>1, <2>1, Layout
  <2>4. mem'[x] = mem[x]
    BY <2>2, <2>3, StoreReaches
  <2>. QED  BY <2>4 DEF x
<1>. QED  BY <1>2 DEF StackWord

(* A store reaches the bytes of at most two neighbouring words: it is a    *)
(* Poke of the bounded stack.                                              *)
LEMMA PokeImplements ==
  ASSUME StackInv, StackInv', Steps, StackPoked
  PROVE  AbstractStack!Poke \/ UNCHANGED <<StackWords, Refused>>
<1>1. PICK addr \in Address, w \in Int : Store(addr, w)
  BY DEF StackPoked
<1>2. PICK k \in Nat : /\ sp = MEM_SIZE - WORD_SIZE * k /\ sp \in Int
                       /\ WORD_SIZE * k \in Nat /\ STACK_BASE <= sp
                       /\ \A x \in Int : sp <= x /\ x < MEM_SIZE => mem[x] \in Byte
  BY StackDepth
<1>3. sp' = MEM_SIZE - WORD_SIZE * k /\ Refused = "nothing" /\ Refused' = "nothing"
  BY <1>2 DEF StackPoked, Refused, Steps
<1>4. WORD_SIZE * k <= MEM_SIZE
  BY <1>2, Layout
<1>5. \A x \in Int : sp <= x /\ x < MEM_SIZE => mem'[x] \in Byte
  <2>. SUFFICES ASSUME NEW x \in Int, sp <= x, x < MEM_SIZE PROVE mem'[x] \in Byte
    OBVIOUS
  <2>1. x \in STACK_BASE..(MEM_SIZE - 1)
    BY <1>2, Layout
  <2>. QED  BY <2>1 DEF StackInv, StackBytes
<1>6. StackWords = StackOf(mem, k) /\ StackWords' = StackOf(mem', k)
  BY <1>2, <1>3, StackIs
<1>7. /\ StackOf(mem, k) \in Seq(Element) /\ Len(StackOf(mem, k)) = k
      /\ StackOf(mem, k) \in [1..k -> Element]
      /\ \A n \in 1..k : StackOf(mem, k)[n] = StackWord(mem, n)
  BY <1>2, StackTyped
<1>8. /\ StackOf(mem', k) \in [1..k -> Element]
      /\ \A n \in 1..k : StackOf(mem', k)[n] = StackWord(mem', n)
  BY <1>2, <1>5, StackTyped
<1>. DEFINE Hit(n) == \E j \in BytesOfWord : Reaches(addr, MEM_SIZE - WORD_SIZE * n + j)
<1>9. \A n \in 1..k : ~Hit(n) => StackOf(mem', k)[n] = StackOf(mem, k)[n]
  BY <1>1, <1>2, <1>7, <1>8, WordKept
<1>10. \A n, l \in 1..k : Hit(n) /\ Hit(l) => l <= n + 1
  BY <1>4, NearWords
<1>. HIDE DEF Hit
<1>11. CASE k = 0
  <2>1. StackOf(mem, 0) = <<>> /\ StackOf(mem', 0) = <<>>
    BY EmptyStack
  <2>. QED  BY <1>3, <1>6, <1>11, <2>1
<1>12. CASE k # 0
  <2>1. \E n \in 1..k : \A l \in 1..k \ {n, n + 1} : ~Hit(l)
    <3>1. CASE \A n \in 1..k : ~Hit(n)
      BY <1>12, <3>1
    <3>2. CASE \E n \in 1..k : Hit(n)
      <4>1. PICK n \in 1..k : Hit(n)
        BY <3>2
      <4>2. CASE n - 1 \in 1..k /\ Hit(n - 1)
        <5>1. \A l \in 1..k : Hit(l) => l \in {n - 1, (n - 1) + 1}
          BY <1>10, <4>1, <4>2
        <5>. QED  BY <4>2, <5>1
      <4>3. CASE ~(n - 1 \in 1..k /\ Hit(n - 1))
        <5>1. \A l \in 1..k : Hit(l) => l \in {n, n + 1}
          BY <1>10, <4>1, <4>3
        <5>. QED  BY <4>1, <5>1
      <4>. QED  BY <4>2, <4>3
    <3>. QED  BY <3>1, <3>2
  <2>2. \E n \in 1..k : \A l \in 1..k \ {n, n + 1} :
          StackOf(mem', k)[l] = StackOf(mem, k)[l]
    BY <1>9, <2>1
  <2>3. AbstractStack!Poke
    BY <1>3, <1>6, <1>7, <1>8, <2>2 DEF AbstractStack!Poke, Element
  <2>. QED  BY <2>3
<1>. QED  BY <1>11, <1>12
(* A full stack is as many words deep as the segment has.                  *)
LEMMA FullDepth ==
  ASSUME NEW k \in Nat, sp = MEM_SIZE - WORD_SIZE * k, STACK_BASE <= sp
  PROVE  LET c == (MEM_SIZE - STACK_BASE) \div WORD_SIZE
         IN  (STACK_BASE < sp => k < c) /\ (sp = STACK_BASE => k = c)
<1>1. PICK c \in 1..MEM_SIZE : MEM_SIZE - STACK_BASE = WORD_SIZE * c
  BY MachineAssumption
<1>2. c \in Nat /\ WORD_SIZE * c \in Nat /\ WORD_SIZE * k \in Nat
  BY <1>1, Layout
<1>3. STACK_BASE = MEM_SIZE - WORD_SIZE * c
  BY <1>1, <1>2, Layout
<1>4. (MEM_SIZE - STACK_BASE) \div WORD_SIZE = c
  BY <1>2, <1>3, DepthOf
<1>5. STACK_BASE < sp => k < c
  <2>1. STACK_BASE < sp => WORD_SIZE * k < WORD_SIZE * c
    BY <1>2, <1>3, Layout
  <2>. QED  BY <1>2, <2>1, Layout, WordSteps
<1>6. sp = STACK_BASE => k = c
  <2>1. (MEM_SIZE - sp) \div WORD_SIZE = k
    BY DepthOf
  <2>. QED  BY <1>4, <2>1
<1>. QED  BY <1>4, <1>5, <1>6

(* A push puts a word on top (instructions.c:1208-1209, 1311-1313).        *)
LEMMA PushImplements ==
  ASSUME StackInv, StackInv', Steps, StackPushed
  PROVE  AbstractStack!Push
<1>1. PICK w \in Int : Store(Pushed, w)
  BY DEF StackPushed
<1>2. PICK k \in Nat : /\ sp = MEM_SIZE - WORD_SIZE * k /\ sp \in Int
                       /\ WORD_SIZE * k \in Nat /\ STACK_BASE <= sp
                       /\ \A x \in Int : sp <= x /\ x < MEM_SIZE => mem[x] \in Byte
                       /\ DOMAIN mem = 0..(MEM_SIZE - 1)
  BY StackDepth
<1>3. Refused = "nothing" /\ Refused' = "nothing"
  BY DEF StackPushed, Refused, Steps
<1>4. Pushed = sp - WORD_SIZE /\ STACK_BASE <= Pushed
  BY PushStays DEF StackPushed, StackInv, MachineInv
<1>5. sp' = MEM_SIZE - WORD_SIZE * (k + 1)
  <2>1. WORD_SIZE * (k + 1) = WORD_SIZE * k + WORD_SIZE
    <3>1. \A a, b \in Nat : a * (b + 1) = a * b + a
      OBVIOUS
    <3>. QED  BY <3>1, Layout
  <2>. DEFINE p == WORD_SIZE * k
  <2>2. sp' = MEM_SIZE - p - WORD_SIZE /\ p \in Nat
    BY <1>2, <1>4 DEF StackPushed
  <2>. HIDE DEF p
  <2>3. sp' = MEM_SIZE - (p + WORD_SIZE)
    BY <2>2, Layout
  <2>. QED  BY <2>1, <2>3 DEF p
<1>6. Pushed \in Address /\ Pushed \in Int
  BY <1>2, <1>4, Layout DEF Address
<1>7. \A x \in Int : sp' <= x /\ x < MEM_SIZE => mem'[x] \in Byte
  <2>. SUFFICES ASSUME NEW x \in Int, sp' <= x, x < MEM_SIZE PROVE mem'[x] \in Byte
    OBVIOUS
  <2>1. x \in STACK_BASE..(MEM_SIZE - 1)
    BY <1>4, <1>6, Layout DEF StackPushed
  <2>. QED  BY <2>1 DEF StackInv, StackBytes
<1>8. StackWords = StackOf(mem, k) /\ StackWords' = StackOf(mem', k + 1)
  <2>1. k + 1 \in Nat
    OBVIOUS
  <2>. QED  BY <1>2, <1>5, <2>1, StackIs
<1>9. /\ StackOf(mem, k) \in Seq(Element) /\ Len(StackOf(mem, k)) = k
      /\ \A n \in 1..k : StackOf(mem, k)[n] = StackWord(mem, n)
  BY <1>2, StackTyped
<1>10. /\ \A n \in 1..(k + 1) : StackWord(mem', n) \in Element
       /\ StackOf(mem', k + 1) \in Seq(Element) /\ Len(StackOf(mem', k + 1)) = k + 1
       /\ \A n \in 1..(k + 1) : StackOf(mem', k + 1)[n] = StackWord(mem', n)
  <2>1. k + 1 \in Nat
    OBVIOUS
  <2>. QED  BY <1>5, <1>7, <2>1, StackTyped
<1>11. \A n \in 1..k : StackWord(mem', n) = StackWord(mem, n)
  <2>. TAKE n \in 1..k
  <2>1. ~\E j \in BytesOfWord : Reaches(Pushed, MEM_SIZE - WORD_SIZE * n + j)
    <3>. SUFFICES ASSUME NEW j \in BytesOfWord,
                         Reaches(Pushed, MEM_SIZE - WORD_SIZE * n + j)
                  PROVE  FALSE
      OBVIOUS
    <3>. DEFINE x == MEM_SIZE - WORD_SIZE * n + j
    <3>1. x \in Int /\ sp <= x /\ x < MEM_SIZE /\ Reaches(Pushed, x)
      BY <1>2, PlaceOf
    <3>. HIDE DEF x
    <3>2. x \in 0..(MEM_SIZE - 1) /\ Pushed <= x
      BY <1>2, <1>4, <1>6, <3>1, Layout
    <3>3. (x - Pushed) % MOD = x - Pushed
      BY <1>6, <3>2, AroundTheAddresses
    <3>4. x - Pushed < WORD_SIZE
      BY <3>1, <3>3, <1>6, Layout DEF Reaches, BytesOfWord
    <3>. QED  BY <1>2, <1>4, <3>1, <3>4, Layout
  <2>. QED  BY <1>1, <1>2, <1>6, <2>1, WordKept
<1>. DEFINE top == StackWord(mem', k + 1)
<1>12. top \in Element
  <2>1. k + 1 \in 1..(k + 1)
    OBVIOUS
  <2>. QED  BY <1>10, <2>1
<1>13. StackOf(mem', k + 1) = Append(StackOf(mem, k), top)
  <2>. DEFINE s == StackOf(mem', k + 1)  t == StackOf(mem, k)
  <2>1. /\ Append(t, top) \in Seq(Element) /\ Len(Append(t, top)) = k + 1
        /\ \A n \in 1..k : Append(t, top)[n] = t[n]
        /\ Append(t, top)[k + 1] = top
    <3>1. t \in Seq(Element) /\ Len(t) = k
      BY <1>9
    <3>. HIDE DEF t, top
    <3>. QED  BY <1>12, <3>1, AppendProperties
  <2>2. \A n \in 1..k : s[n] = t[n]
    <3>. TAKE n \in 1..k
    <3>1. n \in 1..(k + 1)
      OBVIOUS
    <3>. QED  BY <1>9, <1>10, <1>11, <3>1
  <2>3. s[k + 1] = top
    <3>1. k + 1 \in 1..(k + 1)
      OBVIOUS
    <3>. QED  BY <1>10, <3>1
  <2>4. s \in Seq(Element) /\ Len(s) = k + 1
    BY <1>10
  <2>. HIDE DEF s, t, top
  <2>5. \A n \in 1..(k + 1) : s[n] = Append(t, top)[n]
    <3>. TAKE n \in 1..(k + 1)
    <3>1. n \in 1..k \/ n = k + 1
      OBVIOUS
    <3>. QED  BY <2>1, <2>2, <2>3, <3>1
  <2>6. s = Append(t, top)
    BY <2>1, <2>4, <2>5, SeqEqual
  <2>. QED  BY <2>6 DEF s, t, top
<1>14. k < (MEM_SIZE - STACK_BASE) \div WORD_SIZE
  BY <1>2, FullDepth DEF StackPushed
<1>. HIDE DEF top
<1>. QED  BY <1>3, <1>8, <1>9, <1>12, <1>13, <1>14 DEF AbstractStack!Push, Element

(* A pop takes the top away (instructions.c:1244-1246, 1446-1448).         *)
LEMMA PopImplements ==
  ASSUME StackInv, Steps, StackPopped
  PROVE  AbstractStack!Pop
<1>1. PICK k \in Nat : /\ sp = MEM_SIZE - WORD_SIZE * k /\ sp \in Int
                       /\ WORD_SIZE * k \in Nat /\ STACK_BASE <= sp
                       /\ \A x \in Int : sp <= x /\ x < MEM_SIZE => mem[x] \in Byte
                       /\ DOMAIN mem = 0..(MEM_SIZE - 1)
  BY StackDepth
<1>2. Refused = "nothing" /\ Refused' = "nothing" /\ mem' = mem
  BY DEF StackPopped, Refused, Steps
<1>3. k # 0
  BY <1>1, Layout DEF StackPopped
<1>4. k - 1 \in Nat
  BY <1>3
<1>5. sp' = MEM_SIZE - WORD_SIZE * (k - 1)
  <2>1. \A a, b \in Nat : b # 0 => a * (b - 1) = a * b - a
    OBVIOUS
  <2>2. WORD_SIZE * (k - 1) = WORD_SIZE * k - WORD_SIZE
    BY <1>3, <2>1, Layout
  <2>. DEFINE p == WORD_SIZE * k
  <2>3. sp' = MEM_SIZE - p + WORD_SIZE /\ p \in Nat
    BY <1>1 DEF StackPopped
  <2>. HIDE DEF p
  <2>4. sp' = MEM_SIZE - (p - WORD_SIZE)
    BY <2>3, Layout
  <2>. QED  BY <2>2, <2>4 DEF p
<1>6. \A x \in Int : sp' <= x /\ x < MEM_SIZE => mem[x] \in Byte
  <2>1. sp' = sp + WORD_SIZE
    BY DEF StackPopped
  <2>2. \A x \in Int : sp + WORD_SIZE <= x => sp <= x
    BY <1>1, Layout
  <2>. QED  BY <1>1, <2>1, <2>2
<1>7. StackWords = StackOf(mem, k) /\ StackWords' = StackOf(mem, k - 1)
  BY <1>1, <1>2, <1>4, <1>5, StackIs
<1>8. /\ StackOf(mem, k) \in Seq(Element) /\ Len(StackOf(mem, k)) = k
      /\ \A n \in 1..k : StackOf(mem, k)[n] = StackWord(mem, n)
  BY <1>1, StackTyped
<1>9. /\ StackOf(mem, k - 1) \in Seq(Element) /\ Len(StackOf(mem, k - 1)) = k - 1
      /\ \A n \in 1..(k - 1) : StackOf(mem, k - 1)[n] = StackWord(mem, n)
  BY <1>4, <1>5, <1>6, StackTyped
<1>10. StackOf(mem, k - 1) = SubSeq(StackOf(mem, k), 1, k - 1)
  <2>. DEFINE s == StackOf(mem, k - 1)  t == StackOf(mem, k)
  <2>1. \A n \in 1..(k - 1) : s[n] = t[n]
    <3>. TAKE n \in 1..(k - 1)
    <3>1. n \in 1..k
      BY <1>4
    <3>. QED  BY <1>8, <1>9, <3>1
  <2>2. s \in Seq(Element) /\ Len(s) = k - 1 /\ t \in Seq(Element) /\ Len(t) = k
    BY <1>8, <1>9
  <2>. HIDE DEF s, t
  <2>3. /\ SubSeq(t, 1, k - 1) \in Seq(Element) /\ Len(SubSeq(t, 1, k - 1)) = k - 1
        /\ \A n \in 1..(k - 1) : SubSeq(t, 1, k - 1)[n] = t[n]
    BY <1>4, <2>2
  <2>4. s = SubSeq(t, 1, k - 1)
    BY <2>1, <2>2, <2>3, SeqEqual
  <2>. QED  BY <2>4 DEF s, t
<1>11. StackOf(mem, k) # <<>>
  BY <1>3, <1>8
<1>. QED  BY <1>2, <1>7, <1>8, <1>10, <1>11 DEF AbstractStack!Pop

(* The steps that do not change the words, or take them all.               *)
LEMMA OtherStackSteps ==
  ASSUME StackInv, Steps, StackSpared \/ StackOverflown \/ StackUnderflown \/ StackReset
  PROVE  [AbstractStack!Next]_<<StackWords, Refused>>
<1>1. PICK k \in Nat : /\ sp = MEM_SIZE - WORD_SIZE * k /\ sp \in Int
                       /\ WORD_SIZE * k \in Nat /\ STACK_BASE <= sp
                       /\ \A x \in Int : sp <= x /\ x < MEM_SIZE => mem[x] \in Byte
  BY StackDepth
<1>2. Refused = "nothing" /\ StackWords = StackOf(mem, k) /\ Len(StackWords) = k
  BY <1>1, StackIs, StackTyped DEF Refused, Steps
<1>3. CASE StackSpared \/ StackOverflown \/ StackUnderflown
  <2>1. StackWords' = StackWords
    BY <1>3 DEF StackWords, StackSpared, StackOverflown, StackUnderflown
  <2>2. CASE StackSpared
    <3>1. Refused' = "nothing"
      BY <2>2 DEF StackSpared, Harmless, Refused
    <3>. QED  BY <1>2, <2>1, <3>1
  <2>3. CASE StackOverflown
    <3>1. sp = STACK_BASE
      BY <1>1, <2>3, Layout DEF StackOverflown
    <3>2. k = (MEM_SIZE - STACK_BASE) \div WORD_SIZE
      BY <1>1, <3>1, FullDepth
    <3>3. Refused' = "push"
      BY <2>3 DEF StackOverflown, Refused
    <3>4. AbstractStack!RefusePush
      BY <1>2, <2>1, <3>2, <3>3 DEF AbstractStack!RefusePush
    <3>. QED  BY <3>4 DEF AbstractStack!Next
  <2>4. CASE StackUnderflown
    <3>1. k = 0
      <4>1. \A a, b \in Nat : 0 < a /\ b # 0 => 0 < a * b
        OBVIOUS
      <4>2. ~(0 < WORD_SIZE * k)
        BY <1>1, <2>4, Layout DEF StackUnderflown
      <4>. QED  BY <4>1, <4>2, Layout
    <3>2. StackWords = <<>>
      BY <1>2, <3>1, EmptyStack
    <3>3. Refused' = "pop"
      BY <2>4 DEF StackUnderflown, Refused
    <3>4. AbstractStack!RefusePop
      BY <1>2, <2>1, <3>2, <3>3 DEF AbstractStack!RefusePop
    <3>. QED  BY <3>4 DEF AbstractStack!Next
  <2>. QED  BY <1>3, <2>2, <2>3, <2>4
<1>4. CASE StackReset
  <2>1. sp' = MEM_SIZE - WORD_SIZE * 0
    BY <1>4, Layout DEF StackReset
  <2>2. StackWords' = StackOf(mem', 0)
    BY <2>1, StackIs
  <2>3. StackWords' = <<>> /\ Refused' = "nothing"
    BY <1>4, <2>2, EmptyStack DEF StackReset, Refused, Steps
  <2>4. AbstractStack!Reset
    BY <1>2, <2>3 DEF AbstractStack!Reset
  <2>. QED  BY <2>4 DEF AbstractStack!Next
<1>. QED  BY <1>3, <1>4

(* The stack segment is a bounded stack, for every word size, memory and   *)
(* program whose FAS load into registers that exist: words come out last in*)
(* first out and as they went in unless an instruction stores into their   *)
(* memory, a push is refused for overflow where the segment is full and    *)
(* there alone, and a pop for underflow where it is empty and there alone  *)
(* (instructions.c:1201-1451).                                             *)
THEOREM StackImplementsBoundedStack ==
  FasRegistersExist => (Spec => ImplementsBoundedStack)
<1>. SUFFICES ASSUME FasRegistersExist PROVE Spec => ImplementsBoundedStack
  OBVIOUS
<1>1. Init => AbstractStack!Init
  <2>. SUFFICES ASSUME Init PROVE AbstractStack!Init
    OBVIOUS
  <2>1. sp = MEM_SIZE - WORD_SIZE * 0
    BY Layout DEF Init, Cleared
  <2>2. StackWords = StackOf(mem, 0)
    BY <2>1, StackIs
  <2>3. StackWords = <<>> /\ Refused = "nothing"
    BY <2>2, EmptyStack DEF Init, Refused
  <2>. QED  BY <2>3 DEF AbstractStack!Init
<1>2. StackInv /\ [Next]_vars => StackInv'
  BY StackInvKept
<1>3. StackInv /\ StackInv' /\ [Next]_vars
        => [AbstractStack!Next]_<<StackWords, Refused>>
  <2>. SUFFICES ASSUME StackInv, StackInv', [Next]_vars
                PROVE  [AbstractStack!Next]_<<StackWords, Refused>>
    OBVIOUS
  <2>1. CASE UNCHANGED vars
    BY <2>1 DEF vars, StackWords, Refused
  <2>2. CASE Steps /\ StackStep
    BY <2>2, PokeImplements, PushImplements, PopImplements, OtherStackSteps
       DEF StackStep, AbstractStack!Next
  <2>. QED  BY <2>1, <2>2, NextOnStack DEF StackInv
<1>. QED  BY <1>1, <1>2, <1>3, StackInvInit, PTL
          DEF Spec, ImplementsBoundedStack, AbstractStack!Spec

----------------------------------------------------------------------------
(* The processor with its syscalls.                                        *)

(* The handler of a syscall returns after k pops, memory has the size it   *)
(* had, and unless all went well nothing is written.                       *)
Popped(k) ==
  /\ Poppable(k)
  /\ \E w, e : Returns(k, w, e) /\ (e # "VM_OK" => Quiet)
  /\ DOMAIN mem' = DOMAIN mem

Pops == \E k \in 0..3 : Popped(k)

(* k words of the stack can be popped: above them is still the stack.      *)
LEMMA TopsStay ==
  ASSUME StackBounds, NEW k \in 0..3, Poppable(k)
  PROVE  InStack(Top(k + 1))
<1>1. sp \in Int
  <2>1. PICK j \in 0..MEM_SIZE : sp = MEM_SIZE - WORD_SIZE * j
    BY DEF StackBounds
  <2>2. WORD_SIZE * j \in Int
    BY Layout
  <2>. QED  BY <2>1, <2>2, Layout
<1>2. /\ Top(1) = sp /\ Top(2) = Top(1) + WORD_SIZE
      /\ Top(3) = Top(2) + WORD_SIZE /\ Top(4) = Top(3) + WORD_SIZE
  <2>1. /\ WORD_SIZE * (1 - 1) = 0 /\ WORD_SIZE * (2 - 1) = WORD_SIZE
        /\ WORD_SIZE * (3 - 1) = WORD_SIZE + WORD_SIZE
        /\ WORD_SIZE * (4 - 1) = WORD_SIZE + WORD_SIZE + WORD_SIZE
    BY Layout
  <2>. QED  BY <1>1, <2>1, Layout DEF Top
<1>3. \A j \in 1..k : Top(j) < MEM_SIZE
  <2>. SUFFICES ASSUME NEW j \in 1..k PROVE Top(j) < MEM_SIZE
    OBVIOUS
  <2>1. PopErrorAt(Top(j), 0) = "VM_OK"
    BY DEF Poppable, PopStatus
  <2>2. ~(Top(j) >= MEM_SIZE)
    BY <2>1 DEF PopErrorAt
  <2>3. WORD_SIZE * (j - 1) \in Int
    BY Layout
  <2>4. Top(j) \in Int
    BY <1>1, <2>3 DEF Top
  <2>. QED  BY <2>2, <2>4, Layout
<1>4. InStack(Top(1))
  BY <1>2 DEF StackBounds, InStack
<1>5. k >= 1 => InStack(Top(2))
  BY <1>2, <1>3, <1>4, WordsAbove
<1>6. k >= 2 => InStack(Top(3))
  BY <1>2, <1>3, <1>5, WordsAbove
<1>7. k >= 3 => InStack(Top(4))
  BY <1>2, <1>3, <1>6, WordsAbove
<1>8. k = 0 \/ k = 1 \/ k = 2 \/ k = 3
  OBVIOUS
<1>. QED  BY <1>4, <1>5, <1>6, <1>7, <1>8

(* So a syscall that pops keeps sp in the stack segment.                   *)
LEMMA PopsInv ==
  ASSUME StackBounds, Pops
  PROVE  StackBounds'
<1>1. PICK k \in 0..3 : Popped(k)
  BY DEF Pops
<1>2. InStack(sp')
  BY <1>1, TopsStay DEF Popped, Returns
<1>. QED  BY <1>2 DEF StackBounds, InStack

----------------------------------------------------------------------------
(* A pop that fails comes after pops that did not.                         *)
LEMMA FailingPops ==
  ASSUME NEW n \in 1..3, PopsFail(n)
  PROVE  Pops
<1>1. PICK k \in 1..n : PopFails(k)
  BY DEF PopsFail
<1>2. Popped(k - 1)
  BY <1>1 DEF PopFails, Returns, Quiet, Popped
<1>3. k - 1 \in 0..3
  OBVIOUS
<1>. QED  BY <1>2, <1>3 DEF Pops

(* A handler that has its arguments has popped them.                       *)
LEMMA ArgumentsPopped ==
  ASSUME NEW k \in 0..3, NEW w \in Arguments(k)
  PROVE  Poppable(k)
BY DEF Arguments

(* A handler that returns after k pops has popped k words.                 *)
LEMMA ReturnPops ==
  ASSUME NEW k \in 0..3, Poppable(k), NEW w, NEW e, Returns(k, w, e),
         e # "VM_OK" => Quiet, DOMAIN mem' = DOMAIN mem
  PROVE  Pops
BY DEF Pops, Popped

(* What a syscall writes does not change the size of the memory.           *)
LEMMA WritesKeepSize ==
  /\ \A addr, bytes : Writes(addr, bytes) => DOMAIN mem' = DOMAIN mem
  /\ Quiet => DOMAIN mem' = DOMAIN mem
BY DEF Writes, Quiet

(* Bytes are written before the memory, and the call succeeds.             *)
WritesOver(i) == WritesBefore(i) /\ status' = "VM_OK"

(* Bytes written at any other address come with pops.                      *)
LEMMA PutsPops ==
  ASSUME NEW k \in 0..3, Poppable(k), NEW w, NEW addr, NEW bytes,
         Puts(k, w, addr, bytes)
  PROVE  Pops \/ (addr < 0 /\ status' = "VM_OK")
<1>1. CASE Returns(k, w, "UNDEFINED") /\ Quiet
  BY <1>1, WritesKeepSize, ReturnPops
<1>2. CASE /\ Writes(addr, bytes)
           /\ IF addr < 0 THEN ReturnsOver(k, addr, bytes)
              ELSE Returns(k, 0, "VM_OK")
  <2>1. CASE addr < 0
    BY <1>2, <2>1 DEF ReturnsOver
  <2>2. CASE ~(addr < 0)
    BY <1>2, <2>2, WritesKeepSize, ReturnPops
  <2>. QED  BY <2>1, <2>2
<1>. QED  BY <1>1, <1>2 DEF Puts

(* Every syscall pops and returns, writes before the memory, or fails      *)
(* before it has begun.                                                    *)
LEMMA TrapPops ==
  ASSUME NEW i, TRAP(i)
  PROVE  Pops \/ WritesOver(i) \/ UNCHANGED <<machine, heap>>
<1>. USE WritesKeepSize
<1>0. Poppable(0)
  BY DEF Poppable
<1>1. CASE FileCall(i)
  <2>1. PICK id \in {0, 3, 4} :
          \/ PopsFail(FilePops[id])
          \/ /\ Poppable(FilePops[id])
             /\ \E r \in Results : Returns(FilePops[id], r, "VM_OK")
             /\ Quiet
    BY <1>1 DEF FileCall, FilePops
  <2>2. FilePops[id] \in 1..3
    BY DEF FilePops
  <2>. QED  BY <2>1, <2>2, FailingPops, ReturnPops
<1>2. CASE ReadFile(i)
  <2>1. CASE PopsFail(2)
    BY <2>1, FailingPops
  <2>2. CASE PopFails(3)
    <3>1. PopsFail(3)
      BY <2>2 DEF PopsFail
    <3>. QED  BY <3>1, FailingPops
  <2>3. CASE \E addr \in Arguments(2) :
               Returns(2, addr, "VM_OUT_OF_THE_HEAP") /\ Quiet
    BY <2>3, ArgumentsPopped, ReturnPops
  <2>4. CASE Poppable(3) /\ Returns(3, -1, "VM_OK") /\ Quiet
    BY <2>4, ReturnPops
  <2>5. CASE \E addr, n, bytes : \E size \in Arguments(3) :
               Writes(addr, bytes) /\ Returns(3, n, "VM_OK")
    BY <2>5, ArgumentsPopped, ReturnPops
  <2>6. CASE \E size \in Arguments(3) :
               Returns(3, size, "UNDEFINED") /\ Quiet
    BY <2>6, ArgumentsPopped, ReturnPops
  <2>. QED  BY <1>2, <2>1, <2>2, <2>3, <2>4, <2>5, <2>6 DEF ReadFile
<1>3. CASE PrintInt(i) \/ PrintStr(i)
  BY <1>3, FailingPops, ArgumentsPopped, ReturnPops DEF PrintInt, PrintStr
<1>4. CASE ReadInt(i) \/ Dump(i)
  BY <1>0, <1>4, ReturnPops DEF ReadInt, Dump
<1>5. CASE ReadStr(i)
  <2>1. CASE PopsFail(2)
    BY <2>1, FailingPops
  <2>2. CASE \E w, e : \E size \in Arguments(2) : Returns(2, w, e) /\ Quiet
    BY <2>2, ArgumentsPopped, ReturnPops
  <2>3. CASE \E addr \in Arguments(1), size \in Arguments(2) :
               \E bytes : Puts(2, size, addr, bytes)
    <3>1. PICK addr \in Arguments(1), size \in Arguments(2) :
            \E bytes : Puts(2, size, addr, bytes)
      BY <2>3
    <3>2. Pops \/ (addr < 0 /\ status' = "VM_OK")
      BY <3>1, ArgumentsPopped, PutsPops
    <3>. QED  BY <1>5, <3>2 DEF WritesOver, WritesBefore
  <2>. QED  BY <1>5, <2>1, <2>2, <2>3 DEF ReadStr
<1>6. CASE ExitCall(i)
  BY <1>6, FailingPops, ArgumentsPopped, ReturnPops DEF ExitCall
<1>7. CASE Malloc(i) \/ Free(i)
  <2>1. CASE PopsFail(1)
    BY <2>1, FailingPops
  <2>2. CASE \E w, e : \E arg \in Arguments(1) : Returns(1, w, e) /\ Quiet
    BY <2>2, ArgumentsPopped, ReturnPops
  <2>3. CASE \E w : \E arg \in Arguments(1) :
               Returns(1, w, "VM_OK") /\ UNCHANGED <<mem, running>>
    BY <2>3, ArgumentsPopped, ReturnPops
  <2>. QED  BY <1>7, <2>1, <2>2, <2>3 DEF Malloc, Free
<1>8. CASE Memset(i) \/ Memcpy(i)
  <2>1. CASE PopsFail(3)
    BY <2>1, FailingPops
  <2>2. CASE ~PopsFail(3)
    <3>1. PICK addr \in Arguments(1), size \in Arguments(3) :
            \/ \E e : Returns(3, size, e) /\ Quiet
            \/ \E bytes : Puts(3, size, addr, bytes)
      BY <1>8, <2>2 DEF Memset, Memcpy
    <3>2. Poppable(3)
      BY <3>1, ArgumentsPopped
    <3>3. CASE \E e : Returns(3, size, e) /\ Quiet
      BY <3>2, <3>3, ReturnPops
    <3>4. CASE \E bytes : Puts(3, size, addr, bytes)
      <4>1. Pops \/ (addr < 0 /\ status' = "VM_OK")
        BY <3>2, <3>4, PutsPops
      <4>. QED  BY <1>8, <4>1 DEF WritesOver, WritesBefore
    <3>. QED  BY <3>1, <3>3, <3>4
  <2>. QED  BY <2>1, <2>2
<1>9. CASE DumpMem(i)
  BY <1>9, FailingPops, ArgumentsPopped, ReturnPops DEF DumpMem
<1>10. CASE NoSyscall(i) \/ OutOfTheTable(i)
  BY <1>10 DEF NoSyscall, OutOfTheTable, Fail
<1>. QED  BY <1>1, <1>2, <1>3, <1>4, <1>5, <1>6, <1>7, <1>8, <1>9, <1>10,
             TRAP(i) DEF TRAP

----------------------------------------------------------------------------
(* The types of the whole machine, with what the list of nodes needs to    *)
(* keep its own: malloc answers with an address of the heap, which is a    *)
(* word because the nodes tile the heap.                                   *)
AP == INSTANCE AllocatorProofs

SysStatuses == Statuses \cup
  {"VM_UNKNOWN_SYSCALL", "VM_HEAP_OUT_OF_MEMORY", "VM_MEM_ALREADY_FREE",
   "VM_OUT_OF_THE_HEAP", "VM_FREE_OUT_OF_THE_HEAP", "UNDEFINED"}

Processor == /\ Registers /\ Memory /\ Pointers /\ Flagged
             /\ running \in BOOLEAN /\ status \in SysStatuses

NodeList == /\ memblocks \in Seq(A!Node)
            /\ A!Tiles(memblocks) /\ A!Ordered(memblocks)
            /\ held \subseteq [addr : Nat, size : Nat]

SysTypes == Processor /\ NodeList

(* The allocator of the machine is the one that AllocatorProofs is about.  *)
LEMMA SameAllocator ==
  /\ A!Node = AP!Node /\ A!InitialNodes = AP!InitialNodes
  /\ \A ns : A!Tiles(ns) = AP!Tiles(ns) /\ A!Ordered(ns) = AP!Ordered(ns)
  /\ \A ns, n, size :
       /\ A!Carve(ns, n, size) = AP!Carve(ns, n, size)
       /\ A!IsFirstFit(ns, n, size) = AP!IsFirstFit(ns, n, size)
  /\ \A ns, n, ptr : A!IsFirstAt(ns, n, ptr) = AP!IsFirstAt(ns, n, ptr)
  /\ \A ns, n : A!Release(ns, n) = AP!Release(ns, n)
  /\ \A ns, block : A!Reserves(ns, block) = AP!Reserves(ns, block)
<1>1. A!Node = AP!Node /\ A!InitialNodes = AP!InitialNodes
  BY DEF A!Node, AP!Node, A!InitialNodes, AP!InitialNodes
<1>2. \A ns : A!Tiles(ns) = AP!Tiles(ns) /\ A!Ordered(ns) = AP!Ordered(ns)
  BY DEF A!Tiles, AP!Tiles, A!Ordered, AP!Ordered, A!End, AP!End
<1>3. \A ns, n, size :
       /\ A!Carve(ns, n, size) = AP!Carve(ns, n, size)
       /\ A!IsFirstFit(ns, n, size) = AP!IsFirstFit(ns, n, size)
  BY DEF A!Carve, AP!Carve, A!IsFirstFit, AP!IsFirstFit, A!Fits, AP!Fits
<1>4. \A ns, n, ptr : A!IsFirstAt(ns, n, ptr) = AP!IsFirstAt(ns, n, ptr)
  BY DEF A!IsFirstAt, AP!IsFirstAt
<1>5. \A ns, n : A!Release(ns, n) = AP!Release(ns, n)
  BY DEF A!Release, AP!Release, A!NextIsFree, AP!NextIsFree
<1>6. \A ns, block : A!Reserves(ns, block) = AP!Reserves(ns, block)
  BY DEF A!Reserves, AP!Reserves
<1>. QED  BY <1>1, <1>2, <1>3, <1>4, <1>5, <1>6

(* The layout that AllocatorProofs assumes.                                *)
LEMMA HeapLayout ==
  /\ HEAP_BASE \in Nat /\ STACK_BASE \in Nat /\ HEAP_BASE < STACK_BASE
BY MachineAssumption

(* What malloc and free do to the list of nodes and to the blocks held.    *)
Carves == \E size \in Nat : \E n \in 1..Len(memblocks) :
  /\ A!IsFirstFit(memblocks, n, size)
  /\ memblocks' = A!Carve(memblocks, n, size)
  /\ held' = held \cup {[addr |-> memblocks[n].begin, size |-> size]}

Releases == \E ptr : \E n \in 1..Len(memblocks) :
  /\ A!IsFirstAt(memblocks, n, ptr)
  /\ memblocks' = A!Release(memblocks, n)
  /\ held' = {b \in held : b.addr # ptr}

(* What read, read_str and memset write: bytes, above the data segment.    *)
Fills == \E addr \in Nat : \E bytes :
  /\ HEAP_BASE <= addr /\ Writes(addr, bytes)
  /\ \A x \in DOMAIN bytes : x \in Nat /\ bytes[x] \in Byte

Effect(i) ==
  \/ UNCHANGED <<mem, heap>> /\ running' \in BOOLEAN
  \/ /\ status = "VM_OK" /\ status' = "VM_OK"
     /\ UNCHANGED <<mem, running>> /\ (Carves \/ Releases)
  \/ Fills /\ UNCHANGED <<running, heap>>
  \/ Memcpy(i) /\ Memory' /\ UNCHANGED <<running, heap>>

(* The handler of a syscall returns after k pops, with a word in register  *)
(* 0 and one of the effects above.                                         *)
Handled(i, k) ==
  /\ Poppable(k)
  /\ \E w \in Word, e \in SysStatuses : Returns(k, w, e)
  /\ Effect(i)

(* Or it has written bytes before the memory.                              *)
Overwritten(i) ==
  /\ WritesOver(i)
  /\ \E k, addr, bytes : ReturnsOver(k, addr, bytes)
  /\ Memory' /\ UNCHANGED <<running, heap>>

Handles(i) ==
  \/ \E k \in 0..3 : Handled(i, k)
  \/ Overwritten(i)
  \/ \E e \in SysStatuses : Fail(e) /\ UNCHANGED heap

----------------------------------------------------------------------------
(* The list of nodes stays one, whatever malloc and free do to it.         *)
LEMMA CarvesKeep ==
  ASSUME NodeList, Carves
  PROVE  NodeList'
<1>1. PICK size \in Nat, n \in 1..Len(memblocks) :
        /\ A!IsFirstFit(memblocks, n, size)
        /\ memblocks' = A!Carve(memblocks, n, size)
        /\ held' = held \cup {[addr |-> memblocks[n].begin, size |-> size]}
  BY DEF Carves
<1>2. /\ memblocks \in Seq(AP!Node) /\ AP!Tiles(memblocks)
      /\ AP!Ordered(memblocks) /\ AP!Fits(memblocks, n, size)
  BY <1>1, SameAllocator DEF NodeList, AP!IsFirstFit
<1>3. /\ AP!Carve(memblocks, n, size) \in Seq(AP!Node)
      /\ AP!Tiles(AP!Carve(memblocks, n, size))
      /\ AP!Ordered(AP!Carve(memblocks, n, size))
      /\ memblocks[n].begin \in Nat
  BY <1>2, AP!CarveType, AP!CarveTiles, AP!NodeFields, HeapLayout
<1>. QED  BY <1>1, <1>3, SameAllocator DEF NodeList

(* vm_free leaves a list of nodes.                                         *)
LEMMA ReleasesKeep ==
  ASSUME NodeList, Releases
  PROVE  NodeList'
<1>1. PICK n \in 1..Len(memblocks) :
        /\ memblocks' = A!Release(memblocks, n)
        /\ \E ptr : held' = {b \in held : b.addr # ptr}
  BY DEF Releases
<1>2. /\ memblocks \in Seq(AP!Node) /\ AP!Tiles(memblocks)
      /\ AP!Ordered(memblocks)
  BY SameAllocator DEF NodeList
<1>3. /\ AP!Release(memblocks, n) \in Seq(AP!Node)
      /\ AP!Tiles(AP!Release(memblocks, n))
      /\ AP!Ordered(AP!Release(memblocks, n))
  BY <1>2, AP!ReleaseType, AP!ReleaseTiles, HeapLayout
<1>. QED  BY <1>1, <1>3, SameAllocator DEF NodeList

(* RST builds the list that initVM built.                                  *)
LEMMA NewList ==
  /\ A!InitialNodes \in Seq(A!Node)
  /\ A!Tiles(A!InitialNodes) /\ A!Ordered(A!InitialNodes)
BY AP!InitialList, SameAllocator, HeapLayout

----------------------------------------------------------------------------
(* What a syscall pops is a word, and a pop fails with an error.           *)
LEMMA ArgumentTypes ==
  /\ \A k, w : w \in Arguments(k) => w \in Word
  /\ \A k : PopStatus(k) \in SysStatuses
  /\ {-1, 0} \subseteq Word
  /\ \A e \in {"VM_OK", "VM_HEAP_OUT_OF_MEMORY", "VM_MEM_ALREADY_FREE",
               "VM_OUT_OF_THE_HEAP", "VM_FREE_OUT_OF_THE_HEAP", "UNDEFINED",
               "VM_ILL_MEM_ACCESS", "VM_UNKNOWN_SYSCALL"} : e \in SysStatuses
<1>1. \A k, w : w \in Arguments(k) => w \in Word
  BY DEF Arguments, WordsAt
<1>2. \A k : PopStatus(k) \in SysStatuses
  BY DEF PopStatus, PopErrorAt, SysStatuses, Statuses
<1>3. {-1, 0} \subseteq Word
  BY Widths DEF Word
<1>. QED  BY <1>1, <1>2, <1>3 DEF SysStatuses, Statuses

(* Read as an unsigned number, a word below 2^63 is itself.                *)
LEMMA SmallAddress ==
  ASSUME NEW w \in Word, NEW b \in Nat, b < HALF, Unsigned(w) < b
  PROVE  w = Unsigned(w) /\ w \in Nat
<1>1. w \in Int /\ -HALF <= w /\ w < HALF /\ HALF \in Nat /\ MOD = 2 * HALF
  BY Widths DEF Word
<1>2. CASE w >= 0
  <2>1. \A n, m \in Nat : n < m => n % m = n
    OBVIOUS
  <2>2. w \in Nat /\ MOD \in Nat /\ w < MOD
    BY <1>1, <1>2
  <2>. QED  BY <2>1, <2>2 DEF Unsigned
<1>3. CASE w < 0
  <2>1. \A n \in Int : \A m \in Nat : -m <= n /\ n < 0 => n % m = n + m
    OBVIOUS
  <2>2. MOD \in Nat /\ -MOD <= w
    BY <1>1
  <2>3. Unsigned(w) = w + MOD
    BY <2>1, <2>2, <1>1, <1>3 DEF Unsigned
  <2>. QED  BY <2>3, <1>1
<1>. QED  BY <1>1, <1>2, <1>3

(* A word read unsigned is a natural number.                               *)
LEMMA UnsignedTypes ==
  ASSUME NEW w \in Word
  PROVE  Unsigned(w) \in Nat
<1>1. w \in Int
  BY Widths DEF Word
<1>. QED  BY <1>1, UnsignedIsAddress, Widths DEF Address

(* A pop that fails leaves the rest as it is.                              *)
LEMMA FailingPopHandled ==
  ASSUME Processor, NEW i, NEW n \in 1..3, PopsFail(n)
  PROVE  Handles(i)
<1>1. PICK k \in 1..n : PopFails(k)
  BY DEF PopsFail
<1>2. PICK w \in LastPopped(k - 1) : Returns(k - 1, w, PopStatus(k))
  BY <1>1 DEF PopFails
<1>3. w \in Word
  <2>1. regs[0] \in Word
    BY MachineAssumption, SMTT(30) DEF Processor, Registers
  <2>. QED  BY <1>2, <2>1, ArgumentTypes DEF LastPopped
<1>4. Effect(i)
  BY <1>1 DEF PopFails, Quiet, Effect, Processor
<1>5. Handled(i, k - 1)
  <2>1. Poppable(k - 1)
    BY <1>1 DEF PopFails
  <2>2. PopStatus(k) \in SysStatuses
    BY ArgumentTypes
  <2>. QED  BY <1>2, <1>3, <1>4, <2>1, <2>2 DEF Handled
<1>. QED  BY <1>5 DEF Handles

(* A handler that has its arguments returns a word, and changes nothing    *)
(* else, or what Effect says.                                              *)
LEMMA ReturnHandled ==
  ASSUME NEW i, NEW k \in 0..3, Poppable(k), NEW w \in Word,
         NEW e \in SysStatuses, Returns(k, w, e), Effect(i)
  PROVE  Handles(i)
BY DEF Handled, Handles

(* A syscall that touches neither memory nor heap.                         *)
LEMMA QuietEffect ==
  ASSUME Processor, Quiet, NEW i
  PROVE  Effect(i)
BY DEF Quiet, Effect, Processor

(* write, open, close, scanf, printf, exit and the dumps                   *)
(* (instructions.c:1836-2108).                                             *)
LEMMA PlainHandled ==
  ASSUME Processor, NEW i \in Fetched,
         \/ FileCall(i) \/ PrintInt(i) \/ PrintStr(i) \/ ReadInt(i)
         \/ ExitCall(i) \/ Dump(i) \/ DumpMem(i)
  PROVE  Handles(i)
<1>0. Poppable(0)
  BY DEF Poppable
<1>1. CASE FileCall(i)
  <2>1. PICK id \in {0, 3, 4} :
          \/ PopsFail(FilePops[id])
          \/ /\ Poppable(FilePops[id])
             /\ \E r \in Results : Returns(FilePops[id], r, "VM_OK")
             /\ Quiet
    BY <1>1 DEF FileCall, FilePops
  <2>2. FilePops[id] \in 1..3 /\ FilePops[id] \in 0..3
    BY DEF FilePops
  <2>. QED  BY <2>1, <2>2, FailingPopHandled, ReturnHandled, QuietEffect,
               ArgumentTypes, SystemAssumption
<1>2. CASE PrintInt(i)
  BY <1>2, FailingPopHandled, ReturnHandled, QuietEffect, ArgumentTypes
  DEF PrintInt
<1>3. CASE PrintStr(i)
  <2>1. CASE PopsFail(1)
    BY <2>1, FailingPopHandled
  <2>2. CASE ~PopsFail(1)
    <3>1. PICK addr \in Arguments(1) :
            (Returns(1, 0, "VM_OK") \/ Returns(1, addr, "UNDEFINED")) /\ Quiet
      BY <1>3, <2>2 DEF PrintStr
    <3>. QED  BY <3>1, ArgumentsPopped, ReturnHandled, QuietEffect,
                 ArgumentTypes
  <2>. QED  BY <2>1, <2>2
<1>4. CASE ReadInt(i)
  <2>1. PICK r \in Results \cup {-1} : Returns(0, r, "VM_OK")
    BY <1>4 DEF ReadInt
  <2>2. r \in Word /\ Quiet
    BY <1>4, <2>1, ArgumentTypes, SystemAssumption DEF ReadInt
  <2>. QED  BY <1>0, <2>1, <2>2, ReturnHandled, QuietEffect, ArgumentTypes
<1>5. CASE ExitCall(i)
  <2>1. CASE PopsFail(1)
    BY <2>1, FailingPopHandled
  <2>2. CASE ~PopsFail(1)
    <3>1. PICK code \in Arguments(1) :
            /\ Returns(1, code, "VM_OK") /\ running' = FALSE
            /\ UNCHANGED <<mem, heap>>
      BY <1>5, <2>2 DEF ExitCall
    <3>2. Effect(i)
      BY <3>1 DEF Effect
    <3>. QED  BY <3>1, <3>2, ArgumentsPopped, ReturnHandled, ArgumentTypes
  <2>. QED  BY <2>1, <2>2
<1>6. CASE Dump(i)
  <2>1. regs[0] \in Word
    BY MachineAssumption DEF Processor, Registers
  <2>. QED  BY <1>0, <1>6, <2>1, ReturnHandled, QuietEffect, ArgumentTypes
            DEF Dump
<1>7. CASE DumpMem(i)
  <2>1. CASE PopsFail(2)
    BY <2>1, FailingPopHandled
  <2>2. CASE ~PopsFail(2)
    <3>1. PICK size \in Arguments(2) : \E e \in SysStatuses :
            Returns(2, size, e) /\ Quiet
      BY <1>7, <2>2, ArgumentTypes DEF DumpMem
    <3>. QED  BY <3>1, ArgumentsPopped, ReturnHandled, QuietEffect,
                 ArgumentTypes
  <2>. QED  BY <2>1, <2>2
<1>. QED  BY <1>1, <1>2, <1>3, <1>4, <1>5, <1>6, <1>7

(* read_str, memset and memcpy write bytes: above the data segment, before *)
(* the memory, or, memcpy, anywhere.                                       *)
LEMMA PutsHandled ==
  ASSUME Processor, NEW i \in Fetched,
         ReadStr(i) \/ Memset(i) \/ Memcpy(i),
         NEW k \in 0..3, Poppable(k), NEW w \in Word, NEW bytes,
         NEW addr \in Arguments(1), Puts(k, w, addr, bytes),
         \A x \in DOMAIN bytes : x \in Nat /\ bytes[x] \in Byte \cup {CodeByte},
         \/ Memcpy(i) \/ addr < 0
         \/ HEAP_BASE <= addr /\ \A x \in DOMAIN bytes : bytes[x] \in Byte
  PROVE  Handles(i)
<1>1. addr \in Int
  BY ArgumentTypes, Widths DEF Word
<1>2. CASE Returns(k, w, "UNDEFINED") /\ Quiet
  BY <1>2, ReturnHandled, QuietEffect, ArgumentTypes
<1>3. CASE /\ Writes(addr, bytes) /\ UNCHANGED <<running, heap>>
           /\ IF addr < 0 THEN ReturnsOver(k, addr, bytes)
              ELSE Returns(k, 0, "VM_OK")
  <2>1. Memory'
    BY <1>3 DEF Writes, Processor, Memory
  <2>2. CASE addr < 0
    <3>1. ReturnsOver(k, addr, bytes)
      BY <1>3, <2>2
    <3>2. status' = "VM_OK"
      BY <3>1 DEF ReturnsOver
    <3>3. WritesOver(i)
      BY <2>2, <3>2 DEF WritesOver, WritesBefore
    <3>. QED  BY <1>3, <2>1, <3>1, <3>3 DEF Overwritten, Handles
  <2>3. CASE ~(addr < 0)
    <3>1. Returns(k, 0, "VM_OK")
      BY <1>3, <2>3
    <3>2. CASE Memcpy(i)
      <4>1. Effect(i)
        BY <1>3, <2>1, <3>2 DEF Effect
      <4>. QED  BY <3>1, <4>1, ReturnHandled, ArgumentTypes
    <3>3. CASE HEAP_BASE <= addr /\ \A x \in DOMAIN bytes : bytes[x] \in Byte
      <4>1. addr \in Nat
        BY <1>1, <2>3
      <4>2. Effect(i)
        BY <1>3, <3>3, <4>1 DEF Effect, Fills
      <4>. QED  BY <3>1, <4>2, ReturnHandled, ArgumentTypes
    <3>. QED  BY <2>3, <3>2, <3>3
  <2>. QED  BY <2>2, <2>3
<1>. QED  BY <1>2, <1>3 DEF Puts

(* An address that is not negative is the same number read unsigned.       *)
LEMMA PositiveAddress ==
  ASSUME NEW w \in Word, ~(w < 0)
  PROVE  Unsigned(w) = w
<1>1. w \in Nat /\ w < MOD /\ MOD \in Nat
  BY Widths DEF Word
<1>2. \A n, m \in Nat : n < m => n % m = n
  OBVIOUS
<1>. QED  BY <1>1, <1>2 DEF Unsigned

(* read fills memory of the heap or beyond (instructions.c:1862-1886).     *)
LEMMA ReadFileHandled ==
  ASSUME Processor, NEW i \in Fetched, ReadFile(i)
  PROVE  Handles(i)
<1>1. CASE PopsFail(2)
  BY <1>1, FailingPopHandled
<1>2. CASE PopFails(3)
  <2>1. PopsFail(3)
    BY <1>2 DEF PopsFail
  <2>. QED  BY <2>1, FailingPopHandled
<1>3. CASE \E addr \in Arguments(2) :
             Returns(2, addr, "VM_OUT_OF_THE_HEAP") /\ Quiet
  BY <1>3, ArgumentsPopped, ReturnHandled, QuietEffect, ArgumentTypes
<1>4. CASE Poppable(3) /\ Returns(3, -1, "VM_OK") /\ Quiet
  BY <1>4, ReturnHandled, QuietEffect, ArgumentTypes
<1>5. CASE \E size \in Arguments(3) : Returns(3, size, "UNDEFINED") /\ Quiet
  BY <1>5, ArgumentsPopped, ReturnHandled, QuietEffect, ArgumentTypes
<1>6. ASSUME NEW addr \in Arguments(2), ~OutOfTheHeap(Unsigned(addr)),
             NEW size \in Arguments(3), NEW n \in 0..MaxRead,
             addr + n <= MEM_SIZE,
             NEW bytes \in Strings(n), Writes(addr, bytes),
             Returns(3, n, "VM_OK"), UNCHANGED <<running, heap>>
      PROVE  Handles(i)
  <2>1. addr \in Word /\ Unsigned(addr) \in Nat
    BY ArgumentTypes, UnsignedTypes
  <2>2. HEAP_BASE <= Unsigned(addr) /\ Unsigned(addr) < STACK_BASE
    BY <1>6, <2>1, HeapLayout DEF OutOfTheHeap
  <2>3. addr \in Nat /\ HEAP_BASE <= addr
    BY <2>1, <2>2, SmallAddress, Layout
  <2>4. n \in Word
    BY <1>6, <2>3, Layout, SystemAssumption DEF Word
  <2>5. \A x \in DOMAIN bytes : x \in Nat /\ bytes[x] \in Byte
    BY SystemAssumption DEF Strings
  <2>6. Effect(i)
    BY <1>6, <2>3, <2>5 DEF Effect, Fills
  <2>. QED  BY <1>6, <2>4, <2>6, ArgumentsPopped, ReturnHandled, ArgumentTypes
<1>. QED  BY <1>1, <1>2, <1>3, <1>4, <1>5, <1>6 DEF ReadFile

(* So does read_str (instructions.c:1954-1976).                            *)
LEMMA ReadStrHandled ==
  ASSUME Processor, NEW i \in Fetched, ReadStr(i)
  PROVE  Handles(i)
<1>1. CASE PopsFail(2)
  BY <1>1, FailingPopHandled
<1>2. CASE \E size \in Arguments(2) :
             /\ \/ Returns(2, size, "VM_OUT_OF_THE_HEAP")
                \/ Returns(2, -1, "VM_OK")
             /\ Quiet
  BY <1>2, ArgumentsPopped, ReturnHandled, QuietEffect, ArgumentTypes
<1>3. ASSUME NEW addr \in Arguments(1), NEW size \in Arguments(2),
             ~StrRefused(addr, size), NEW n \in 0..(CInt(size) - 1),
             NEW text \in Strings(n), Puts(2, size, addr, Line(n, text))
      PROVE  Handles(i)
  <2>1. addr \in Word /\ size \in Word /\ n \in Nat /\ Poppable(2)
    BY ArgumentTypes, ArgumentsPopped
  <2>2. addr < 0 \/ HEAP_BASE <= addr
    <3>1. Unsigned(addr) \in Nat /\ ~(Unsigned(addr) < HEAP_BASE)
      BY <1>3, <2>1, UnsignedTypes DEF StrRefused
    <3>. QED  BY <2>1, <3>1, PositiveAddress, HeapLayout
  <2>3. \A x \in 0..(n - 1) : text[x] \in Byte
    BY SystemAssumption DEF Strings
  <2>. DEFINE bytes == Line(n, text)
  <2>4. \A x \in DOMAIN bytes : x \in Nat /\ bytes[x] \in Byte
    BY <2>1, <2>3, Widths DEF Byte, Line
  <2>5. Puts(2, size, addr, bytes)
    BY <1>3
  <2>. HIDE DEF bytes
  <2>. QED  BY <1>3, <2>1, <2>2, <2>4, <2>5, PutsHandled
<1>4. CASE \E addr \in Arguments(1), size \in Arguments(2) :
             /\ ~StrRefused(addr, size)
             /\ \E n \in 0..(CInt(size) - 1) : \E text \in Strings(n) :
                  Puts(2, size, addr, Line(n, text))
  BY <1>3, <1>4
<1>. QED  BY <1>1, <1>2, <1>4, ReadStr(i) DEF ReadStr

(* So does memset, also past the end of the heap (instructions.c:2010-2036).*)
LEMMA MemsetHandled ==
  ASSUME Processor, NEW i \in Fetched, Memset(i)
  PROVE  Handles(i)
<1>1. CASE PopsFail(3)
  BY <1>1, FailingPopHandled
<1>2. CASE \E size \in Arguments(3) :
             Returns(3, size, "VM_ILL_MEM_ACCESS") /\ Quiet
  BY <1>2, ArgumentsPopped, ReturnHandled, QuietEffect, ArgumentTypes
<1>3. ASSUME NEW ptr \in Arguments(1), NEW value \in Arguments(2),
             NEW size \in Arguments(3), ~FillRefused(ptr, size),
             Puts(3, size, ptr,
                  [x \in 0..(Unsigned(size) - 1) |-> FillByte(value)])
      PROVE  Handles(i)
  <2>1. /\ ptr \in Word /\ size \in Word /\ Unsigned(size) \in Nat
        /\ Unsigned(value) \in Nat /\ Poppable(3)
    BY ArgumentTypes, UnsignedTypes, ArgumentsPopped
  <2>2. ptr < 0 \/ HEAP_BASE <= ptr
    <3>1. Unsigned(ptr) \in Nat /\ ~(Unsigned(ptr) < HEAP_BASE)
      BY <1>3, <2>1, UnsignedTypes DEF FillRefused
    <3>. QED  BY <2>1, <3>1, PositiveAddress, HeapLayout
  <2>3. FillByte(value) \in Byte
    <3>1. \A v, b \in Nat : b > 0 => v % b \in 0..(b - 1)
      OBVIOUS
    <3>2. BASE \in Nat /\ BASE > 0
      BY Widths
    <3>. QED  BY <2>1, <3>1, <3>2 DEF FillByte, Byte
  <2>. DEFINE bytes == [x \in 0..(Unsigned(size) - 1) |-> FillByte(value)]
  <2>4. \A x \in DOMAIN bytes : x \in Nat /\ bytes[x] \in Byte
    BY <2>1, <2>3
  <2>5. Puts(3, size, ptr, bytes)
    BY <1>3
  <2>. HIDE DEF bytes
  <2>. QED  BY <2>1, <2>2, <2>4, <2>5, PutsHandled
<1>4. CASE \E ptr \in Arguments(1), value \in Arguments(2),
              size \in Arguments(3) :
             /\ ~FillRefused(ptr, size)
             /\ Puts(3, size, ptr,
                     [x \in 0..(Unsigned(size) - 1) |-> FillByte(value)])
  BY <1>3, <1>4
<1>. QED  BY <1>1, <1>2, <1>4, Memset(i) DEF Memset

(* memcpy copies bytes of the memory to the memory                         *)
(* (instructions.c:2038-2060).                                             *)
LEMMA MemcpyHandled ==
  ASSUME Processor, NEW i \in Fetched, Memcpy(i)
  PROVE  Handles(i)
<1>1. CASE PopsFail(3)
  BY <1>1, FailingPopHandled
<1>2. CASE \E size \in Arguments(3) : Returns(3, size, "UNDEFINED") /\ Quiet
  BY <1>2, ArgumentsPopped, ReturnHandled, QuietEffect, ArgumentTypes
<1>3. ASSUME NEW dest \in Arguments(1), NEW src \in Arguments(2),
             NEW size \in Arguments(3),
             CopyDefined(dest, src, Unsigned(size)),
             NEW bytes \in Copies(dest, src, Unsigned(size)),
             Puts(3, size, dest, bytes)
      PROVE  Handles(i)
  <2>. DEFINE n == Unsigned(size)
  <2>1. n \in Nat /\ size \in Word /\ Poppable(3)
    BY ArgumentTypes, UnsignedTypes, ArgumentsPopped
  <2>2. src \in Int
    BY ArgumentTypes, Widths DEF Word
  <2>. HIDE DEF n
  <2>3. \A x \in 0..(n - 1) : src + x < MEM_SIZE
    BY <1>3, <2>2, Layout DEF CopyDefined, InTheVM, n
  <2>4. PICK Loose, any :
          /\ Loose = {x \in 0..(n - 1) : IsLoose(dest + x, src + x)}
          /\ any \in [Loose -> Byte]
          /\ bytes = [x \in 0..(n - 1) |->
                        IF x \in Loose THEN any[x] ELSE mem[src + x]]
    <3>1. bytes \in Copies(dest, src, n)
      BY <1>3 DEF n
    <3>. QED  BY <3>1, ZenonT(40) DEF Copies
  <2>5. ASSUME NEW x \in DOMAIN bytes
        PROVE  x \in Nat /\ bytes[x] \in Byte \cup {CodeByte}
    <3>1. x \in 0..(n - 1) /\ x \in Nat
      BY <2>1, <2>4
    <3>2. CASE x \in Loose
      BY <2>4, <3>1, <3>2
    <3>3. CASE x \notin Loose
      <4>1. ~(src + x < 0)
        BY <2>4, <3>1, <3>3 DEF IsLoose
      <4>2. src + x \in 0..(MEM_SIZE - 1)
        BY <2>2, <2>3, <3>1, <4>1, Layout
      <4>3. mem[src + x] \in Byte \cup {CodeByte}
        BY <4>2 DEF Processor, Memory
      <4>. QED  BY <2>4, <3>1, <3>3, <4>3
    <3>. QED  BY <3>1, <3>2, <3>3
  <2>. QED  BY <1>3, <2>1, <2>5, PutsHandled
<1>4. CASE \E dest \in Arguments(1), src \in Arguments(2),
              size \in Arguments(3) :
             /\ CopyDefined(dest, src, Unsigned(size))
             /\ \E bytes \in Copies(dest, src, Unsigned(size)) :
                  Puts(3, size, dest, bytes)
  BY <1>3, <1>4
<1>. QED  BY <1>1, <1>2, <1>4, Memcpy(i) DEF Memcpy

(* malloc and free (instructions.c:1981-2008).  The address that malloc    *)
(* gives is a word: its node lies below STACK_BASE.                        *)
LEMMA MallocHandled ==
  ASSUME SysTypes, NEW i \in Fetched, Malloc(i)
  PROVE  Handles(i)
<1>0. Processor
  BY DEF SysTypes
<1>1. CASE PopsFail(1)
  BY <1>0, <1>1, FailingPopHandled
<1>2. CASE \E size \in Arguments(1) :
             /\ \E ptr \in Garbage : Returns(1, ptr, "VM_HEAP_OUT_OF_MEMORY")
             /\ Quiet
  <2>1. Garbage \subseteq Word
    BY MachineAssumption
  <2>. QED  BY <1>0, <1>2, <2>1, ArgumentsPopped, ReturnHandled, QuietEffect,
               ArgumentTypes
<1>3. ASSUME NEW size \in Arguments(1), NEW n \in 1..Len(memblocks),
             A!IsFirstFit(memblocks, n, Unsigned(size)),
             memblocks' = A!Carve(memblocks, n, Unsigned(size)),
             held' = held \cup {[addr |-> memblocks[n].begin,
                                 size |-> Unsigned(size)]},
             Returns(1, memblocks[n].begin, "VM_OK"), UNCHANGED <<mem, running>>
      PROVE  Handles(i)
  <2>1. Unsigned(size) \in Nat
    BY ArgumentTypes, UnsignedTypes
  <2>2. /\ memblocks \in Seq(AP!Node) /\ AP!Tiles(memblocks)
        /\ AP!Ordered(memblocks) /\ AP!Fits(memblocks, n, Unsigned(size))
    BY <1>3, SameAllocator DEF SysTypes, NodeList, AP!IsFirstFit
  <2>3. /\ memblocks[n].begin \in Nat
        /\ memblocks[n].begin + Unsigned(size) <= STACK_BASE
    BY <2>1, <2>2, AP!CarveApart, HeapLayout
  <2>4. memblocks[n].begin \in Word
    <3>1. memblocks[n].begin < HALF
      BY <2>1, <2>3, Layout
    <3>. QED  BY <2>3, <3>1, Layout DEF Word
  <2>5. status = "VM_OK" /\ status' = "VM_OK"
    BY <1>3, Malloc(i) DEF Malloc, Calls, Executes, Steps, Returns
  <2>6. Carves
    BY <1>3, <2>1 DEF Carves
  <2>7. Effect(i)
    BY <1>3, <2>5, <2>6 DEF Effect
  <2>. QED  BY <1>3, <2>4, <2>7, ArgumentsPopped, ReturnHandled, ArgumentTypes
<1>. QED  BY <1>1, <1>2, <1>3, Malloc(i) DEF Malloc

(* The syscall free (instructions.c:1983-1994).                            *)
LEMMA FreeHandled ==
  ASSUME SysTypes, NEW i \in Fetched, Free(i)
  PROVE  Handles(i)
<1>0. Processor
  BY DEF SysTypes
<1>1. CASE PopsFail(1)
  BY <1>0, <1>1, FailingPopHandled
<1>2. CASE \E ptr \in Arguments(1) :
             /\ \/ Returns(1, ptr, "VM_FREE_OUT_OF_THE_HEAP")
                \/ Returns(1, ptr, "VM_MEM_ALREADY_FREE")
             /\ Quiet
  BY <1>0, <1>2, ArgumentsPopped, ReturnHandled, QuietEffect, ArgumentTypes
<1>3. ASSUME NEW ptr \in Arguments(1), NEW n \in 1..Len(memblocks),
             A!IsFirstAt(memblocks, n, ptr),
             memblocks' = A!Release(memblocks, n),
             held' = {b \in held : b.addr # ptr},
             Returns(1, ptr, "VM_OK"), UNCHANGED <<mem, running>>
      PROVE  Handles(i)
  <2>1. status = "VM_OK" /\ status' = "VM_OK"
    BY <1>3, Free(i) DEF Free, Calls, Executes, Steps, Returns
  <2>2. Releases
    BY <1>3 DEF Releases
  <2>3. Effect(i)
    BY <1>3, <2>1, <2>2 DEF Effect
  <2>. QED  BY <1>3, <2>3, ArgumentsPopped, ReturnHandled, ArgumentTypes
<1>. QED  BY <1>1, <1>2, <1>3, Free(i) DEF Free

(* So every syscall returns a word, or fails before it has begun.          *)
LEMMA TrapHandled ==
  ASSUME SysTypes, NEW i \in Fetched, TRAP(i)
  PROVE  Handles(i)
<1>1. Processor
  BY DEF SysTypes
<1>2. CASE NoSyscall(i) \/ OutOfTheTable(i)
  BY <1>2, ArgumentTypes DEF NoSyscall, OutOfTheTable, Handles
<1>. QED  BY <1>1, <1>2, TRAP(i), PlainHandled, ReadFileHandled,
             ReadStrHandled, MemsetHandled, MemcpyHandled, MallocHandled,
             FreeHandled DEF TRAP

----------------------------------------------------------------------------
(* Above a word that can be popped is an address.                          *)
LEMMA TopIsAddress ==
  ASSUME sp \in Address, NEW k \in 0..3, Poppable(k)
  PROVE  Top(k + 1) \in Address
<1>1. sp \in Nat /\ \A j \in 0..3 : WORD_SIZE * j \in Nat
  BY Layout DEF Address
<1>2. Top(k + 1) = sp + WORD_SIZE * k
  <2>1. (k + 1) - 1 = k
    OBVIOUS
  <2>. QED  BY <2>1 DEF Top
<1>3. CASE k = 0
  <2>1. WORD_SIZE * 0 = 0
    BY Layout
  <2>. QED  BY <1>1, <1>2, <1>3, <2>1
<1>4. CASE k > 0
  <2>1. PopErrorAt(Top(k), 0) = "VM_OK"
    BY <1>4 DEF Poppable, PopStatus
  <2>2. ~(Top(k) >= MEM_SIZE)
    BY <2>1 DEF PopErrorAt
  <2>3. Top(k) = sp + WORD_SIZE * (k - 1) /\ k - 1 \in 0..3
    BY <1>4 DEF Top
  <2>4. WORD_SIZE * k = WORD_SIZE * (k - 1) + WORD_SIZE
    BY <1>4, Layout
  <2>5. WORD_SIZE * (k - 1) \in Nat
    BY <1>1, <2>3
  <2>. QED  BY <1>1, <1>2, <2>2, <2>3, <2>4, <2>5, Layout DEF Address
<1>. QED  BY <1>3, <1>4

(* What a syscall writes are bytes.                                        *)
LEMMA FillsTypes ==
  ASSUME Memory, Fills
  PROVE  Memory'
<1>1. PICK addr \in Nat : \E bytes :
        /\ Writes(addr, bytes)
        /\ \A x \in DOMAIN bytes : x \in Nat /\ bytes[x] \in Byte
  BY DEF Fills
<1>2. PICK bytes :
        /\ Writes(addr, bytes)
        /\ \A x \in DOMAIN bytes : x \in Nat /\ bytes[x] \in Byte
  BY <1>1
<1>. QED  BY <1>2 DEF Writes, Memory

(* Each of the effects of a syscall keeps the types.                       *)
LEMMA EffectTypes ==
  ASSUME SysTypes, NEW i, Effect(i)
  PROVE  Memory' /\ running' \in BOOLEAN /\ NodeList'
<1>1. /\ Memory /\ running \in BOOLEAN /\ NodeList
      /\ UNCHANGED heap => NodeList'
  BY DEF SysTypes, Processor, heap, NodeList
<1>2. UNCHANGED mem => Memory'
  BY <1>1 DEF Memory
<1>. QED  BY <1>1, <1>2, FillsTypes, CarvesKeep, ReleasesKeep DEF Effect, heap

(* Whatever bytes are written over the fields of struct VM, the registers  *)
(* hold words, sp and pc addresses, and sr flags.                          *)
LEMMA OverwrittenTypes ==
  ASSUME SysTypes, NEW i \in Fetched, Overwritten(i)
  PROVE  SysTypes'
<1>1. PICK k, addr, bytes : ReturnsOver(k, addr, bytes)
  BY DEF Overwritten
<1>2. \A r, w : /\ Overlaid(r, w, addr, bytes) \in Word
                /\ Unsigned(Overlaid(r, w, addr, bytes)) \in Address
  <2>. SUFFICES ASSUME NEW r, NEW w
                PROVE  /\ Overlaid(r, w, addr, bytes) \in Word
                       /\ Unsigned(Overlaid(r, w, addr, bytes)) \in Address
    OBVIOUS
  <2>1. Overlaid(r, w, addr, bytes) \in Word
    BY BitsMakeAWord DEF Overlaid, WordOfBytes
  <2>2. Overlaid(r, w, addr, bytes) \in Int
    BY <2>1, Widths DEF Word
  <2>. QED  BY <2>1, <2>2, UnsignedIsAddress
<1>3. Registers'
  BY <1>1, <1>2, SmallWords
  DEF ReturnsOver, SysTypes, Processor, Registers
<1>4. sp' \in Address
  BY <1>1, <1>2 DEF ReturnsOver
<1>5. pc' \in Address
  <2>1. pc \in 0..(DATA_BASE - 3) /\ pc \in Address
    BY FetchedTypes DEF SysTypes, Processor, Pointers
  <2>2. pc + 2 \in Address
    BY <2>1, Layout DEF Address
  <2>. QED  BY <1>1, <1>2, <2>1, <2>2 DEF ReturnsOver, OverlaidPc, Size
<1>6. Flagged'
  BY <1>1, SmallWords
  DEF ReturnsOver, FlagsOf, SysTypes, Processor, Flagged
<1>7. Memory' /\ running' \in BOOLEAN /\ NodeList'
  BY DEF Overwritten, SysTypes, Processor, heap, NodeList
<1>8. status' \in SysStatuses
  BY ArgumentTypes DEF Overwritten, WritesOver
<1>. QED  BY <1>3, <1>4, <1>5, <1>6, <1>7, <1>8
          DEF SysTypes, Processor, Pointers

(* A syscall that returns keeps the types.                                 *)
LEMMA HandlesTypes ==
  ASSUME SysTypes, NEW i \in Fetched, Handles(i)
  PROVE  SysTypes'
<1>1. ASSUME NEW e \in SysStatuses, Fail(e), UNCHANGED heap
      PROVE  SysTypes'
  BY <1>1 DEF SysTypes, Processor, Registers, Memory, Pointers, Flagged,
              Fail, machine, heap, NodeList
<1>2. ASSUME NEW k \in 0..3, Handled(i, k)
      PROVE  SysTypes'
  <2>1. PICK w \in Word, e \in SysStatuses : Returns(k, w, e)
    BY <1>2 DEF Handled
  <2>2. Memory' /\ running' \in BOOLEAN /\ NodeList'
    BY <1>2, EffectTypes DEF Handled
  <2>3. sp' \in Address
    BY <1>2, <2>1, TopIsAddress DEF Handled, Returns, SysTypes, Processor,
                                    Pointers
  <2>4. pc' \in Address
    <3>1. pc \in 0..(DATA_BASE - 3) /\ pc \in Address
      BY FetchedTypes DEF SysTypes, Processor, Pointers
    <3>2. pc + 2 \in Address
      BY <3>1, Layout, MachineAssumption DEF Address
    <3>. QED  BY <2>1, <3>1, <3>2 DEF Returns, Size
  <2>5. Registers'
    BY <2>1 DEF Returns, SetRegister, SysTypes, Processor, Registers
  <2>6. Flagged'
    BY <2>1 DEF Returns, SysTypes, Processor, Flagged
  <2>. QED  BY <2>1, <2>2, <2>3, <2>4, <2>5, <2>6
            DEF Returns, SysTypes, Processor, Pointers
<1>. QED  BY <1>1, <1>2, OverwrittenTypes DEF Handles

(* An instruction runs in a state that the processor alone may be in.      *)
LEMMA StepTypes ==
  ASSUME SysTypes, NEW i \in Fetched, Step(i)
  PROVE  Types /\ Types'
<1>1. status = "VM_OK"
  BY DEF Step, UnaryStep, BinaryStep, LD, ST, SWP, FAS, PUSH, POP, CALL, RTN,
         Jump, NOP, RST, HALT, Truncated, Unknown, Executes, Steps
<1>2. Types
  BY <1>1 DEF SysTypes, Processor, Types, Control, Statuses
<1>3. Types'
  BY <1>2, ComputeTypes, MoveTypes, FasTypes, PushPopTypes, TransferTypes,
     ControlTypes DEF Step
<1>. QED  BY <1>2, <1>3

(* The instructions of the processor keep the types of the system.         *)
LEMMA InstructionTypes ==
  ASSUME SysTypes, NEW i \in Fetched, Instructions(i)
  PROVE  SysTypes'
<1>1. Types'
  BY StepTypes DEF Instructions
<1>2. NodeList'
  BY NewList DEF Instructions, SysTypes, NodeList
<1>. QED  BY <1>1, <1>2 DEF SysTypes, Processor, Types, Control, SysStatuses

(* The loaded machine has one free node and nothing held.                  *)
LEMMA SysInitTypes == SysInit => SysTypes
<1>. SUFFICES ASSUME SysInit PROVE SysTypes
  OBVIOUS
<1>1. Types
  BY InitTypes DEF SysInit
<1>2. NodeList
  BY NewList DEF SysInit, NodeList
<1>. QED  BY <1>1, <1>2 DEF SysTypes, Processor, Types, Control, SysStatuses

(* The types are inductive.                                                *)
LEMMA SysNextTypes ==
  ASSUME SysTypes, [SysNext]_sysVars
  PROVE  SysTypes'
<1>1. CASE \E i \in Fetched : Instructions(i)
  BY <1>1, InstructionTypes
<1>2. CASE \E i \in Fetched : TRAP(i)
  BY <1>2, TrapHandled, HandlesTypes
<1>3. CASE (OutOfCode \/ Undecoded) /\ UNCHANGED heap
  <2>1. \E e \in SysStatuses : Fail(e)
    BY <1>3 DEF OutOfCode, Undecoded, SysStatuses, Statuses
  <2>. QED  BY <1>3, <2>1 DEF SysTypes, Processor, Registers, Memory, Pointers,
                              Flagged, Fail, machine, heap, NodeList
<1>4. CASE SysExit \/ UNCHANGED sysVars
  BY <1>4 DEF SysExit, sysVars, vars, heap, SysTypes, Processor, Registers,
              Memory, Pointers, Flagged, NodeList
<1>. QED  BY <1>1, <1>2, <1>3, <1>4 DEF SysNext

(* The inductive invariant of the types, syscalls included                 *)
(* (instructions.c:1828-2122).                                             *)
THEOREM SystemTypes == SysSpec => []SysTypes
<1>1. SysTypes /\ [SysNext]_sysVars => SysTypes'
  BY SysNextTypes
<1>. QED  BY <1>1, SysInitTypes, PTL DEF SysSpec

(* Syscalls leave words in register 0 and bytes in the memory, whatever    *)
(* they are called with, and vm->memblocks stays a list of nodes           *)
(* (instructions.c:1836-2108, allocator.c:9-49).                           *)
THEOREM SystemIsTyped == SysSpec => []SysTypeOK
<1>1. SysTypes => SysTypeOK
  BY DEF SysTypes, Processor, Registers, Memory, Pointers, NodeList,
         SysStatuses, SysTypeOK
<1>. QED  BY <1>1, SystemTypes, PTL

----------------------------------------------------------------------------
(* Every step of the whole machine but a write before the memory keeps sp  *)
(* in the stack segment.                                                   *)
LEMMA SysStep ==
  ASSUME FasRegistersExist, SysTypes, StackBounds, [SysNext]_sysVars
  PROVE  StackBounds' \/ \E i \in Fetched : WritesBefore(i)
<1>0. MachineInv
  BY DEF MachineInv, SysTypes, Processor, Memory
<1>1. CASE \E i \in Fetched : Instructions(i)
  BY <1>0, <1>1, StepInv DEF Instructions, MachineInv
<1>2. CASE \E i \in Fetched : TRAP(i)
  <2>1. PICK i \in Fetched : TRAP(i)
    BY <1>2
  <2>2. Pops \/ WritesOver(i) \/ UNCHANGED <<machine, heap>>
    BY <2>1, TrapPops
  <2>3. UNCHANGED <<machine, heap>> => StackBounds'
    BY DEF machine, StackBounds
  <2>. QED  BY <2>2, <2>3, PopsInv DEF WritesOver
<1>3. CASE OutOfCode \/ Undecoded \/ SysExit \/ UNCHANGED sysVars
  BY <1>3 DEF OutOfCode, Undecoded, SysExit, Fail, machine, sysVars, vars,
              StackBounds
<1>. QED  BY <1>1, <1>2, <1>3 DEF SysNext

(* The stack pointer never leaves the stack segment, whatever instructions *)
(* and syscalls a program makes, unless read_str, memset or memcpy is given*)
(* an address before the memory: arguments that are missing are noticed    *)
(* before they are popped (instructions.c:1201-1451 and 1836-2108).        *)
THEOREM SystemStackIsBounded == FasRegistersExist => (SysSpec => SysStackBounds)
<1>. SUFFICES ASSUME FasRegistersExist PROVE SysSpec => SysStackBounds
  OBVIOUS
<1>. DEFINE Bounded == StackBounds =>
                         StackBounds' \/ \E i \in Fetched : WritesBefore(i)
<1>1. SysInit => StackBounds
  BY InitInv DEF SysInit, MachineInv
<1>2. SysTypes /\ [SysNext]_sysVars => [Bounded]_sysVars
  BY SysStep
<1>. QED  BY <1>1, <1>2, SystemTypes, PTL DEF SysSpec, SysStackBounds

(* A syscall that fails has popped some of its arguments and changed       *)
(* nothing else (instructions.c:1836-2108, the handlers that return before *)
(* their end).                                                             *)
THEOREM SyscallsFailCleanly == SysSpec => FailedSyscallsOnlyPop
<1>. DEFINE OnlyPops ==
       \A i \in Fetched :
         status' # "VM_OK" /\ TRAP(i)
           => /\ \E k \in 0..3 : sp' = sp + WORD_SIZE * k
              /\ UNCHANGED <<sr, pc, mem, running, heap>>
              /\ \A r \in DOMAIN regs \ {0} : regs'[r] = regs[r]
<1>1. SysTypes => OnlyPops
  <2>. SUFFICES ASSUME SysTypes, NEW i \in Fetched,
                       status' # "VM_OK", TRAP(i)
                PROVE  /\ \E k \in 0..3 : sp' = sp + WORD_SIZE * k
                       /\ UNCHANGED <<sr, pc, mem, running, heap>>
                       /\ \A r \in DOMAIN regs \ {0} : regs'[r] = regs[r]
    OBVIOUS
  <2>1. CASE Pops
    <3>1. PICK k \in 0..3 : Popped(k)
      BY <2>1 DEF Pops
    <3>2. PICK w, e : Returns(k, w, e) /\ (e # "VM_OK" => Quiet)
      BY <3>1 DEF Popped
    <3>3. e # "VM_OK" /\ Quiet
      BY <3>2 DEF Returns
    <3>4. sp' = sp + WORD_SIZE * k
      <4>1. (k + 1) - 1 = k
        OBVIOUS
      <4>. QED  BY <3>2, <4>1 DEF Returns, Top
    <3>5. UNCHANGED <<sr, pc>>
      BY <3>2, <3>3 DEF Returns
    <3>6. \A r \in DOMAIN regs \ {0} : regs'[r] = regs[r]
      BY <3>2 DEF Returns, SetRegister
    <3>. QED  BY <3>3, <3>4, <3>5, <3>6 DEF Quiet
  <2>2. CASE UNCHANGED <<machine, heap>>
    <3>1. sp \in Int /\ WORD_SIZE * 0 = 0
      BY Layout DEF SysTypes, Processor, Pointers, Address
    <3>2. sp = sp + WORD_SIZE * 0
      BY <3>1
    <3>. QED  BY <2>2, <3>2 DEF machine
  <2>. QED  BY <2>1, <2>2, TrapPops DEF WritesOver
<1>2. SysTypes /\ [SysNext]_sysVars => [OnlyPops]_sysVars
  BY <1>1
<1>. QED  BY <1>2, SystemTypes, PTL DEF SysSpec, FailedSyscallsOnlyPop

----------------------------------------------------------------------------
(* What read, read_str and memset write lies in the heap or above it.      *)
LEMMA FillsSpareProgram ==
  ASSUME Memory, Fills, NEW x \in 0..(HEAP_BASE - 1)
  PROVE  mem'[x] = mem[x]
<1>1. PICK addr \in Nat : \E bytes :
        /\ HEAP_BASE <= addr /\ Writes(addr, bytes)
        /\ \A y \in DOMAIN bytes : y \in Nat
  BY DEF Fills
<1>2. PICK bytes :
        /\ HEAP_BASE <= addr /\ Writes(addr, bytes)
        /\ \A y \in DOMAIN bytes : y \in Nat
  BY <1>1
<1>3. x \in DOMAIN mem
  BY HeapLayout, Layout DEF Memory
<1>4. x - addr \notin DOMAIN bytes
  BY <1>2, HeapLayout
<1>. QED  BY <1>2, <1>3, <1>4 DEF Writes

(* A syscall other than memcpy leaves the code and the data as they were, *)
(* unless it writes before the memory.                                     *)
LEMMA TrapSparesProgram ==
  ASSUME SysTypes, NEW i \in Fetched, TRAP(i), ~Memcpy(i), ~WritesBefore(i),
         NEW x \in 0..(HEAP_BASE - 1)
  PROVE  mem'[x] = mem[x]
<1>1. Handles(i) /\ Memory
  BY TrapHandled DEF SysTypes, Processor
<1>2. UNCHANGED mem \/ Fills
  BY <1>1 DEF Handles, Handled, Overwritten, WritesOver, Effect, Fail, machine
<1>. QED  BY <1>1, <1>2, FillsSpareProgram

(* Whatever a program does, its code and its data change by an instruction *)
(* of Overwrites, a store into the data, memcpy, or a read_str or memset   *)
(* at an address before the memory: at any other address read, read_str    *)
(* and memset test where they begin, and no sum that wraps around gets     *)
(* them below it (instructions.c:1870, 1963, 2015).                        *)
THEOREM ProgramIsAlwaysProtected == SysSpec => ProgramIsProtected
<1>. DEFINE Protected ==
       \A x \in 0..(HEAP_BASE - 1) : mem'[x] # mem[x] =>
         \E i \in Fetched :
           \/ Overwrites(i) \/ Memcpy(i) \/ WritesBefore(i)
           \/ x >= DATA_BASE /\ Step(i)
<1>1. SysTypes /\ [SysNext]_sysVars => [Protected]_sysVars
  <2>. SUFFICES ASSUME SysTypes, SysNext,
                       NEW x \in 0..(HEAP_BASE - 1), mem'[x] # mem[x]
                PROVE  \E i \in Fetched :
                         \/ Overwrites(i) \/ Memcpy(i) \/ WritesBefore(i)
                         \/ x >= DATA_BASE /\ Step(i)
    OBVIOUS
  <2>1. ASSUME NEW i \in Fetched, Instructions(i)
        PROVE  Overwrites(i) \/ (x >= DATA_BASE /\ Step(i))
    <3>1. Step(i) /\ Types
      BY <2>1, StepTypes DEF Instructions
    <3>2. CASE x < DATA_BASE
      <4>1. x \in 0..(DATA_BASE - 1)
        BY <3>2, HeapLayout, Layout
      <4>. QED  BY <3>1, <4>1, StepSparesCode
    <3>. QED  BY <3>1, <3>2, HeapLayout, Layout
  <2>2. ASSUME NEW i \in Fetched, TRAP(i)
        PROVE  Memcpy(i) \/ WritesBefore(i)
    BY <2>2, TrapSparesProgram
  <2>3. CASE OutOfCode \/ Undecoded \/ SysExit
    BY <2>3 DEF OutOfCode, Undecoded, SysExit, Fail, machine, sysVars, vars
  <2>. QED  BY <2>1, <2>2, <2>3 DEF SysNext
<1>. QED  BY <1>1, SystemTypes, PTL DEF SysSpec, ProgramIsProtected

----------------------------------------------------------------------------
(* Each block of at least one byte that the program holds is a node in use *)
(* of its own.  RST forgets the nodes but not the blocks: from then on the *)
(* memory is blank, and the machine executes nothing any more.             *)
InUse == {b \in held : b.size > 0}

HeldInv ==
  /\ \A b \in InUse : A!Reserves(memblocks, b)
  /\ \A b, c \in InUse : b # c => b.addr # c.addr

BlocksInv == SysTypes /\ (Blanks \/ HeldInv)

(* From a blank memory cpu_step fetches an ADD without operands, which it  *)
(* refuses (cpu.c:24-27).                                                  *)
LEMMA BlankFetched ==
  ASSUME Memory, Blanks, NEW i \in Fetched
  PROVE  /\ i = Blank
         /\ Step(i) => Fail("VM_UNKNOWN_INSTR")
         /\ ~TRAP(i)
<1>1. i = Blank
  <2>. SUFFICES ASSUME i \in Loaded, Decodes PROVE FALSE
    BY DEF Fetched, Blanked
  <2>1. PICK j \in Code[pc] : Unwritten(j)
    BY DEF Loaded
  <2>2. pc \in 0..(DATA_BASE - 3)
    BY DEF Decodes
  <2>3. j.mode \in Modes
    BY <2>2, MachineAssumption, SMTT(30) DEF Instruction
  <2>4. \A m \in Modes : Size(m) >= 2
    BY Layout DEF Modes, Size
  <2>5. pc \in pc..(pc + (IF Fits(j) THEN Size(j.mode) ELSE 2) - 1)
    <3>1. Size(j.mode) >= 2 /\ Size(j.mode) \in Int
      BY <2>3, <2>4, Layout DEF Modes, Size
    <3>. QED  BY <2>2, <3>1
  <2>6. mem[pc] = CodeByte
    BY <2>1, <2>5 DEF Unwritten
  <2>7. pc \in DOMAIN mem
    BY <2>2, HeapLayout, Layout DEF Memory
  <2>. QED  BY <2>6, <2>7, Widths DEF Blanks, CodeByte
<1>2. i.op = "ADD" /\ i.mode = "NONE" /\ Fits(i)
  BY <1>1 DEF Blank, Fits
<1>3. i.mode \notin ModesOf(i.op)
  BY <1>2 DEF ModesOf, Binary, Shifts, Unary, Jumps, CondJump, Bare
<1>4. \A ops : ~Executes(i, ops)
  BY <1>3 DEF Executes
<1>5. Step(i) => Fail("VM_UNKNOWN_INSTR")
  BY <1>2, <1>4 DEF Step, UnaryStep, BinaryStep, LD, ST, SWP, FAS, PUSH, POP,
       CALL, RTN, Jump, NOP, RST, HALT, Truncated, Unknown
<1>6. ~TRAP(i)
  BY <1>4 DEF TRAP, FileCall, ReadFile, PrintInt, PrintStr, ReadInt, ReadStr,
       ExitCall, Malloc, Free, Memset, Memcpy, Dump, DumpMem, NoSyscall,
       OutOfTheTable, Calls
<1>. QED  BY <1>1, <1>5, <1>6

(* RST blanks the memory, and only RST makes a new list of nodes.          *)
LEMMA ResetBlanks ==
  ASSUME NEW i \in Fetched, Step(i), Resets(i)
  PROVE  Blanks'
<1>1. i.op = "RST" /\ Fits(i) /\ i.mode \in ModesOf(i.op)
  BY DEF Resets, Executes
<1>2. RST(i)
  BY <1>1 DEF Step, UnaryStep, BinaryStep, LD, ST, SWP, FAS, PUSH, POP, CALL,
       RTN, Jump, NOP, HALT, Truncated, Unknown, Executes, Unary, Binary,
       Shifts, Jumps, CondJump
<1>. QED  BY <1>2 DEF RST, Blanks

(* A step begins while the machine has not failed.                         *)
LEMMA StepsFromOk ==
  ASSUME NEW i, Step(i) \/ TRAP(i)
  PROVE  status = "VM_OK"
BY DEF Step, UnaryStep, BinaryStep, LD, ST, SWP, FAS, PUSH, POP, CALL, RTN,
       Jump, NOP, RST, HALT, Truncated, Unknown, TRAP, FileCall, ReadFile,
       PrintInt, PrintStr, ReadInt, ReadStr, ExitCall, Malloc, Free, Memset,
       Memcpy, Dump, DumpMem, NoSyscall, OutOfTheTable, Calls, Executes, Steps

----------------------------------------------------------------------------
(* A block held in the list of nodes is a block of the abstract heap.      *)
LEMMA HeldBlocks ==
  ASSUME NodeList, HeldInv, NEW b \in InUse
  PROVE  /\ b \in AbstractHeap!Block
         /\ b.addr \in Nat /\ b.size \in Nat /\ b.size > 0
<1>1. /\ memblocks \in Seq(AP!Node) /\ AP!Tiles(memblocks)
      /\ AP!Ordered(memblocks) /\ AP!Reserves(memblocks, b)
  BY SameAllocator DEF NodeList, HeldInv
<1>2. /\ b.addr \in Nat /\ b.size \in Nat
      /\ HEAP_BASE <= b.addr /\ b.addr + b.size <= STACK_BASE
  BY <1>1, AP!ReservedInHeap, HeapLayout
<1>3. b \in [addr : Nat, size : Nat] /\ b.size > 0
  BY DEF InUse, NodeList
<1>4. /\ b.addr \in HEAP_BASE..STACK_BASE
      /\ b.size \in 1..(STACK_BASE - HEAP_BASE)
  BY <1>2, <1>3, HeapLayout
<1>. QED  BY <1>2, <1>3, <1>4 DEF AbstractHeap!Block

(* malloc of the machine is that of the abstract heap, or changes nothing  *)
(* there when it asks for no byte (allocator.c:9-29).                      *)
LEMMA CarvesImplement ==
  ASSUME NodeList, HeldInv, Carves, status = "VM_OK", status' = "VM_OK"
  PROVE  HeldInv' /\ [AbstractHeap!Next]_AbstractHeap!vars
<1>1. PICK size \in Nat, n \in 1..Len(memblocks) :
        /\ A!IsFirstFit(memblocks, n, size)
        /\ memblocks' = A!Carve(memblocks, n, size)
        /\ held' = held \cup {[addr |-> memblocks[n].begin, size |-> size]}
  BY DEF Carves
<1>. DEFINE new == [addr |-> memblocks[n].begin, size |-> size]
<1>2. /\ memblocks \in Seq(AP!Node) /\ AP!Tiles(memblocks)
      /\ AP!Ordered(memblocks) /\ AP!Fits(memblocks, n, size)
  BY <1>1, SameAllocator DEF NodeList, AP!IsFirstFit
<1>3. /\ new.addr \in Nat /\ HEAP_BASE <= new.addr
      /\ new.addr + new.size <= STACK_BASE /\ new.size = size
      /\ \A b : AP!Reserves(memblocks, b) =>
           \/ new.addr + new.size <= b.addr
           \/ b.addr + b.size <= new.addr
  BY <1>2, AP!CarveApart, HeapLayout
<1>4. /\ \A b : AP!Reserves(memblocks, b)
                 => AP!Reserves(AP!Carve(memblocks, n, size), b)
      /\ AP!Reserves(AP!Carve(memblocks, n, size), new)
  BY <1>2, AP!CarveSpares, HeapLayout
<1>5. held' = held \cup {new} /\ memblocks' = AP!Carve(memblocks, n, size)
  BY <1>1, SameAllocator
<1>. HIDE DEF new
<1>6. InUse' = IF size > 0 THEN InUse \cup {new} ELSE InUse
  BY <1>3, <1>5 DEF InUse
<1>7. \A b \in InUse' : A!Reserves(memblocks', b)
  BY <1>4, <1>5, <1>6, SameAllocator DEF HeldInv
<1>8. ASSUME NEW b \in InUse, size > 0
      PROVE  new.addr # b.addr /\ AbstractHeap!Disjoint(new, b)
  <2>1. b.addr \in Nat /\ b.size \in Nat /\ b.size > 0
    BY HeldBlocks
  <2>2. AP!Reserves(memblocks, b)
    BY SameAllocator DEF HeldInv
  <2>3. \/ new.addr + new.size <= b.addr
        \/ b.addr + b.size <= new.addr
    BY <1>3, <2>2
  <2>. QED  BY <1>3, <1>8, <2>1, <2>3 DEF AbstractHeap!Disjoint
<1>9. HeldInv'
  <2>1. \A b, c \in InUse' : b # c => b.addr # c.addr
    BY <1>6, <1>8 DEF HeldInv
  <2>. QED  BY <1>7, <2>1 DEF HeldInv
<1>10. CASE size > 0
  <2>. PICK b : b = new
    OBVIOUS
  <2>1. b \in AbstractHeap!Block /\ AbstractHeap!InHeap(b)
    <3>1. /\ new.addr \in HEAP_BASE..STACK_BASE
          /\ new.size \in 1..(STACK_BASE - HEAP_BASE)
      BY <1>3, <1>10, HeapLayout
    <3>2. new = [addr |-> new.addr, size |-> new.size]
      BY DEF new
    <3>. QED  BY <1>3, <3>1, <3>2 DEF AbstractHeap!Block, AbstractHeap!InHeap
  <2>2. AbstractHeap!Malloc(b)
    BY <1>6, <1>8, <1>10, <2>1 DEF AbstractHeap!Malloc, InUse
  <2>. QED  BY <2>1, <2>2, <1>9 DEF AbstractHeap!Next
<1>11. CASE ~(size > 0)
  BY <1>6, <1>9, <1>11 DEF AbstractHeap!vars, InUse
<1>. QED  BY <1>10, <1>11

(* free of the machine is that of the abstract heap, or changes nothing    *)
(* there when the program holds no block at the address                    *)
(* (allocator.c:31-49).                                                    *)
LEMMA ReleasesImplement ==
  ASSUME NodeList, HeldInv, Releases, status = "VM_OK", status' = "VM_OK"
  PROVE  HeldInv' /\ [AbstractHeap!Next]_AbstractHeap!vars
<1>1. PICK ptr : \E n \in 1..Len(memblocks) :
        /\ A!IsFirstAt(memblocks, n, ptr)
        /\ memblocks' = A!Release(memblocks, n)
        /\ held' = {b \in held : b.addr # ptr}
  BY DEF Releases
<1>2. PICK n \in 1..Len(memblocks) :
        /\ AP!IsFirstAt(memblocks, n, ptr)
        /\ memblocks' = AP!Release(memblocks, n)
  BY <1>1, SameAllocator
<1>3. memblocks \in Seq(AP!Node)
  BY SameAllocator DEF NodeList
<1>4. InUse' = {b \in InUse : b.addr # ptr}
  BY <1>1 DEF InUse
<1>5. \A b \in InUse' : AP!Reserves(memblocks', b)
  <2>. SUFFICES ASSUME NEW b \in InUse, b.addr # ptr
                PROVE  AP!Reserves(memblocks', b)
    BY <1>4
  <2>1. AP!Reserves(memblocks, b)
    BY SameAllocator DEF HeldInv
  <2>. QED  BY <1>2, <1>3, <2>1, AP!FreeSpares, HeapLayout
<1>6. HeldInv'
  BY <1>4, <1>5, SameAllocator DEF HeldInv
<1>7. CASE \E b \in InUse : b.addr = ptr
  <2>1. PICK b \in InUse : b.addr = ptr
    BY <1>7
  <2>2. InUse' = InUse \ {b}
    BY <1>4, <2>1 DEF HeldInv
  <2>3. b \in AbstractHeap!Block
    BY HeldBlocks
  <2>4. AbstractHeap!Free(b)
    BY <2>1, <2>2 DEF AbstractHeap!Free, InUse
  <2>. QED  BY <1>6, <2>3, <2>4 DEF AbstractHeap!Next
<1>8. CASE ~\E b \in InUse : b.addr = ptr
  <2>1. InUse' = InUse
    BY <1>4, <1>8
  <2>. QED  BY <1>6, <2>1 DEF AbstractHeap!vars, InUse
<1>. QED  BY <1>7, <1>8

(* A step that keeps the list and the blocks is a failure of the abstract  *)
(* heap, or none of its steps.                                             *)
LEMMA QuietImplements ==
  ASSUME UNCHANGED heap, HeldInv \/ Blanks', status = "VM_OK"
  PROVE  /\ Blanks' \/ HeldInv'
         /\ [AbstractHeap!Next]_AbstractHeap!vars
<1>1. InUse' = InUse
  BY DEF InUse, heap
<1>2. Blanks' \/ HeldInv'
  BY <1>1 DEF HeldInv, heap
<1>. QED  BY <1>1, <1>2
          DEF AbstractHeap!Next, AbstractHeap!Fail, AbstractHeap!vars, InUse

(* Every step of the machine is one of the abstract heap, or none.         *)
LEMMA SysNextImplements ==
  ASSUME BlocksInv, [SysNext]_sysVars
  PROVE  /\ Blanks' \/ HeldInv'
         /\ [AbstractHeap!Next]_AbstractHeap!vars
<1>1. SysTypes /\ NodeList /\ Memory
  BY DEF BlocksInv, SysTypes, Processor
<1>2. ASSUME NEW i \in Fetched, Instructions(i)
      PROVE  /\ Blanks' \/ HeldInv'
             /\ [AbstractHeap!Next]_AbstractHeap!vars
  <2>1. Step(i) /\ status = "VM_OK" /\ held' = held
    BY <1>2, StepsFromOk DEF Instructions
  <2>2. CASE Resets(i)
    <3>1. Blanks'
      BY <2>1, <2>2, ResetBlanks
    <3>2. InUse' = InUse
      BY <2>1 DEF InUse
    <3>. QED  BY <2>1, <3>1, <3>2
              DEF AbstractHeap!Next, AbstractHeap!Fail, AbstractHeap!vars, InUse
  <2>3. CASE ~Resets(i)
    <3>1. UNCHANGED heap
      BY <1>2, <2>1, <2>3 DEF Instructions, heap
    <3>2. Blanks => Blanks'
      BY <1>1, <2>1, BlankFetched DEF Fail, machine, Blanks
    <3>. QED  BY <2>1, <3>1, <3>2, QuietImplements DEF BlocksInv
  <2>. QED  BY <2>2, <2>3
<1>3. ASSUME NEW i \in Fetched, TRAP(i)
      PROVE  /\ Blanks' \/ HeldInv'
             /\ [AbstractHeap!Next]_AbstractHeap!vars
  <2>1. HeldInv /\ status = "VM_OK" /\ Handles(i)
    BY <1>1, <1>3, BlankFetched, StepsFromOk, TrapHandled DEF BlocksInv
  <2>2. CASE UNCHANGED heap
    BY <2>1, <2>2, QuietImplements
  <2>3. CASE status' = "VM_OK" /\ Carves
    BY <1>1, <2>1, <2>3, CarvesImplement
  <2>4. CASE status' = "VM_OK" /\ Releases
    BY <1>1, <2>1, <2>4, ReleasesImplement
  <2>. QED  BY <2>1, <2>2, <2>3, <2>4
            DEF Handles, Handled, Overwritten, Effect, heap
<1>4. CASE (OutOfCode \/ Undecoded) /\ UNCHANGED heap
  <2>1. status = "VM_OK" /\ UNCHANGED mem
    BY <1>4 DEF OutOfCode, Undecoded, Steps, Fail, machine
  <2>2. Blanks => Blanks'
    BY <2>1 DEF Blanks
  <2>. QED  BY <1>4, <2>1, <2>2, QuietImplements DEF BlocksInv
<1>5. CASE SysExit \/ UNCHANGED sysVars
  <2>1. UNCHANGED <<mem, memblocks, held, status>>
    BY <1>5 DEF SysExit, sysVars, vars, heap
  <2>2. InUse' = InUse /\ (Blanks => Blanks')
    BY <2>1 DEF InUse, Blanks
  <2>. QED  BY <2>1, <2>2 DEF BlocksInv, HeldInv, AbstractHeap!vars, InUse
<1>. QED  BY <1>2, <1>3, <1>4, <1>5 DEF SysNext

(* malloc and free keep the promise of AbstractHeap to every program, with *)
(* whatever memory layout: blocks in use lie in the heap and are disjoint, *)
(* and RST, which builds a new list of nodes while the program holds its   *)
(* blocks, ends the program with them (allocator.c:9-49,                   *)
(* instructions.c:1462-1467, 1981-2008).                                   *)
THEOREM BlocksAlwaysDisjoint == SysSpec => BlocksStayDisjoint
<1>1. SysInit => BlocksInv /\ AbstractHeap!Init
  <2>. SUFFICES ASSUME SysInit PROVE BlocksInv /\ AbstractHeap!Init
    OBVIOUS
  <2>1. held = {} /\ status = "VM_OK" /\ InUse = {}
    BY DEF SysInit, Init, InUse
  <2>2. HeldInv
    BY <2>1 DEF HeldInv
  <2>. QED  BY <2>1, <2>2, SysInitTypes DEF BlocksInv, AbstractHeap!Init
<1>2. BlocksInv /\ [SysNext]_sysVars => BlocksInv'
  BY SysNextTypes, SysNextImplements DEF BlocksInv
<1>3. BlocksInv /\ [SysNext]_sysVars => [AbstractHeap!Next]_AbstractHeap!vars
  BY SysNextImplements
<1>. QED  BY <1>1, <1>2, <1>3, PTL
          DEF SysSpec, BlocksStayDisjoint, AbstractHeap!Spec
=============================================================================
