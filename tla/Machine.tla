------------------------------ MODULE Machine ------------------------------
(***************************************************************************)
(* The processor of the virtual machine (src/src/runtime/cpu.c,            *)
(* instructions.c, memory.c, vm.c): every instruction but TRAP (module     *)
(* System), one step per cpu_step.  Code[x] holds the instructions that    *)
(* the bytes at the code address x may stand for; a program is a Code with *)
(* one instruction per address, and a Code with many instructions is every *)
(* program made of them.                                                   *)
(***************************************************************************)
EXTENDS InstructionSet, Sequences

CONSTANTS
  MEM_SIZE, STACK_BASE, HEAP_BASE, DATA_BASE, N_REG,
  Code,           \* instructions by code address
  Data,           \* the initial contents of the data segment
  Entries,        \* the entry points a binary may have
  Garbage,        \* what the operand of an undecoded instruction may hold
  MaxRegister     \* the greatest register number of an operand (255)

Instruction == [op : Opcodes, mode : Modes,
                a : 0..MaxRegister, b : 0..MaxRegister, imm : Word]

ASSUME MachineAssumption ==
  /\ {MEM_SIZE, STACK_BASE, HEAP_BASE, DATA_BASE, N_REG, MaxRegister}
       \subseteq Nat \ {0}
  /\ 0 < DATA_BASE /\ DATA_BASE < HEAP_BASE /\ HEAP_BASE < STACK_BASE
  /\ \E k \in 1..MEM_SIZE : MEM_SIZE - STACK_BASE = WORD_SIZE * k
  /\ MEM_SIZE < HALF /\ DATA_BASE + WORD_SIZE <= STACK_BASE
  /\ MaxRegister + WORD_SIZE <= MEM_SIZE
  /\ WORD_SIZE * (MaxRegister - N_REG - 1) <= MEM_SIZE
  /\ Code \in [0..(DATA_BASE - 1) -> SUBSET Instruction]
  /\ Data \in [DATA_BASE..(HEAP_BASE - 1) -> Byte]
  /\ Entries \subseteq Address
  /\ Garbage \subseteq Word /\ Garbage # {}

VARIABLES
  regs,        \* vm->registers
  sp, pc,      \* vm->sp and vm->pc
  sr,          \* vm->sr
  mem,         \* vm->memory
  running,     \* vm->running
  status,      \* what the last cpu_step returned
  compared     \* history: what the last CMP compared, while its flags last

registers == <<regs, sp, sr>>
machine   == <<regs, sp, pc, sr, mem, running>>
vars      == <<regs, sp, pc, sr, mem, running, status, compared>>

Statuses == {"VM_OK", "VM_DIV_ZERO", "VM_ILL_MEM_ACCESS", "VM_ILL_REGISTER",
  "VM_STACK_UNDERFLOW", "VM_STACK_OVERFLOW", "VM_INVALID_JMP",
  "VM_INVALID_EXECUTION_ADDRESS", "VM_TRUNCATED_INSTR", "VM_UNKNOWN_INSTR",
  "SIGFPE"}           \* the process is killed: INT64_MIN / -1

None == [valid |-> FALSE, a |-> 0, b |-> 0]

(* A byte of the loaded code keeps no value of its own: what it stands for *)
(* is in Code.  The memory above the data segment is clear.                *)
CodeByte == BASE

LoadedMemory == [x \in 0..(MEM_SIZE - 1) |->
  IF x < DATA_BASE THEN CodeByte ELSE IF x < HEAP_BASE THEN Data[x] ELSE 0]

Cleared(entry) ==
  /\ regs = [r \in 0..(N_REG - 1) |-> 0]
  /\ sp = MEM_SIZE /\ sr = {"IE"} /\ pc = entry /\ running = TRUE

(* initVM, then loadProgram.                                               *)
Init ==
  /\ \E entry \in Entries : Cleared(entry)
  /\ mem = LoadedMemory
  /\ status = "VM_OK"
  /\ compared = None

----------------------------------------------------------------------------
(* What cpu_step finds at pc.                                              *)
(* instructionDecode is told of one byte less than the code segment has,   *)
(* and asks for the opcode and the mode twice.                             *)
Decodes == pc \in 0..(DATA_BASE - 3)
Fits(i) == i.mode = "NONE" \/ DATA_BASE - pc - 3 >= Size(i.mode)

(* instructionDecode ORs the bytes of the operand into a variable that     *)
(* cpu_step does not initialise.                                           *)
HasOperand(i) == i.mode \in {"IMM", "DIR", "IDX"}

Decoded(i) ==
  IF HasOperand(i)
  THEN {[i EXCEPT !.imm = Result("OR", g, i.imm)] : g \in Garbage}
  ELSE {i}

(* An instruction is fetched while none of its bytes has been overwritten. *)
(* Two bytes 0 are ADD without operands; other bytes that an instruction   *)
(* has written into the code are not decoded here.  Nothing is fetched     *)
(* where the opcode is invalid: instructionDecode exits.                   *)
Unwritten(i) ==
  \A x \in pc..(pc + (IF Fits(i) THEN Size(i.mode) ELSE 2) - 1) :
    mem[x] = CodeByte

Blank == [op |-> "ADD", mode |-> "NONE", a |-> 0, b |-> 0, imm |-> 0]

Loaded  == UNION {Decoded(i) : i \in {j \in Code[pc] : Unwritten(j)}}
Blanked == {i \in {Blank} : mem[pc] = 0 /\ mem[pc + 1] = 0}

Fetched == IF Decodes THEN Loaded \cup Blanked ELSE {}

Steps == running /\ status = "VM_OK"

(* The step of an instruction i that has been fetched.                     *)
Executes(i, ops) ==
  /\ Steps /\ Fits(i) /\ i.op \in ops /\ i.mode \in ModesOf(i.op)

(* A handler that does not return VM_OK, having changed nothing.           *)
Fail(error) == status' = error /\ UNCHANGED <<machine, compared>>

(* cpu_step moves pc past the instruction when the handler left it alone.  *)
Goto(i, target) == pc' = IF target = pc THEN pc + Size(i.mode) ELSE target
Advance(i) == Goto(i, pc)

----------------------------------------------------------------------------
(* memory.c.  The bound is tested on addr + 7, which wraps around: a word  *)
(* at one of the last 7 addresses of all counts as in memory.  Its first   *)
(* bytes are then the status register and the upper bytes of pc, which     *)
(* struct VM keeps before the memory; what is read there is left open.     *)
InMemory(addr) == (addr + WORD_SIZE - 1) % MOD < MEM_SIZE
Straddles(addr) == addr + WORD_SIZE - 1 >= MOD

BytesOfWord == 0..(WORD_SIZE - 1)

(* A byte of the loaded code reads as any byte.                            *)
Reads(x, byte) == mem[x] \in {byte, CodeByte}

WordsAt(addr) ==
  {w \in Word : Straddles(addr) \/
                \A j \in BytesOfWord : Reads(addr + j, ByteOf(w, j))}

(* memWrite64 into the memory: pc is what it would be without the write,   *)
(* unless the write reaches it.                                            *)
StoredIn(m, addr, w) == [x \in DOMAIN m |->
  LET j == (x - addr) % MOD IN
    IF j \in BytesOfWord THEN ByteOf(w, j) ELSE m[x]]

Store(addr, w) == mem' = StoredIn(mem, addr, w)

SpillStatus(addr) ==
  IF Straddles(addr) THEN sr' \in SUBSET Flags /\ compared' = None
  ELSE UNCHANGED <<sr, compared>>

SpillPc(i, addr, target) ==
  \/ Goto(i, target)
  \/ Straddles(addr) /\ pc' = MOD - 1

----------------------------------------------------------------------------
(* What evaluating an operand gives: an error, or the words it may be.     *)
Error(e)   == {[status |-> e, word |-> 0]}
Values(ws) == {[status |-> "VM_OK", word |-> w] : w \in ws}

InRange(r) == r < N_REG

MemoryMode(i) == i.mode \in {"DIR", "IND", "IDX"}

(* Operand addresses; r is the register of the modes IND and IDX.          *)
AddressOf(i, w) ==
  Unsigned(CASE i.mode = "DIR" -> i.imm
             [] i.mode = "IND" -> w
             [] i.mode = "IDX" -> Wrap(w + i.imm))

(* The checks of the two-operand instructions, in the order of the code.   *)
RegistersExist(i) ==
  InRange(i.a) /\ (i.mode \in {"REG", "IND", "IDX"} => InRange(i.b))

SourceAddress(i) == AddressOf(i, regs[i.b])

OperandErrorNoBase(i) ==                         \* mutant of OperandError
  IF ~RegistersExist(i) THEN "VM_ILL_REGISTER"
  ELSE IF MemoryMode(i) /\ ~InMemory(SourceAddress(i))
  THEN "VM_ILL_MEM_ACCESS"
  ELSE "VM_OK"

OperandError(i) ==
  IF ~RegistersExist(i) THEN "VM_ILL_REGISTER"
  ELSE IF MemoryMode(i) /\ (SourceAddress(i) < DATA_BASE
                              \/ ~InMemory(SourceAddress(i)))
  THEN "VM_ILL_MEM_ACCESS"
  ELSE "VM_OK"

Operand(i) ==
  IF OperandError(i) # "VM_OK" THEN Error(OperandError(i))
  ELSE Values(CASE i.mode = "IMM" -> {i.imm}
                [] i.mode = "REG" -> {regs[i.b]}
                [] OTHER -> WordsAt(SourceAddress(i)))

SetRegister(r, w) == regs' = [regs EXCEPT ![r] = w]

Compared(op, a, b) ==
  IF op = "CMP" THEN [valid |-> TRUE, a |-> a, b |-> b] ELSE None

----------------------------------------------------------------------------
(* Arithmetic, logic, comparison.                                          *)
UnaryStep(i) ==
  /\ Executes(i, Unary)
  /\ \/ ~InRange(i.a) /\ Fail("VM_ILL_REGISTER")
     \/ /\ InRange(i.a)
        /\ SetRegister(i.a, Result(i.op, regs[i.a], 0))
        /\ sr' = SetFlags(sr, i.op, regs[i.a], 0)
        /\ compared' = None /\ Advance(i)
        /\ UNCHANGED <<sp, mem, running, status>>

BinaryErrorNoTrap(i, v) ==                       \* mutant of BinaryError
  IF v.status # "VM_OK" THEN v.status
  ELSE IF i.op = "DIV" /\ v.word = 0 THEN "VM_DIV_ZERO"
  ELSE "VM_OK"

BinaryError(i, v) ==
  IF v.status # "VM_OK" THEN v.status
  ELSE IF i.op = "DIV" /\ v.word = 0 THEN "VM_DIV_ZERO"
  ELSE IF i.op = "DIV" /\ v.word = -1 /\ regs[i.a] = -HALF THEN "SIGFPE"
  ELSE "VM_OK"

BinaryStep(i) ==
  /\ Executes(i, Binary)
  /\ \E v \in Operand(i) :
       \/ BinaryError(i, v) # "VM_OK" /\ Fail(BinaryError(i, v))
       \/ /\ BinaryError(i, v) = "VM_OK"
          /\ IF i.op = "CMP" THEN UNCHANGED regs
             ELSE SetRegister(i.a, Result(i.op, regs[i.a], v.word))
          /\ sr' = SetFlags(sr, i.op, regs[i.a], v.word)
          /\ compared' = Compared(i.op, regs[i.a], v.word)
          /\ Advance(i)
          /\ UNCHANGED <<sp, mem, running, status>>

----------------------------------------------------------------------------
(* Moves between registers and memory.                                     *)
LD(i) ==
  /\ Executes(i, {"LD"})
  /\ \E v \in Operand(i) :
       \/ v.status # "VM_OK" /\ Fail(v.status)
       \/ /\ v.status = "VM_OK"
          /\ SetRegister(i.a, v.word) /\ Advance(i)
          /\ UNCHANGED <<sp, sr, mem, running, status, compared>>

ST(i) ==
  /\ Executes(i, {"ST"})
  /\ \/ OperandError(i) # "VM_OK" /\ Fail(OperandError(i))
     \/ /\ OperandError(i) = "VM_OK"
        /\ Store(SourceAddress(i), regs[i.a])
        /\ SpillStatus(SourceAddress(i))
        /\ SpillPc(i, SourceAddress(i), pc)
        /\ UNCHANGED <<regs, sp, running, status>>

SWP(i) ==
  /\ Executes(i, {"SWP"})
  /\ \E v \in Operand(i) :
       \/ v.status # "VM_OK" /\ Fail(v.status)
       \/ /\ v.status = "VM_OK" /\ i.mode = "REG"
          /\ regs' = [regs EXCEPT ![i.a] = regs[i.b], ![i.b] = regs[i.a]]
          /\ Advance(i)
          /\ UNCHANGED <<sp, sr, mem, running, status, compared>>
       \/ /\ v.status = "VM_OK" /\ i.mode # "REG"
          /\ SetRegister(i.a, v.word)
          /\ Store(SourceAddress(i), regs[i.a])
          /\ SpillStatus(SourceAddress(i))
          /\ SpillPc(i, SourceAddress(i), pc)
          /\ UNCHANGED <<sp, running, status>>

(* struct VM keeps the registers, sp, pc and the byte sr, in this order,   *)
(* before the memory: a register number past the last register is sp, pc,  *)
(* a word that begins with sr, or a word of the memory.                    *)
SlotPlace(r) == WORD_SIZE * (r - N_REG - 2) - 1

SlotAddress(r) == SlotPlace(r) % MOD

InTheMemory(r) == r > N_REG + 1

Slot(r) == IF InRange(r) THEN regs[r] ELSE Wrap(IF r = N_REG THEN sp ELSE pc)

SlotWords(r) == IF InTheMemory(r) THEN WordsAt(SlotAddress(r)) ELSE {Slot(r)}

(* memRead64 clears the word it reads into and adds byte after byte: where *)
(* it reads the bytes of that word, it reads what it has put there.        *)
WordsInto(r, addr) ==
  {w \in Word : Straddles(addr) \/ \A j \in BytesOfWord :
     LET k == addr + j - SlotPlace(r) IN
       IF InTheMemory(r) /\ k \in BytesOfWord
       THEN ByteOf(w, j) = IF k < j THEN ByteOf(w, k) ELSE 0
       ELSE Reads(addr + j, ByteOf(w, j))}

SetSlot(r, w) ==
  /\ regs' = IF InRange(r) THEN [regs EXCEPT ![r] = w] ELSE regs
  /\ sp' = IF r = N_REG THEN Unsigned(w) ELSE sp

PcAfter(r, w) == IF r = N_REG + 1 THEN Unsigned(w) ELSE pc

MemoryAfter(r, w) ==
  IF InTheMemory(r) THEN StoredIn(mem, SlotAddress(r), w) ELSE mem

StatusAfter(r, w) ==
  IF r = N_REG + 2 THEN sr' = FlagsOf(ByteOf(w, 0)) /\ compared' = None
  ELSE UNCHANGED <<sr, compared>>

(* FAS loads a word and stores 1.  Only FASD checks its registers; FASI    *)
(* and FASX refuse them when both do not exist.  FASI stores at the        *)
(* address i.b, FASX where its operand is once the register has been       *)
(* loaded.  v is the word of register i.b before, w the word loaded.       *)
FasError(i, v) ==
  IF IF i.mode = "DIR" THEN ~InRange(i.a) ELSE ~InRange(i.a) /\ ~InRange(i.b)
  THEN "VM_ILL_REGISTER"
  ELSE IF AddressOf(i, v) < DATA_BASE \/ ~InMemory(AddressOf(i, v))
  THEN "VM_ILL_MEM_ACCESS"
  ELSE "VM_OK"

FasStores(i, v, w) ==
  IF i.mode = "IND" THEN i.b ELSE AddressOf(i, IF i.a = i.b THEN w ELSE v)

FasLoads(i, v, w) ==
  /\ SetSlot(i.a, w)
  /\ \/ /\ InMemory(FasStores(i, v, w))
        /\ mem' = StoredIn(MemoryAfter(i.a, w), FasStores(i, v, w), 1)
        /\ IF Straddles(FasStores(i, v, w)) THEN SpillStatus(FasStores(i, v, w))
           ELSE StatusAfter(i.a, w)
        /\ SpillPc(i, FasStores(i, v, w), PcAfter(i.a, w))
        /\ UNCHANGED <<running, status>>
     \/ /\ ~InMemory(FasStores(i, v, w))
        /\ status' = "VM_ILL_MEM_ACCESS"
        /\ mem' = MemoryAfter(i.a, w) /\ StatusAfter(i.a, w)
        /\ pc' = PcAfter(i.a, w)
        /\ UNCHANGED running

FAS(i) ==
  /\ Executes(i, {"FAS"})
  /\ \E v \in SlotWords(i.b) :
       \/ FasError(i, v) # "VM_OK" /\ Fail(FasError(i, v))
       \/ /\ FasError(i, v) = "VM_OK"
          /\ \E w \in WordsInto(i.a, AddressOf(i, v)) : FasLoads(i, v, w)

----------------------------------------------------------------------------
(* The stack grows down from MEM_SIZE to STACK_BASE.                       *)
Pushed == (sp - WORD_SIZE) % MOD

PushErrorPastEnd(i) ==                           \* mutant of PushError
  IF sp < STACK_BASE THEN "VM_STACK_OVERFLOW"
  ELSE IF ~InRange(i.a) THEN "VM_ILL_REGISTER"
  ELSE IF ~InMemory(Pushed) THEN "VM_ILL_MEM_ACCESS"
  ELSE "VM_OK"

PushErrorEarly(i) ==                             \* mutant of PushError
  IF sp - WORD_SIZE <= STACK_BASE THEN "VM_STACK_OVERFLOW"
  ELSE IF ~InRange(i.a) THEN "VM_ILL_REGISTER"
  ELSE IF ~InMemory(Pushed) THEN "VM_ILL_MEM_ACCESS"
  ELSE "VM_OK"

PushError(i) ==
  IF sp <= STACK_BASE THEN "VM_STACK_OVERFLOW"
  ELSE IF ~InRange(i.a) THEN "VM_ILL_REGISTER"
  ELSE IF ~InMemory(Pushed) THEN "VM_ILL_MEM_ACCESS"
  ELSE "VM_OK"

PUSH(i) ==
  /\ Executes(i, {"PUSH"})
  /\ \/ PushError(i) # "VM_OK" /\ Fail(PushError(i))
     \/ /\ PushError(i) = "VM_OK"
        /\ sp' = Pushed
        /\ Store(Pushed, IF i.mode = "IMM" THEN i.imm ELSE regs[i.a])
        /\ Advance(i)
        /\ UNCHANGED <<regs, sr, running, status, compared>>

PopErrorPast(top, r) ==                          \* mutant of PopErrorAt
  IF top > MEM_SIZE THEN "VM_STACK_UNDERFLOW"
  ELSE IF ~InRange(r) THEN "VM_ILL_REGISTER"
  ELSE "VM_OK"

PopErrorAt(top, r) ==
  IF top >= MEM_SIZE THEN "VM_STACK_UNDERFLOW"
  ELSE IF ~InRange(r) THEN "VM_ILL_REGISTER"
  ELSE IF ~InMemory(top) THEN "VM_ILL_MEM_ACCESS"
  ELSE "VM_OK"

PopError(i) == PopErrorAt(sp, i.a)

POP(i) ==
  /\ Executes(i, {"POP"})
  /\ \/ PopError(i) # "VM_OK" /\ Fail(PopError(i))
     \/ /\ PopError(i) = "VM_OK"
        /\ \E w \in WordsAt(sp) : SetRegister(i.a, w)
        /\ sp' = sp + WORD_SIZE
        /\ Advance(i)
        /\ UNCHANGED <<sr, mem, running, status, compared>>

----------------------------------------------------------------------------
(* CALL, RTN and the jumps.  A target beyond the code is refused: CALL and *)
(* RTN compare it as a signed number, the jumps as an unsigned one.        *)
BeyondCode(i, w) ==
  IF i.op \in {"CALL", "RTN"} /\ i.mode # "IMM" THEN w >= DATA_BASE
  ELSE Unsigned(w) >= DATA_BASE

Target(i, w) ==
  IF BeyondCode(i, w) THEN Error("VM_INVALID_JMP") ELSE Values({w})

TargetIn(i, addr) ==
  IF ~InMemory(addr) THEN Error("VM_ILL_MEM_ACCESS")
  ELSE UNION {Target(i, w) : w \in WordsAt(addr)}

CallTarget(i) ==
  IF i.mode # "REGU" /\ sp <= STACK_BASE THEN Error("VM_STACK_OVERFLOW")
  ELSE IF i.mode \in {"REGU", "IND", "IDX"} /\ ~InRange(i.a)
  THEN Error("VM_ILL_REGISTER")
  ELSE IF sp <= STACK_BASE THEN Error("VM_STACK_OVERFLOW")
  ELSE CASE i.mode = "IMM"  -> Target(i, i.imm)
         [] i.mode = "REGU" -> Target(i, regs[i.a])
         [] OTHER -> TargetIn(i, AddressOf(i, regs[i.a]))

CALL(i) ==
  /\ Executes(i, {"CALL"})
  /\ \E t \in CallTarget(i) :
       \/ t.status # "VM_OK" /\ Fail(t.status)
       \/ t.status = "VM_OK" /\ ~InMemory(Pushed) /\ Fail("VM_ILL_MEM_ACCESS")
       \/ /\ t.status = "VM_OK" /\ InMemory(Pushed)
          /\ sp' = Pushed
          /\ Store(Pushed, pc + Size(i.mode))
          /\ Goto(i, Unsigned(t.word))
          /\ UNCHANGED <<regs, sr, running, status, compared>>

(* The word is compared before the outcome of the read is looked at: when  *)
(* the read fails, it is whatever the C stack holds.                       *)
ReturnTarget(i) ==
  IF InMemory(sp) THEN TargetIn(i, sp)
  ELSE Error("VM_INVALID_JMP") \cup Error("VM_ILL_MEM_ACCESS")

RTN(i) ==
  /\ Executes(i, {"RTN"})
  /\ \/ sp >= MEM_SIZE /\ Fail("VM_STACK_UNDERFLOW")
     \/ /\ sp < MEM_SIZE
        /\ \E t \in ReturnTarget(i) :
             \/ t.status # "VM_OK" /\ Fail(t.status)
             \/ /\ t.status = "VM_OK"
                /\ sp' = sp + WORD_SIZE
                /\ Goto(i, Unsigned(t.word))
                /\ UNCHANGED <<regs, sr, mem, running, status, compared>>

(* jump, jumpr, jumpd, jumpi and jumpx: a register number of N_REG passes  *)
(* their check.  jumpd wants the address of the target within the code.    *)
JumpTarget(i) ==
  IF i.mode \in {"REGU", "IND", "IDX"} /\ i.a > N_REG
  THEN Error("VM_ILL_REGISTER")
  ELSE CASE i.mode = "IMM"  -> Target(i, i.imm)
         [] i.mode = "REGU" -> Target(i, Slot(i.a))
         [] i.mode = "DIR"  ->
              IF BeyondCode(i, i.imm) THEN Error("VM_INVALID_JMP")
              ELSE TargetIn(i, Unsigned(i.imm))
         [] OTHER -> LET addr == AddressOf(i, Slot(i.a)) IN
              IF addr < DATA_BASE THEN Error("VM_ILL_MEM_ACCESS")
              ELSE TargetIn(i, addr)

(* JNEI tests for equality, as JEQI does.                                  *)
JumpsOn(i) ==
  CASE i.op = "JMP" -> TRUE
    [] i.op = "JEQ" -> Equal(sr)
    [] i.op = "JNE" -> IF i.mode = "IND" THEN Equal(sr) ELSE NotEqual(sr)
    [] i.op = "JLE" -> LessOrEqual(sr)
    [] i.op = "JLT" -> Less(sr)
    [] i.op = "JGE" -> GreaterOrEqual(sr)
    [] i.op = "JGT" -> Greater(sr)

Jump(i) ==
  /\ Executes(i, Jumps)
  /\ \/ /\ ~JumpsOn(i) /\ Advance(i)
        /\ UNCHANGED <<regs, sp, sr, mem, running, status, compared>>
     \/ /\ JumpsOn(i)
        /\ \E t \in JumpTarget(i) :
             \/ t.status # "VM_OK" /\ Fail(t.status)
             \/ /\ t.status = "VM_OK" /\ Goto(i, Unsigned(t.word))
                /\ UNCHANGED <<regs, sp, sr, mem, running, status, compared>>

----------------------------------------------------------------------------
NOP(i) ==
  /\ Executes(i, {"NOP"}) /\ Advance(i)
  /\ UNCHANGED <<regs, sp, sr, mem, running, status, compared>>

RSTKeepsMemory(i) ==                             \* mutant of RST
  /\ Executes(i, {"RST"})
  /\ regs' = [r \in 0..(N_REG - 1) |-> 0]
  /\ sp' = MEM_SIZE /\ sr' = {"IE"} /\ running' = TRUE
  /\ Goto(i, 0)
  /\ compared' = None
  /\ UNCHANGED <<mem, status>>

(* destroyVM and initVM: the program is cleared with the rest.             *)
RST(i) ==
  /\ Executes(i, {"RST"})
  /\ regs' = [r \in 0..(N_REG - 1) |-> 0]
  /\ sp' = MEM_SIZE /\ sr' = {"IE"} /\ running' = TRUE
  /\ mem' = [x \in 0..(MEM_SIZE - 1) |-> 0]
  /\ Goto(i, 0)
  /\ compared' = None
  /\ UNCHANGED status

HALT(i) ==
  /\ Executes(i, {"HALT"})
  /\ running' = FALSE /\ Advance(i)
  /\ UNCHANGED <<regs, sp, sr, mem, status, compared>>

(* What cpu_step refuses before it calls a handler.                        *)
OutOfCode == Steps /\ pc >= DATA_BASE /\ Fail("VM_INVALID_EXECUTION_ADDRESS")

(* With less than two bytes left nothing is decoded, and the opcode and    *)
(* mode are those of an uninitialised variable.                            *)
Undecoded ==
  /\ Steps /\ pc < DATA_BASE /\ ~Decodes
  /\ Fail("VM_TRUNCATED_INSTR") \/ Fail("VM_UNKNOWN_INSTR")

Truncated(i) == Steps /\ ~Fits(i) /\ Fail("VM_TRUNCATED_INSTR")

UnknownSkipped(i) ==                             \* mutant of Unknown
  /\ Steps /\ Fits(i) /\ i.mode \notin ModesOf(i.op) /\ Advance(i)
  /\ UNCHANGED <<regs, sp, sr, mem, running, status, compared>>

Unknown(i) ==
  /\ Steps /\ Fits(i) /\ i.mode \notin ModesOf(i.op)
  /\ Fail("VM_UNKNOWN_INSTR")

----------------------------------------------------------------------------
Step(i) ==
  \/ UnaryStep(i) \/ BinaryStep(i) \/ LD(i) \/ ST(i) \/ SWP(i) \/ FAS(i)
  \/ PUSH(i) \/ POP(i) \/ CALL(i) \/ RTN(i) \/ Jump(i)
  \/ NOP(i) \/ RST(i) \/ HALT(i)
  \/ Truncated(i) \/ Unknown(i)

(* vm_run ends when an instruction fails or halts the machine; the model   *)
(* also ends where nothing is fetched.                                     *)
Exit ==
  /\ Steps => Decodes /\ Fetched = {}
  /\ UNCHANGED vars

Next == \/ \E i \in Fetched : Step(i)
        \/ OutOfCode
        \/ Undecoded
        \/ Exit

Spec == Init /\ [][Next]_vars

----------------------------------------------------------------------------
(* Correctness.                                                            *)

(* Registers hold 64-bit words, memory holds bytes, sp and pc are          *)
(* unsigned words (struct VM, vm.h), and the operand of an instruction is  *)
(* a word whatever was in the variable it was decoded into (cpu.c:15).     *)
TypeOK ==
  /\ regs \in [0..(N_REG - 1) -> Word]
  /\ sp \in Address /\ pc \in Address /\ sr \subseteq Flags
  /\ mem \in [0..(MEM_SIZE - 1) -> Byte \cup {CodeByte}]
  /\ running \in BOOLEAN /\ status \in Statuses
  /\ compared \in [valid : BOOLEAN, a : Word, b : Word]
  /\ \A i \in Fetched : i.imm \in Word

(* The stack pointer stays between STACK_BASE and MEM_SIZE, a whole number *)
(* of words below the latter: the test sp <= STACK_BASE of PUSH and CALL   *)
(* and the test sp >= MEM_SIZE of POP and RTN are enough, although neither *)
(* looks at the 8 bytes that the word takes (instructions.c:1202, 1238,    *)
(* 1305, 1435).                                                            *)
StackBounds ==
  /\ \E k \in 0..MEM_SIZE : sp = MEM_SIZE - WORD_SIZE * k
  /\ STACK_BASE <= sp

(* FASI and FASX pass with one register that exists (instructions.c:1270,  *)
(* 1287): a program whose FAS load into one that exists leaves sp alone.   *)
FasRegistersExist ==
  \A x \in 0..(DATA_BASE - 1) : \A i \in Code[x] : i.op = "FAS" => InRange(i.a)

(* PUSH and CALL write to the stack segment alone, never to the heap below *)
(* it (instructions.c:1209, 1313).                                         *)
PushesInTheStack ==
  [][\A i \in Fetched : PUSH(i) \/ CALL(i) =>
       \A x \in 0..(STACK_BASE - 1) : mem'[x] = mem[x]]_vars

(* The words on the stack, the oldest first, as their bytes.               *)
StackWords ==
  [k \in 1..((MEM_SIZE - sp) \div WORD_SIZE) |->
     [j \in BytesOfWord |-> mem[MEM_SIZE - WORD_SIZE * k + j]]]

Refused == CASE status = "VM_STACK_OVERFLOW" -> "push"
             [] status = "VM_STACK_UNDERFLOW" -> "pop"
             [] OTHER -> "nothing"

AbstractStack == INSTANCE BoundedStack WITH
  Element  <- [BytesOfWord -> Byte],
  Capacity <- (MEM_SIZE - STACK_BASE) \div WORD_SIZE,
  stack    <- StackWords,
  refused  <- Refused

(* The stack segment between sp and MEM_SIZE is a bounded stack: no        *)
(* instruction changes the words below the top but a store to their        *)
(* address, overflow is reported when the segment is full and only then,   *)
(* underflow when it is empty and only then.                               *)
ImplementsBoundedStack == AbstractStack!Spec

(* The order that a conditional jump tests, of two signed words.           *)
Holds(op, a, b) ==
  CASE op = "JEQ" -> a = b  [] op = "JNE" -> a # b
    [] op = "JLE" -> a <= b [] op = "JLT" -> a < b
    [] op = "JGE" -> a >= b [] op = "JGT" -> a > b

Falls(i) == status' = "VM_OK" /\ pc' = pc + Size(i.mode)

Takes(i) == \E t \in JumpTarget(i) :
  status' = t.status /\ (t.status = "VM_OK" => Goto(i, Unsigned(t.word)))

Decides(i) == IF Holds(i.op, compared.a, compared.b) THEN Takes(i) ELSE Falls(i)

(* Whatever ran since the last CMP, a conditional jump goes by the order   *)
(* of the words that CMP was given as long as no instruction has set the   *)
(* flags again.  JNEI alone does not (instructions.c:1573-1817).           *)
JumpsFollowCompare ==
  [][\A i \in Fetched :
       /\ i.op \in CondJump /\ compared.valid
       /\ ~(i.op = "JNE" /\ i.mode = "IND")
       /\ Jump(i)
       => Decides(i)]_vars

(* The code is overwritten in four ways only: by RST; by FASI and by a     *)
(* FASX with one register for both operands, which store elsewhere than    *)
(* they load from (instructions.c:1280, 1297); by FASI and FASX when the   *)
(* register they load lies in the memory (instructions.c:1270, 1287); and  *)
(* by a store at one of the last 7 addresses, which passes the bound of    *)
(* memWrite64 (memory.c:24).                                               *)
Overwrites(i) ==
  \/ RST(i)
  \/ FAS(i) /\ \/ i.mode = "IND" \/ (i.mode = "IDX" /\ i.a = i.b)
               \/ InTheMemory(i.a)
               \/ \E v \in SlotWords(i.b) : Straddles(AddressOf(i, v))
  \/ (ST(i) \/ SWP(i)) /\ Straddles(SourceAddress(i))

CodeIsProtected ==
  [][(\E x \in 0..(DATA_BASE - 1) : mem'[x] # mem[x])
       => \E i \in Fetched : Overwrites(i)]_vars

----------------------------------------------------------------------------
(* What comments, messages and the manual say that the code does not do.   *)

(* "LD R0, 12", "LD R1, 5", "R0 = 12 + 5" (README.md:148-150): an immediate*)
(* operand is the one that the program was assembled with.                 *)
LoadsItsOperand ==
  [][\A c \in IF Decodes THEN Code[pc] ELSE {} :
       /\ Code[pc] = {c} /\ c.op = "LD" /\ c.mode = "IMM"
       /\ \E i \in Decoded(c) : LD(i)
       => regs'[c.a] = c.imm]_vars
=============================================================================
