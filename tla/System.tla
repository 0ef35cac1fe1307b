------------------------------- MODULE System -------------------------------
(***************************************************************************)
(* The virtual machine as a whole: the processor of module Machine, the    *)
(* heap of module Allocator, and the syscalls that the instruction TRAP    *)
(* gives the program (instrTRAP, the syscall handlers and dispatchSyscalls *)
(* in src/src/runtime/instructions.c).  A syscall pops its arguments into  *)
(* register 0, one after the other, and leaves its result there.           *)
(***************************************************************************)
EXTENDS Machine

CONSTANTS
  INT_HALF,     \* 2^31: half of the values of a C int
  Input,        \* the bytes that a file or the standard input may give
  Results,      \* what write, open, close and scanf may give
  MaxRead,      \* bound on the bytes that one read gives
  MaxNodes      \* bound on the length of the node list

ASSUME SystemAssumption ==
  /\ INT_HALF \in Nat /\ INT_HALF > 31
  /\ Input \subseteq Byte /\ Results \subseteq Word
  /\ MaxRead \in Nat /\ MaxNodes \in Nat

VARIABLES
  memblocks,    \* vm->memblocks
  held          \* history: the blocks malloc gave that free has not ended

heap    == <<memblocks, held>>
sysVars == <<vars, heap>>

A == INSTANCE Allocator

SysInit == Init /\ memblocks = A!InitialNodes /\ held = {}

----------------------------------------------------------------------------
(* The arguments: the words that n pops into register 0 take off the stack.*)
TopByBytes(k) == sp + k - 1                      \* mutant of Top

Top(k) == sp + WORD_SIZE * (k - 1)

PopStatus(k) == PopErrorAt(Top(k), 0)
Poppable(n)  == \A k \in 1..n : PopStatus(k) = "VM_OK"
Arguments(k) == IF Poppable(k) THEN WordsAt(Top(k)) ELSE {}

(* The conversion to int.                                                  *)
CInt(w) == ((w + INT_HALF) % (2 * INT_HALF)) - INT_HALF

SyscallId == CInt(regs[0])

Calls(i, id) == Executes(i, {"TRAP"}) /\ SyscallId = id

ReturnsPast(k, w, e) ==                          \* mutant of Returns
  /\ sp' = Top(k + 1) /\ SetRegister(0, w) /\ status' = e
  /\ pc' = pc + Size("NONE")
  /\ UNCHANGED <<sr, compared>>

(* The handler has popped k words, leaves w in register 0 and returns e.   *)
Returns(k, w, e) ==
  /\ sp' = Top(k + 1) /\ SetRegister(0, w) /\ status' = e
  /\ pc' = IF e = "VM_OK" THEN pc + Size("NONE") ELSE pc
  /\ UNCHANGED <<sr, compared>>

Quiet == UNCHANGED <<mem, running, heap>>

(* The first pop that fails ends the call: what the earlier ones took is   *)
(* gone, and register 0 has the last of it.                                *)
LastPopped(k) == IF k = 0 THEN {regs[0]} ELSE Arguments(k)

PopFails(k) ==
  /\ Poppable(k - 1) /\ PopStatus(k) # "VM_OK"
  /\ \E w \in LastPopped(k - 1) : Returns(k - 1, w, PopStatus(k))
  /\ Quiet

PopsFail(n) == \E k \in 1..n : PopFails(k)

Writes(addr, bytes) == mem' = [x \in DOMAIN mem |->
  IF x - addr \in DOMAIN bytes THEN bytes[x - addr] ELSE mem[x]]

Strings(n) == [0..(n - 1) -> Input]

(* A handler adds an address of 64 bits to vm->memory: one of the last     *)
(* addresses of all lies as many bytes before the memory, where struct VM  *)
(* keeps sr, pc, sp and the registers.  Below is the number of these bytes.*)
Below == WORD_SIZE * (N_REG + 2) + 1

InTheVM(addr, offsets) ==
  \A x \in offsets : addr + x \in (-Below)..(MEM_SIZE - 1)

(* The word of slot r, which was w, once bytes have been written at addr.  *)
Overlaid(r, w, addr, bytes) ==
  WordOfBytes([j \in BytesOfWord |->
    LET x == SlotPlace(r) + j - addr IN
      IF x \in DOMAIN bytes THEN bytes[x] ELSE ByteOf(w, j)])

OverlaidPc(addr, bytes) == Unsigned(Overlaid(N_REG + 1, pc, addr, bytes))

(* As Returns(k, 0, "VM_OK"), with bytes written at an address before the  *)
(* memory after the pops and before the result.                            *)
ReturnsOver(k, addr, bytes) ==
  /\ sp' = Unsigned(Overlaid(N_REG, Top(k + 1), addr, bytes))
  /\ regs' = [r \in DOMAIN regs |->
               IF r = 0 THEN 0 ELSE Overlaid(r, regs[r], addr, bytes)]
  /\ pc' = IF OverlaidPc(addr, bytes) = pc THEN pc + Size("NONE")
           ELSE OverlaidPc(addr, bytes)
  /\ IF -1 - addr \in DOMAIN bytes
     THEN sr' = FlagsOf(bytes[-1 - addr]) /\ compared' = None
     ELSE UNCHANGED <<sr, compared>>
  /\ status' = "VM_OK"

(* The handler has popped k words, the last of them w, and writes bytes at *)
(* addr.  Out of struct VM it is undefined what it does.                   *)
Puts(k, w, addr, bytes) ==
  \/ /\ InTheVM(addr, DOMAIN bytes)
     /\ Writes(addr, bytes)
     /\ IF addr < 0 THEN ReturnsOver(k, addr, bytes) ELSE Returns(k, 0, "VM_OK")
     /\ UNCHANGED <<running, heap>>
  \/ /\ ~InTheVM(addr, DOMAIN bytes)
     /\ Returns(k, w, "UNDEFINED") /\ Quiet

OutOfTheHeap(addr) == addr < HEAP_BASE \/ addr >= STACK_BASE

----------------------------------------------------------------------------
(* Files and terminal.                                                     *)

(* write, open and close: what the operating system answers is in register *)
(* 0, and the memory is only read.                                         *)
FilePops == [id \in {0, 3, 4} |-> IF id = 0 THEN 3 ELSE 1]

FileCall(i) == \E id \in DOMAIN FilePops :
  /\ Calls(i, id)
  /\ \/ PopsFail(FilePops[id])
     \/ /\ Poppable(FilePops[id])
        /\ \E r \in Results : Returns(FilePops[id], r, "VM_OK")
        /\ Quiet

(* read looks at the address before it pops the size, and not at all at    *)
(* where the bytes end: past the memory they change what follows it.       *)
ReadFile(i) ==
  /\ Calls(i, 1)
  /\ \/ PopsFail(2)
     \/ \E addr \in Arguments(2) :
          /\ OutOfTheHeap(Unsigned(addr))
          /\ Returns(2, addr, "VM_OUT_OF_THE_HEAP") /\ Quiet
     \/ \E addr \in Arguments(2) :
          /\ ~OutOfTheHeap(Unsigned(addr))
          /\ \/ PopFails(3)
             \/ Poppable(3) /\ Returns(3, -1, "VM_OK") /\ Quiet
             \/ \E size \in Arguments(3), n \in 0..MaxRead :
                  /\ n <= Unsigned(size)
                  /\ \/ /\ addr + n <= MEM_SIZE
                        /\ \E bytes \in Strings(n) : Writes(addr, bytes)
                        /\ Returns(3, n, "VM_OK")
                        /\ UNCHANGED <<running, heap>>
                     \/ /\ addr + n > MEM_SIZE
                        /\ Returns(3, size, "UNDEFINED") /\ Quiet

PrintInt(i) ==
  /\ Calls(i, 5)
  /\ \/ PopsFail(1)
     \/ Poppable(1) /\ Returns(1, 0, "VM_OK") /\ Quiet

(* printf reads up to the next byte 0, which may be one of the code or of  *)
(* what lies before the memory.                                            *)
EndsAfter(addr) ==
  addr >= -Below /\ \E x \in DOMAIN mem : x >= addr /\ mem[x] = 0

PrintStr(i) ==
  /\ Calls(i, 6)
  /\ \/ PopsFail(1)
     \/ \E addr \in Arguments(1) :
          /\ \/ /\ EndsAfter(addr) \/ addr \in (-Below)..(DATA_BASE - 1)
                /\ Returns(1, 0, "VM_OK")
             \/ ~EndsAfter(addr) /\ Returns(1, addr, "UNDEFINED")
          /\ Quiet

(* scanf writes register 0 itself.                                         *)
ReadInt(i) ==
  /\ Calls(i, 7)
  /\ \E r \in Results \cup {-1} : Returns(0, r, "VM_OK")
  /\ Quiet

(* The sum of address and size is tested where it wraps around: an address *)
(* near the end of all passes with the size that brings the sum back below *)
(* STACK_BASE.  fgets takes the size as an int, reads nothing when it is   *)
(* not positive, and ends what it has read with a byte 0.                  *)
StrRefused(addr, size) ==
  \/ Unsigned(addr) < HEAP_BASE
  \/ (Unsigned(addr) + Unsigned(size)) % MOD >= STACK_BASE

Line(n, text) == [x \in 0..n |-> IF x = n THEN 0 ELSE text[x]]

ReadStr(i) ==
  /\ Calls(i, 8)
  /\ \/ PopsFail(2)
     \/ \E addr \in Arguments(1), size \in Arguments(2) :
          \/ /\ StrRefused(addr, size)
             /\ Returns(2, size, "VM_OUT_OF_THE_HEAP") /\ Quiet
          \/ /\ ~StrRefused(addr, size)
             /\ Returns(2, -1, "VM_OK") /\ Quiet
          \/ /\ ~StrRefused(addr, size)
             /\ \E n \in 0..(CInt(size) - 1) : \E text \in Strings(n) :
                  /\ n = 0 => CInt(size) = 1
                  /\ Puts(2, size, addr, Line(n, text))

ExitCall(i) ==
  /\ Calls(i, 9)
  /\ \/ PopsFail(1)
     \/ \E code \in Arguments(1) :
          /\ Returns(1, code, "VM_OK")
          /\ running' = FALSE
          /\ UNCHANGED <<mem, heap>>

----------------------------------------------------------------------------
(* The heap.  When there is no block, register 0 is an uninitialised ptr.  *)
Malloc(i) ==
  /\ Calls(i, 10)
  /\ \/ PopsFail(1)
     \/ \E size \in Arguments(1) :
          \/ /\ A!NoFit(memblocks, Unsigned(size))
             /\ \E ptr \in Garbage : Returns(1, ptr, "VM_HEAP_OUT_OF_MEMORY")
             /\ Quiet
          \/ /\ Len(memblocks) < MaxNodes
             /\ \E n \in 1..Len(memblocks) :
                  /\ A!IsFirstFit(memblocks, n, Unsigned(size))
                  /\ memblocks' = A!Carve(memblocks, n, Unsigned(size))
                  /\ held' = held \cup {[addr |-> memblocks[n].begin,
                                         size |-> Unsigned(size)]}
                  /\ Returns(1, memblocks[n].begin, "VM_OK")
             /\ UNCHANGED <<mem, running>>

Free(i) ==
  /\ Calls(i, 11)
  /\ \/ PopsFail(1)
     \/ \E ptr \in Arguments(1) :
          \/ /\ OutOfTheHeap(Unsigned(ptr))
             /\ Returns(1, ptr, "VM_FREE_OUT_OF_THE_HEAP") /\ Quiet
          \/ /\ ~OutOfTheHeap(Unsigned(ptr)) /\ A!NoNodeAt(memblocks, ptr)
             /\ Returns(1, ptr, "VM_MEM_ALREADY_FREE") /\ Quiet
          \/ /\ ~OutOfTheHeap(Unsigned(ptr))
             /\ \E n \in 1..Len(memblocks) :
                  /\ A!IsFirstAt(memblocks, n, ptr)
                  /\ memblocks' = A!Release(memblocks, n)
             /\ held' = {b \in held : b.addr # ptr}
             /\ Returns(1, ptr, "VM_OK")
             /\ UNCHANGED <<mem, running>>

----------------------------------------------------------------------------
(* Memory.  memset tests an end that wraps around, as read_str does.       *)
FillRefusedByEnd(ptr, size) ==                   \* mutant of FillRefused
  (Unsigned(ptr) + Unsigned(size)) % MOD >= MEM_SIZE

FillRefused(ptr, size) ==
  \/ Unsigned(ptr) < HEAP_BASE
  \/ (Unsigned(ptr) + Unsigned(size)) % MOD >= MEM_SIZE

FillByteWide(value) == Unsigned(value)           \* mutant of FillByte

FillByte(value) == Unsigned(value) % BASE

Memset(i) ==
  /\ Calls(i, 12)
  /\ \/ PopsFail(3)
     \/ \E ptr \in Arguments(1), value \in Arguments(2),
           size \in Arguments(3) :
          \/ /\ FillRefused(ptr, size)
             /\ Returns(3, size, "VM_ILL_MEM_ACCESS") /\ Quiet
          \/ /\ ~FillRefused(ptr, size)
             /\ Puts(3, size, ptr,
                     [x \in 0..(Unsigned(size) - 1) |-> FillByte(value)])

(* memcpy checks nothing.  C defines it when neither end leaves struct VM  *)
(* and they do not overlap.  What is copied from before the memory, or     *)
(* from the code over the code, is left open.                              *)
CopyDefined(dest, src, n) ==
  /\ InTheVM(dest, 0..(n - 1)) /\ InTheVM(src, 0..(n - 1))
  /\ dest + n <= src \/ src + n <= dest

IsLoose(dest, src) == src < 0 \/ (mem[src] = CodeByte /\ dest < DATA_BASE)

Copies(dest, src, n) ==
  LET Loose == {x \in 0..(n - 1) : IsLoose(dest + x, src + x)}
  IN {[x \in 0..(n - 1) |-> IF x \in Loose THEN any[x] ELSE mem[src + x]] :
        any \in [Loose -> Byte]}

Memcpy(i) ==
  /\ Calls(i, 13)
  /\ \/ PopsFail(3)
     \/ \E dest \in Arguments(1), src \in Arguments(2), size \in Arguments(3) :
          LET n == Unsigned(size) IN
          \/ /\ ~CopyDefined(dest, src, n)
             /\ Returns(3, size, "UNDEFINED") /\ Quiet
          \/ /\ CopyDefined(dest, src, n)
             /\ \E bytes \in Copies(dest, src, n) : Puts(3, size, dest, bytes)

----------------------------------------------------------------------------
(* Dumps, and the numbers that are no syscall.                             *)
Dump(i) ==
  /\ \E id \in {14, 15} : Calls(i, id)
  /\ Returns(0, regs[0], "VM_OK") /\ Quiet

DumpMem(i) ==
  /\ Calls(i, 16)
  /\ \/ PopsFail(2)
     \/ \E ptr \in Arguments(1), size \in Arguments(2) :
          LET end == (Unsigned(ptr) + Unsigned(size)) % MOD IN
          /\ Returns(2, size, IF end > MEM_SIZE THEN "VM_ILL_MEM_ACCESS"
                              ELSE IF InTheVM(ptr, 0..(Unsigned(size) - 1))
                              THEN "VM_OK" ELSE "UNDEFINED")
          /\ Quiet

(* The table has 32 entries, of which 2 and the last 15 are empty; any     *)
(* other number takes whatever lies beside it for a handler.               *)
NoSyscall(i) ==
  /\ \E id \in {2} \cup 17..31 : Calls(i, id)
  /\ Fail("VM_UNKNOWN_SYSCALL") /\ UNCHANGED heap

OutOfTheTable(i) ==
  /\ Executes(i, {"TRAP"}) /\ SyscallId \notin 0..31
  /\ Fail("UNDEFINED") /\ UNCHANGED heap

TRAP(i) ==
  \/ FileCall(i) \/ ReadFile(i) \/ PrintInt(i) \/ PrintStr(i) \/ ReadInt(i)
  \/ ReadStr(i) \/ ExitCall(i) \/ Malloc(i) \/ Free(i) \/ Memset(i)
  \/ Memcpy(i) \/ Dump(i) \/ DumpMem(i) \/ NoSyscall(i) \/ OutOfTheTable(i)

(* RST builds a new list of one free node.                                 *)
Resets(i) == Executes(i, {"RST"})

Instructions(i) ==
  /\ Step(i)
  /\ memblocks' = IF Resets(i) THEN A!InitialNodes ELSE memblocks
  /\ UNCHANGED held

(* The model also ends where the node list has reached its bound.          *)
SysExit ==
  /\ \/ Exit
     \/ Len(memblocks) = MaxNodes /\ \E i \in Fetched : Calls(i, 10)
  /\ UNCHANGED sysVars

SysNext ==
  \/ \E i \in Fetched : Instructions(i) \/ TRAP(i)
  \/ (OutOfCode \/ Undecoded) /\ UNCHANGED heap
  \/ SysExit

(* vm_run takes one step after the other.                                  *)
SysSpec == SysInit /\ [][SysNext]_sysVars /\ WF_sysVars(SysNext)

----------------------------------------------------------------------------
(* Correctness.                                                            *)

(* The parts of the machine, with the errors that only syscalls return,    *)
(* and a list of nodes (struct VM, vm.h).                                  *)
SysTypeOK ==
  /\ regs \in [0..(N_REG - 1) -> Word] /\ sp \in Address /\ pc \in Address
  /\ mem \in [0..(MEM_SIZE - 1) -> Byte \cup {CodeByte}]
  /\ status \in Statuses \cup {"VM_UNKNOWN_SYSCALL", "VM_HEAP_OUT_OF_MEMORY",
       "VM_MEM_ALREADY_FREE", "VM_OUT_OF_THE_HEAP", "VM_FREE_OUT_OF_THE_HEAP",
       "UNDEFINED"}
  /\ memblocks \in Seq(A!Node)
  /\ held \subseteq [addr : Nat, size : Nat]

AbstractHeap == INSTANCE AbstractHeap WITH
  inUse <- {b \in held : b.size > 0}, failed <- status # "VM_OK"

(* malloc and free keep the promise of AbstractHeap to the program that    *)
(* calls them, even though RST builds a new list while the program still   *)
(* holds its blocks: it clears the program with the rest, so none of them  *)
(* is handed out again (instructions.c:1462-1467, 1981-2008).              *)
BlocksStayDisjoint == AbstractHeap!Spec

(* The syscalls pop too, and keep sp in the stack segment: a pop that fails*)
(* half-way does not take it past the end (instructions.c:1836-2108).      *)
(* Alone read_str, memset and memcpy at an address before the memory, which*)
(* their tests let through when the sum wraps around, may write sp itself  *)
(* (instructions.c:1964, 2017, 2042).                                      *)
WritesBefore(i) ==
  (ReadStr(i) \/ Memset(i) \/ Memcpy(i)) /\ \E addr \in Arguments(1) : addr < 0

SysStackBounds ==
  /\ StackBounds
  /\ [][StackBounds => StackBounds' \/ \E i \in Fetched : WritesBefore(i)]_sysVars

(* Only what is known to overwrite the program does: the instructions of   *)
(* Overwrites, memcpy, which checks nothing, and read_str and memset at an *)
(* address before the memory.  At any other address no byte that read,     *)
(* read_str or memset writes lies in the code or the data segment          *)
(* (instructions.c:1870, 1964, 2017).                                      *)
ProgramIsProtected ==
  [][\A x \in 0..(HEAP_BASE - 1) : mem'[x] # mem[x] =>
       \E i \in Fetched :
         \/ Overwrites(i) \/ Memcpy(i) \/ WritesBefore(i)
         \/ x >= DATA_BASE /\ Step(i)]_sysVars

(* A syscall that fails has taken some of its arguments off the stack and  *)
(* changed nothing else: neither the memory, nor the heap, nor pc          *)
(* (instructions.c:1836-2108, every handler that returns before its end).  *)
FailedSyscallsOnlyPop ==
  [][\A i \in Fetched :
       status' # "VM_OK" /\ TRAP(i)
         => /\ \E k \in 0..3 : sp' = sp + WORD_SIZE * k
            /\ UNCHANGED <<sr, pc, mem, running, heap>>
            /\ \A r \in DOMAIN regs \ {0} : regs'[r] = regs[r]]_sysVars

(* RST resets the machine and clears its program: a machine whose memory  *)
(* is clear ends with an unknown instruction, and never keeps running      *)
(* (instructions.c:1462-1467, cpu.c:24-27).                                *)
Blanks == \A x \in DOMAIN mem : mem[x] = 0

ResetEnds == Blanks /\ Decodes ~> status = "VM_UNKNOWN_INSTR"
=============================================================================
