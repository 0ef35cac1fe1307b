----------------------------- MODULE Assembler -----------------------------
(***************************************************************************)
(* The assembler (src/src/toolchain/assembler.c): a first pass over the    *)
(* lines of the program gives the labels their addresses and the segments  *)
(* their sizes, a second pass writes the bytes.  One step per line.        *)
(***************************************************************************)
EXTENDS Codec, IR

CONSTANTS
  Programs,        \* the programs: sequences of lines, as the parser makes
  DATA_BASE,
  SYMBOLS,         \* entries of the first symbol table (16)
  SYMBOL_BYTES,    \* bytes of an entry (16)
  Pointers         \* words that the address of a string may be

VARIABLES
  IRList,          \* the program
  phase,           \* "first", "second": the pass, or "end"
  line,            \* the number of the line
  section, entry_ok,
  text_addr, data_addr,
  symtable,        \* the entries of the symbol table
  room,            \* [size: entries it believes to have, real: it has]
  status,          \* the local variable status of the pass
  bin,             \* what is written: entry point, sizes, code and data
  outcome,         \* "running", "ASM_OK", an error, or "UNDEFINED"
  at               \* history: addresses and section before each line

pass == <<section, text_addr, data_addr, status>>
vars == <<IRList, phase, line, section, entry_ok, text_addr, data_addr,
          symtable, room, status, bin, outcome, at>>

ASSUME AssemblerAssumption ==
  /\ \A p \in Programs : p \in Seq(Line)
  /\ DATA_BASE \in Nat /\ SYMBOLS \in Nat \ {0} /\ SYMBOL_BYTES \in Nat \ {0}
  /\ Pointers \subseteq Word /\ Pointers # {}

Unset == BASE          \* a byte of a buffer that malloc has just returned

Buffer(size) == [x \in 0..(size - 1) |-> Unset]

NoBin == [entry_point |-> 0, code_size |-> 0, data_size |-> 0,
          code |-> Buffer(0), data |-> Buffer(0)]

(* A local status that nothing has assigned yet.                           *)
Unassigned == {"ASM_OK", "ASM_GARBAGE"}

StartOfPassInSection(n, data) ==                 \* mutant of StartOfPass
  /\ phase' = n /\ line' = 1
  /\ text_addr' = 0 /\ data_addr' = data
  /\ status' \in Unassigned
  /\ UNCHANGED section

StartOfPassFromEnd(n, data) ==                   \* mutant of StartOfPass
  /\ phase' = n /\ line' = 1
  /\ section' = "UNDEF" /\ data_addr' = data
  /\ status' \in Unassigned
  /\ UNCHANGED text_addr

StartOfPass(n, data) ==
  /\ phase' = n /\ line' = 1
  /\ section' = "UNDEF" /\ text_addr' = 0 /\ data_addr' = data
  /\ status' \in Unassigned

Init ==
  /\ IRList \in Programs
  /\ phase = "first" /\ line = 1 /\ entry_ok = FALSE
  /\ section = "UNDEF" /\ text_addr = 0 /\ data_addr = DATA_BASE
  /\ status \in Unassigned
  /\ symtable = <<>> /\ room = [size |-> SYMBOLS, real |-> SYMBOLS]
  /\ bin = NoBin /\ outcome = "running"
  /\ at = <<[text |-> 0, data |-> DATA_BASE, section |-> "UNDEF"]>>

----------------------------------------------------------------------------
(* getModeFromOperands.  Without operands to look at, an instruction that  *)
(* wants none leaves status as it was.                                     *)
OperandMode(type) ==
  CASE type \in {"IDENT", "VALUE"} -> "IMM"
    [] type = "REG" -> "REG"
    [] type \in {"MEM_IDENT", "MEM_IDX_IDENT", "MEM_VALUE"} -> "DIR"
    [] type = "MEM_REG" -> "IND"
    [] type = "MEM_IDX" -> "IDX"
    [] OTHER -> "NONE"

Mode(n) ==
  CASE ArgsCount(n.op) = 0 -> "NONE"
    [] ArgsCount(n.op) = 1 -> IF n.a.type = "REG" THEN "REGU"
                              ELSE OperandMode(n.a.type)
    [] ArgsCount(n.op) = 2 -> OperandMode(n.b.type)

OperandStatus(n, unread) ==
  LET args == ArgsCount(n.op)  a == n.a.type  b == n.b.type
      last == IF args = 1 THEN a ELSE b
  IN IF args = 0
     THEN IF a # "NONE" \/ b # "NONE" THEN "ASM_TOO_MANY_ARGUMENTS" ELSE unread
     ELSE IF args = 1 /\ b # "NONE" THEN "ASM_TOO_MANY_ARGUMENTS"
     ELSE IF a = "NONE" \/ last = "NONE" THEN "ASM_TOO_FEW_ARGUMENTS"
     ELSE IF args = 2 /\ a # "REG" THEN "ASM_WRONG_ARGUMENT_TYPE"
     ELSE IF last = "STRING" THEN "ASM_WRONG_ARGUMENT_TYPE"
     ELSE "ASM_OK"

----------------------------------------------------------------------------
(* What a line takes and does, in both passes.                             *)
InData == {"BYTE", "WORD", "ADDR", "STRING"}

TextBytes(n) == IF IsInstr(n) THEN Size(Mode(n)) ELSE 0

DataBytes(n) ==
  IF ~IsDir(n) THEN 0
  ELSE CASE n.dir = "BYTE" -> 1
         [] n.dir \in {"WORD", "ADDR"} -> WORD_SIZE
         [] n.dir = "STRING" -> Len(n.value.bytes)
         [] OTHER -> 0

SectionAfterAny(n, s) == IF IsDir(n) THEN n.dir ELSE s   \* mutant of SectionAfter

SectionAfter(n, s) == IF IsDir(n) /\ n.dir \in {"DATA", "TEXT"} THEN n.dir ELSE s

Stop(e) ==
  /\ outcome' = e /\ phase' = "end"
  /\ UNCHANGED <<IRList, line, section, entry_ok, text_addr, data_addr,
                 symtable, room, status, bin, at>>

Lines == 1..Len(IRList)

----------------------------------------------------------------------------
(* The first pass.                                                         *)
Defined(name) == \E k \in DOMAIN symtable : symtable[k].string = name

LabelError(n) ==
  IF Defined(n.name) THEN "ASM_LABEL_REDEFINED"
  ELSE IF section = "UNDEF" THEN "ASM_SECTION_UNDEFINED" ELSE "ASM_OK"

OperandOf(dir) ==
  CASE dir = "BYTE" -> {"VALUE"}
    [] dir \in {"WORD", "ADDR"} -> {"VALUE", "IDENT"}
    [] dir = "STRING" -> {"STRING"}
    [] dir = "ENTRY" -> {"IDENT"}
    [] dir \in {"DATA", "TEXT"} -> {"NONE"}

DirectiveErrorOnce(n) ==                         \* mutant of DirectiveError
  IF n.value.type \notin OperandOf(n.dir)
  THEN IF n.dir \in {"DATA", "TEXT"} THEN "ASM_TOO_MANY_ARGUMENTS"
       ELSE "ASM_WRONG_ARGUMENT_TYPE"
  ELSE IF n.dir \in InData /\ section # "DATA" THEN "ASM_NOT_A_DATA_SECTION"
  ELSE "ASM_OK"

DirectiveError(n) ==
  IF n.value.type \notin OperandOf(n.dir)
  THEN IF n.dir \in {"DATA", "TEXT"} THEN "ASM_TOO_MANY_ARGUMENTS"
       ELSE "ASM_WRONG_ARGUMENT_TYPE"
  ELSE IF n.dir \in InData /\ section # "DATA" THEN "ASM_NOT_A_DATA_SECTION"
  ELSE IF n.dir = "ENTRY" /\ entry_ok THEN "ASM_ENTRY_REDEFINED"
  ELSE "ASM_OK"

InstrError(n) ==
  IF section # "TEXT" THEN "ASM_NOT_A_TEXT_SECTION"
  ELSE IF OperandStatus(n, status) # "ASM_OK" THEN OperandStatus(n, status)
  ELSE IF Mode(n) \notin ModesOf(n.op) THEN "ASM_INVALID_ADRESSING_MODE"
  ELSE "ASM_OK"

FirstError(n) == CASE IsLabel(n) -> LabelError(n)
                   [] IsDir(n)   -> DirectiveError(n)
                   [] IsInstr(n) -> InstrError(n)

(* addToSymbolTable asks realloc for twice the number of entries, in bytes.*)
Grown ==
  IF Len(symtable) < room.size THEN room
  ELSE [size |-> 2 * room.size, real |-> (2 * room.size) \div SYMBOL_BYTES]

SymbolAddressInText == text_addr                 \* mutant of SymbolAddress

SymbolAddress == IF section = "DATA" THEN data_addr ELSE text_addr

AddSymbol(n) ==
  IF ~IsLabel(n) THEN UNCHANGED <<symtable, room>>
  ELSE /\ room' = Grown
       /\ symtable' = Append(symtable, [string |-> n.name,
                                        addr |-> SymbolAddress])

AssignStatus(n) ==
  status' = IF IsInstr(n) THEN OperandStatus(n, status) ELSE status

FirstPass(n) ==
  \/ FirstError(n) # "ASM_OK" /\ Stop(FirstError(n))
  \/ /\ FirstError(n) = "ASM_OK"
     /\ IsLabel(n) /\ Len(symtable) >= Grown.real
     /\ Stop("UNDEFINED")
  \/ /\ FirstError(n) = "ASM_OK"
     /\ IsLabel(n) => Len(symtable) < Grown.real
     /\ AddSymbol(n) /\ AssignStatus(n)
     /\ section' = SectionAfter(n, section)
     /\ entry_ok' = (entry_ok \/ (IsDir(n) /\ n.dir = "ENTRY"))
     /\ text_addr' = text_addr + TextBytes(n)
     /\ data_addr' = data_addr + DataBytes(n)
     /\ line' = line + 1
     /\ at' = Append(at, [text |-> text_addr', data |-> data_addr',
                          section |-> section'])
     /\ UNCHANGED <<IRList, phase, bin, outcome>>

FirstLine == /\ phase = "first" /\ line \in Lines
             /\ FirstPass(IRList[line])

(* Between the passes: the sizes are known, and the buffers allocated.     *)
EndOfFirst ==
  /\ phase = "first" /\ line \notin Lines
  /\ bin' = [bin EXCEPT !.code_size = text_addr,
                        !.data_size = data_addr - DATA_BASE,
                        !.code = Buffer(text_addr),
                        !.data = Buffer(data_addr - DATA_BASE)]
  /\ StartOfPass("second", 0)
  /\ UNCHANGED <<IRList, entry_ok, symtable, room, outcome, at>>

----------------------------------------------------------------------------
(* The second pass.                                                        *)
Symbols == [s \in {symtable[k].string : k \in DOMAIN symtable} |->
  symtable[CHOOSE k \in DOMAIN symtable : symtable[k].string = s].addr]

Named == {"IDENT", "MEM_IDENT", "MEM_IDX_IDENT"}

Source(n) == IF ArgsCount(n.op) <= 1 THEN n.a ELSE n.b

(* The label that a line refers to, if it does.                            *)
References(n) ==
  CASE IsLabel(n) -> {}
    [] IsDir(n) -> IF n.dir \in {"ADDR", "ENTRY"} /\ n.value.type = "IDENT"
                   THEN {n.value.str} ELSE {}
    [] IsInstr(n) -> IF Source(n).type \in Named THEN {Source(n).str} ELSE {}

OperandWord(o, addr) ==
  CASE o.type \in {"VALUE", "MEM_VALUE", "MEM_IDX"} -> o.value
    [] o.type \in {"IDENT", "MEM_IDENT"} -> Wrap(addr[o.str])
    [] o.type = "MEM_IDX_IDENT" -> Wrap(addr[o.str] + o.value)
    [] OTHER -> 0

BaseRegister(o) == IF o.type \in {"REG", "MEM_REG", "MEM_IDX"} THEN o.reg ELSE 0

(* The instruction of a line, where the labels have the addresses addr.    *)
InstrOf(n, addr) ==
  LET two == ArgsCount(n.op) = 2 IN
  [op |-> n.op, mode |-> Mode(n),
   a  |-> IF two THEN n.a.reg ELSE BaseRegister(Source(n)),
   b  |-> IF two THEN BaseRegister(Source(n)) ELSE 0,
   imm |-> OperandWord(Source(n), addr)]

(* The bytes of a line of data.  A .word with a name falls into the same   *)
(* union: what is written is the address of the name in the assembler.     *)
BytesOf(n, addr) ==
  IF n.dir = "BYTE" THEN {<<Unsigned(n.value.value) % BASE>>}
  ELSE IF n.dir = "STRING" THEN {n.value.bytes}
  ELSE IF n.dir = "ADDR" /\ n.value.type = "IDENT"
  THEN {BytesOfWord(Wrap(addr[n.value.str]))}
  ELSE IF n.value.type = "IDENT" THEN {BytesOfWord(p) : p \in Pointers}
  ELSE {BytesOfWord(n.value.value)}

SecondError(n) ==
  IF IsDir(n) /\ n.dir \in InData /\ section # "DATA"
  THEN "ASM_NOT_A_DATA_SECTION"
  ELSE IF IsInstr(n) /\ section # "TEXT" THEN "ASM_NOT_A_TEXT_SECTION"
  ELSE IF IsInstr(n) /\ OperandStatus(n, status) # "ASM_OK"
  THEN OperandStatus(n, status)
  ELSE IF References(n) \subseteq DOMAIN Symbols THEN "ASM_OK"
  ELSE "ASM_LABEL_UNDEFINED"

Put(buffer, from, bytes) == [x \in DOMAIN buffer |->
  IF x - from + 1 \in DOMAIN bytes THEN bytes[x - from + 1] ELSE buffer[x]]

AdvanceTo(n) ==
  /\ line' = line + 1
  /\ section' = SectionAfter(n, section)
  /\ text_addr' = text_addr + TextBytes(n)
  /\ data_addr' = data_addr + DataBytes(n)
  /\ AssignStatus(n)
  /\ UNCHANGED <<IRList, phase, entry_ok, symtable, room, outcome, at>>

WriteInstr(n) ==
  /\ IsInstr(n)
  /\ LET room_left == bin.code_size - text_addr IN
       \/ room_left < 0 /\ Stop("UNDEFINED")
       \/ /\ room_left >= 0
          /\ bin' = [bin EXCEPT !.code = Put(bin.code, text_addr,
                       EncodedIn(InstrOf(n, Symbols), room_left))]
          /\ AdvanceTo(n)

WriteData(n) ==
  /\ IsDir(n) /\ n.dir \in InData
  /\ \E bytes \in BytesOf(n, Symbols) :
       \/ data_addr + Len(bytes) > bin.data_size /\ Stop("UNDEFINED")
       \/ /\ data_addr + Len(bytes) <= bin.data_size
          /\ bin' = [bin EXCEPT !.data = Put(bin.data, data_addr, bytes)]
          /\ AdvanceTo(n)

WriteEntry(n) ==
  /\ IsDir(n) /\ n.dir = "ENTRY"
  /\ bin' = [bin EXCEPT !.entry_point = Symbols[n.value.str]]
  /\ AdvanceTo(n)

WriteNothing(n) ==
  /\ IsLabel(n) \/ (IsDir(n) /\ n.dir \in {"DATA", "TEXT"})
  /\ UNCHANGED bin /\ AdvanceTo(n)

SecondPass(n) ==
  \/ SecondError(n) # "ASM_OK" /\ Stop(SecondError(n))
  \/ /\ SecondError(n) = "ASM_OK"
     /\ WriteInstr(n) \/ WriteData(n) \/ WriteEntry(n) \/ WriteNothing(n)

SecondLine == /\ phase = "second" /\ line \in Lines
              /\ SecondPass(IRList[line])

EndOfSecond == phase = "second" /\ line \notin Lines /\ Stop("ASM_OK")

Exit == phase = "end" /\ UNCHANGED vars

Next == FirstLine \/ EndOfFirst \/ SecondLine \/ EndOfSecond \/ Exit

Spec == Init /\ [][Next]_vars

----------------------------------------------------------------------------
(* Correctness.                                                            *)

(* Sections, addresses and buffers are what struct Assembler and the local *)
(* variables of the passes can hold (assembler.h, assembler.c:134-150).    *)
TypeOK ==
  /\ phase \in {"first", "second", "end"}
  /\ line \in 1..(Len(IRList) + 1)
  /\ section \in {"UNDEF", "TEXT", "DATA"} /\ entry_ok \in BOOLEAN
  /\ text_addr \in Nat /\ data_addr \in Nat
  /\ symtable \in Seq([string : STRING, addr : Nat])
  /\ DOMAIN bin.code = 0..(bin.code_size - 1)
  /\ DOMAIN bin.data = 0..(bin.data_size - 1)

(* The second pass comes to every line with the addresses and the section  *)
(* that the first pass had there: what was promised to the labels is where *)
(* the bytes go (assembler.c:152-209 and 235-322 count separately, the     *)
(* first from DATA_BASE, the second from 0, each with a size of its own).  *)
PassesAgree ==
  phase = "second" =>
    /\ section = at[line].section
    /\ text_addr = at[line].text
    /\ DATA_BASE + data_addr = at[line].data

(* What the second pass is about to write lies inside of the buffers that  *)
(* malloc returned for the sizes the first pass counted, and they are full *)
(* at the end: nothing else guards the writes (assembler.c:210-211,        *)
(* 230-231, 244-273, 319).                                                 *)
WritesFit ==
  phase = "second" =>
    /\ line \in Lines =>
         /\ text_addr + TextBytes(IRList[line]) <= bin.code_size
         /\ data_addr + DataBytes(IRList[line]) <= bin.data_size
    /\ line \notin Lines =>
         /\ text_addr = bin.code_size
         /\ data_addr = bin.data_size

(* Behind the second pass every byte of malloc's buffers is written: no    *)
(* line writes less than the address counters advance by, so that no byte  *)
(* of the image is left to chance (assembler.c:244-273, 319).              *)
WrittenUpTo(buffer, end) ==
  \A x \in DOMAIN buffer : x < end => buffer[x] # Unset

ImageIsWhole ==
  phase = "second" => /\ WrittenUpTo(bin.code, text_addr)
                      /\ WrittenUpTo(bin.data, data_addr)
=============================================================================
