-------------------------- MODULE AssembledProgram --------------------------
(***************************************************************************)
(* What a program of assembly lines means, said without passes, and that   *)
(* module Assembler makes just that of it (README.md, "Directives          *)
(* assembleur" and "Instructions").                                        *)
(***************************************************************************)
EXTENDS Assembler, FiniteSets

LabelLines == {k \in Lines : IsLabel(IRList[k])}
InstrLines == {k \in Lines : IsInstr(IRList[k])}
DirLines(dirs) == {k \in Lines : IsDir(IRList[k]) /\ IRList[k].dir \in dirs}

Labels == {IRList[k].name : k \in LabelLines}

(* The section of a line: the last .text or .data before it.               *)
SectionOf(k) ==
  LET before == {j \in DirLines({"TEXT", "DATA"}) : j < k} IN
  IF before = {} THEN "UNDEF"
  ELSE IRList[CHOOSE j \in before : \A m \in before : m <= j].dir

(* The bytes of the lines before a line, in either segment.                *)
Code[k \in 1..(Len(IRList) + 1)] ==
  IF k = 1 THEN 0 ELSE Code[k - 1] + TextBytes(IRList[k - 1])

Data[k \in 1..(Len(IRList) + 1)] ==
  IF k = 1 THEN 0 ELSE Data[k - 1] + DataBytes(IRList[k - 1])

LabelAddress[name \in Labels] ==
  LET k == CHOOSE k \in LabelLines : IRList[k].name = name IN
  IF SectionOf(k) = "DATA" THEN DATA_BASE + Data[k] ELSE Code[k]

(* A program is well formed when each of its lines is.                     *)
WellFormedLine(k) ==
  LET n == IRList[k] IN
  /\ References(n) \subseteq Labels
  /\ IsLabel(n) => /\ SectionOf(k) # "UNDEF"
                   /\ \A j \in LabelLines : IRList[j].name = n.name => j = k
  /\ IsDir(n) => /\ n.value.type \in OperandOf(n.dir)
                 /\ n.dir \in InData => SectionOf(k) = "DATA"
                 /\ n.dir = "ENTRY" => DirLines({"ENTRY"}) = {k}
  /\ IsInstr(n) => /\ SectionOf(k) = "TEXT"
                   /\ OperandStatus(n, "ASM_OK") = "ASM_OK"
                   /\ Mode(n) \in ModesOf(n.op)

WellFormed == \A k \in Lines : WellFormedLine(k)

(* The first instruction has no operand, so that nothing has assigned the  *)
(* status of the pass (assembler.c:80-87, 148, 223).                       *)
StartsBare == \E k \in InstrLines :
  /\ ArgsCount(IRList[k].op) = 0
  /\ \A j \in InstrLines : j < k => ArgsCount(IRList[j].op) = 0

(* A program is assembled if and only if it is well formed, but for two    *)
(* flaws of the code: an instruction without operands may be refused for a *)
(* status that was never assigned, and a table of more than SYMBOLS labels *)
(* is written past its end (assembler.c:53-66).                            *)
AcceptsWellFormed ==
  CASE outcome = "running"     -> TRUE
    [] outcome = "ASM_GARBAGE" -> StartsBare
    [] outcome = "UNDEFINED"   -> Cardinality(Labels) > SYMBOLS
    [] outcome = "ASM_OK"      -> WellFormed
    [] OTHER                   -> ~WellFormed

(* The bytes of the image are those of the lines, each at the address that *)
(* the lines before it give it, with the addresses of the labels it names, *)
(* wherever the labels stand: forward references, data before text, labels *)
(* at the end of a segment (assembler.c:132-325).                          *)
Holds(buffer, from, bytes) ==
  \A x \in DOMAIN bytes : buffer[from + x - 1] = bytes[x]

AssembledRight ==
  outcome = "ASM_OK" =>
    /\ \A k \in InstrLines :
         Holds(bin.code, Code[k], Encode(InstrOf(IRList[k], LabelAddress)))
    /\ \A k \in DirLines(InData) :
         \E bytes \in BytesOf(IRList[k], LabelAddress) :
           Holds(bin.data, Data[k], bytes)
    /\ bin.code_size = Code[Len(IRList) + 1]
    /\ bin.data_size = Data[Len(IRList) + 1]
    /\ bin.entry_point \in IF DirLines({"ENTRY"}) = {} THEN {0}
         ELSE {LabelAddress[IRList[k].value.str] : k \in DirLines({"ENTRY"})}
=============================================================================
