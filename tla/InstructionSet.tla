--------------------------- MODULE InstructionSet ---------------------------
(***************************************************************************)
(* The instructions that the assembler and the processor share             *)
(* (src/include/instructions.h, dispatch and dispatchArgsCount in          *)
(* src/src/runtime/instructions.c): opcodes, modes, the bytes they take,   *)
(* the operands an opcode wants and the modes it has a handler for.        *)
(***************************************************************************)
EXTENDS Words

Modes == {"NONE", "IMM", "REGU", "REG", "DIR", "IND", "IDX"}

Unary    == {"NEG", "NOT"}
Shifts   == {"SHL", "SHR"}
Binary   == {"ADD", "SUB", "MUL", "DIV", "CMP", "AND", "OR", "XOR"} \cup Shifts
CondJump == {"JEQ", "JNE", "JLE", "JLT", "JGE", "JGT"}
Jumps    == CondJump \cup {"JMP"}
Bare     == {"RTN", "NOP", "RST", "HALT", "TRAP"}
Opcodes  == Unary \cup Binary \cup Jumps \cup Bare \cup
            {"ST", "LD", "SWP", "PUSH", "POP", "FAS", "CALL"}

(* Opcodes and modes in the order of their numbers.                        *)
OpcodeList ==
  <<"ADD", "SUB", "MUL", "DIV", "CMP", "NEG", "AND", "OR", "XOR", "NOT",
    "SHL", "SHR", "ST", "LD", "SWP", "PUSH", "POP", "FAS", "CALL", "RTN",
    "NOP", "RST", "JMP", "JEQ", "JNE", "JLE", "JLT", "JGE", "JGT", "HALT",
    "TRAP">>

ModeList == <<"NONE", "IMM", "REGU", "REG", "DIR", "IND", "IDX">>

(* The bytes of an instruction of a mode: opcode, mode, registers, word.   *)
Size(mode) ==
  CASE mode = "NONE" -> 2
    [] mode = "REGU" -> 3
    [] mode \in {"REG", "IND"} -> 4
    [] mode \in {"IMM", "DIR"} -> 3 + WORD_SIZE
    [] mode = "IDX" -> 4 + WORD_SIZE

ModesOf(op) ==
  CASE op \in Binary \cup {"LD"} -> {"IMM", "REG", "DIR", "IND", "IDX"}
    [] op \in Unary \cup {"POP"} -> {"REGU"}
    [] op \in {"ST", "FAS"} -> {"DIR", "IND", "IDX"}
    [] op = "SWP" -> {"REG", "DIR", "IND", "IDX"}
    [] op = "PUSH" -> {"IMM", "REGU"}
    [] op \in Jumps \cup {"CALL"} ->
         {"IMM", "REGU", "DIR", "IND", "IDX"}
    [] op \in Bare -> {"NONE"}

(* getArgsCount: the operands that the assembler wants.                    *)
ArgsCount(op) ==
  CASE op \in Binary \cup {"ST", "LD", "SWP", "FAS"} -> 2
    [] op \in Unary \cup Jumps \cup {"PUSH", "POP", "CALL"} -> 1
    [] op \in Bare -> 0
=============================================================================
