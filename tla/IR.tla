--------------------------------- MODULE IR ---------------------------------
(***************************************************************************)
(* What the parser gives the assembler (src/include/parser.h): a list of   *)
(* lines, each a label, a directive or an instruction with its operands.   *)
(***************************************************************************)
EXTENDS InstructionSet, Sequences

(* An operand: its type, and those of the fields that its type has.  The   *)
(* offset of an indexed operand is its value.                              *)
OperandTypes == {"NONE", "VALUE", "REG", "IDENT", "STRING", "MEM_IDENT",
                 "MEM_VALUE", "MEM_REG", "MEM_IDX", "MEM_IDX_IDENT"}

Operand == [type : OperandTypes, reg : Byte, value : Word,
            str : STRING, bytes : Seq(Byte)]

NoOperand == [type |-> "NONE", reg |-> 0, value |-> 0, str |-> "",
              bytes |-> <<>>]

Directives == {"STRING", "ADDR", "ENTRY", "WORD", "BYTE", "TEXT", "DATA"}

IsLabel(n) == n.type = "LABEL"
IsDir(n)   == n.type = "DIR"
IsInstr(n) == n.type = "INSTR"

Line == [type : {"LABEL"}, name : STRING]
          \cup [type : {"DIR"}, dir : Directives, value : Operand]
          \cup [type : {"INSTR"}, op : Opcodes, a : Operand, b : Operand]
=============================================================================
