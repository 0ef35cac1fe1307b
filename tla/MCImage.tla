------------------------------ MODULE MCImage ------------------------------
(***************************************************************************)
(* Images for the model checker: words of 10 bits in two bytes, a code     *)
(* segment of 16 bytes, a data segment of 3 and a buffer of 6 for the data.*)
(***************************************************************************)
EXTENDS Image

I(op, mode, a, b, imm) == [op |-> op, mode |-> mode, a |-> a, b |-> b, imm |-> imm]

Jump  == I("JMP", "IMM", 0, 0, 5)
Load5 == I("LD", "IMM", 1, 0, -2)
Add6  == I("ADD", "IDX", 1, 1, 300)
Push3 == I("PUSH", "REGU", 1, 0, 0)
Halt  == I("HALT", "NONE", 0, 0, 0)

P(entry, instrs, data) == [entry |-> entry, instrs |-> instrs, data |-> data]

(* In order: small; full to the last byte; with an instruction too near    *)
(* the end; too much code; too much data for the segment; for the buffer.  *)
MCPrograms == {
  P(0, <<Halt>>, <<>>),
  P(5, <<Load5, Jump, Push3, Halt>>, <<9, 8>>),
  P(40, <<Add6, Jump, I("CMP", "REG", 0, 1, 0)>>, <<7>>),
  P(2, <<Add6, Add6, I("CMP", "REG", 0, 1, 0)>>, <<1>>),
  P(2, <<Halt, Push3>>, <<1, 2, 3, 4>>),
  P(2, <<Push3, Halt>>, <<1, 2, 3, 4, 5, 6, 7>>)}

MCMagic == <<7, 3>>

MCStrangers == {<<>>, <<7>>, <<3, 7, 1, 0, 0, 0, 0, 0, 29>>}
=============================================================================
