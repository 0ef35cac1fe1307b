------------------------------- MODULE Codec -------------------------------
(***************************************************************************)
(* Instructions as bytes (src/src/runtime/instructions_codec.c): what      *)
(* instructionEncode writes into a buffer and what instructionDecode reads *)
(* from one.                                                               *)
(***************************************************************************)
EXTENDS InstructionSet, Sequences

Number(list, name) == (CHOOSE k \in 1..Len(list) : list[k] = name) - 1

ASSUME CodecAssumption ==
  Len(OpcodeList) <= BASE

Instruction == [op : Opcodes, mode : Modes, a : Byte, b : Byte, imm : Word]

----------------------------------------------------------------------------
HasSecondRegister(mode) == mode \in {"REG", "IND", "IDX"}        \* codecB
HasWord(mode)           == mode \in {"IMM", "IDX", "DIR"}        \* codecARGS

Registers(i) == IF HasSecondRegister(i.mode) THEN <<i.a, i.b>> ELSE <<i.a>>

BytesOfWord(w) == [j \in 1..WORD_SIZE |-> ByteOf(w, j - 1)]

OperandsSwapped(i) ==                            \* mutant of Operands
  (IF HasWord(i.mode) THEN BytesOfWord(i.imm) ELSE <<>>) \o Registers(i)

Operands(i) ==
  Registers(i) \o (IF HasWord(i.mode) THEN BytesOfWord(i.imm) ELSE <<>>)

(* The union of imm and offset makes one word of both.                     *)
Encode(i) ==
  <<Number(OpcodeList, i.op), Number(ModeList, i.mode)>>
    \o (IF i.mode = "NONE" THEN <<>> ELSE Operands(i))

(* instructionEncode writes part after part while there is room, and       *)
(* returns 0 when a part does not fit: the parts before it stay written.   *)
Parts(i) == {0, 2} \cup (IF i.mode = "NONE" THEN {} ELSE
                          {3, 2 + Len(Registers(i)), Len(Encode(i))})

EncodedInLess(i, remaining) ==                   \* mutant of EncodedIn
  LET n == CHOOSE n \in Parts(i) :
             /\ n <= remaining
             /\ \A m \in Parts(i) : m < remaining => m <= n
             /\ n < remaining \/ n = 0
  IN SubSeq(Encode(i), 1, n)

EncodedIn(i, remaining) ==
  LET n == CHOOSE n \in Parts(i) :
             /\ n <= remaining
             /\ \A m \in Parts(i) : m <= remaining => m <= n
  IN SubSeq(Encode(i), 1, n)

----------------------------------------------------------------------------
(* instructionDecode of the bytes of the function mem from pc on.  It asks *)
(* for the bytes of the mode once more after it has taken the first two,   *)
(* and ORs the operand into garbage.  A mode that does not exist has the   *)
(* size that lies beside the table mode_size.                              *)
WordAt(mem, x) == CHOOSE w \in Word : \A j \in 0..(WORD_SIZE - 1) :
                    ByteOf(w, j) = mem[x + j]

(* Nothing is decoded, with the bytes that the caller sees consumed.       *)
Undecoded(n) == [consumed |-> n, instr |-> "none"]

DecodedAs(mem, pc, op, mode, garbage) ==
  LET b    == IF HasSecondRegister(mode) THEN 1 ELSE 0
      word == IF HasWord(mode)
              THEN Result("OR", garbage, WordAt(mem, pc + 3 + b)) ELSE 0
  IN [consumed |-> Size(mode),
      instr |-> [op |-> op, mode |-> mode, a |-> mem[pc + 2],
                 b |-> IF b = 1 THEN mem[pc + 3] ELSE 0, imm |-> word]]

Decode(mem, pc, remaining, garbage) ==
  IF remaining < 2 THEN Undecoded(0)
  ELSE IF mem[pc] >= Len(OpcodeList) THEN [consumed |-> 0, instr |-> "exit"]
  ELSE IF mem[pc + 1] >= Len(ModeList) THEN Undecoded(2)
  ELSE LET op == OpcodeList[mem[pc] + 1]  mode == ModeList[mem[pc + 1] + 1] IN
    IF mode = "NONE"
    THEN [consumed |-> 2, instr |-> [op |-> op, mode |-> mode,
                                     a |-> 0, b |-> 0, imm |-> 0]]
    ELSE IF remaining - 2 < Size(mode) THEN Undecoded(2)
    ELSE DecodedAs(mem, pc, op, mode, garbage)
=============================================================================
