----------------------------- MODULE MCMachine -----------------------------
(***************************************************************************)
(* Programs for the model checker.  Words have 6 bits and two bytes, the   *)
(* code segment 20 bytes, the stack three words.  There are two registers: *)
(* the numbers 2 and 3 are sp and pc, 4 begins with sr, 5 to 15 lie in the *)
(* memory.                                                                 *)
(***************************************************************************)
EXTENDS Machine

Instr(op, mode, a, b, imm) ==
  [op |-> op, mode |-> mode, a |-> a, b |-> b, imm |-> imm]

Plain(op)        == Instr(op, "NONE", 0, 0, 0)
Imm(op, a, imm)  == Instr(op, "IMM", a, 0, imm)
Regu(op, a)      == Instr(op, "REGU", a, 0, 0)
Reg(op, a, b)    == Instr(op, "REG", a, b, 0)
Dir(op, a, addr) == Instr(op, "DIR", a, 0, addr)
Ind(op, a, b)    == Instr(op, "IND", a, b, 0)
Idx(op, a, b, x) == Instr(op, "IDX", a, b, x)

(* A program has f[x] at the address x of DOMAIN f, jumps back to 0 from   *)
(* any other address up to 12 and has bytes 0 beyond.                      *)
Program(f) == [x \in 0..(DATA_BASE - 1) |->
  IF x \in DOMAIN f THEN f[x]
  ELSE IF x <= 12 THEN {Imm("JMP", 0, 0)} ELSE {Blank}]

NoData == [x \in DATA_BASE..(HEAP_BASE - 1) |-> 0]

(* Calls, returns, pushes and pops in every order, with stores into the    *)
(* stack, an invalid register and a reset.                                 *)
StackProgram == Program([x \in {0, 5} |->
  IF x = 0
  THEN {Imm("PUSH", 0, 5), Imm("CALL", 0, 5), Plain("RTN"),
        Dir("CALL", 0, 28), Dir("CALL", 0, 30), Imm("CALL", 0, 20),
        Plain("NOP")}
  ELSE {Regu("POP", 0), Regu("PUSH", 0), Imm("JMP", 0, 0), Plain("RTN"),
        Ind("CALL", 0, 0), Regu("POP", 2),
        Regu("PUSH", 2), Regu("CALL", 2), Dir("ST", 0, 27), Plain("RST")}])

Extremes == {-HALF, -1, 0, 1, HALF - 1}

(* The target of the jumps through memory: the address 10.                 *)
TenInData == [x \in DATA_BASE..(HEAP_BASE - 1) |-> ByteOf(10, x - DATA_BASE)]

(* Loads, then a comparison or another instruction that sets the flags,    *)
(* then conditional jumps, to which the program can come back without      *)
(* another comparison.  Between them FAS may overwrite sr.                 *)
CompareProgram == Program([x \in {0, 5, 9, 10, 14} |->
  CASE x = 0 -> {Imm("LD", 0, w) : w \in Extremes \cup {DATA_BASE}}
                  \cup {Imm("JMP", 0, 10), Plain("HALT")}
    [] x = 5 -> {Imm(op, 0, w) : op \in {"CMP", "SUB"}, w \in Extremes}
                  \cup {Imm(op, 0, w) : op \in Binary \ {"SUB"}, w \in {-1, 3}}
                  \cup {Reg(op, 0, 1) : op \in {"CMP", "DIV"}}
                  \cup {Regu(op, r) : op \in Unary, r \in {0, 3}}
    [] x = 9 -> {Imm("JMP", 0, 10)}
    [] x = 14 -> {Regu(op, 1) : op \in CondJump}
    [] OTHER -> {Imm(op, 0, 0) : op \in CondJump}
                  \cup {Regu(op, 1) : op \in CondJump}
                  \cup {Ind(op, 0, 0) : op \in CondJump}
                  \cup {Idx(op, 1, 0, DATA_BASE) : op \in CondJump}
                  \cup {Dir("JNE", 0, 19), Regu("JEQ", 2), Regu("JGT", 3),
                        Ind("FAS", 4, 0)}])

(* Loads and stores in every mode, to the data, the heap and the stack, to *)
(* the code and to the last address of all, and with registers of FAS that *)
(* do not exist.                                                           *)
MemoryProgram == Program([x \in {0, 5, 8} |->
  IF x = 0
  THEN {Imm("LD", 1, 20), Imm("JMP", 0, 5)}
  ELSE IF x = 8
  THEN {Dir("ST", 1, -1), Dir("SWP", 1, -1)}
         \cup {Idx("FAS", a, 1, 20) : a \in {4, 5, 14, 15}}
         \cup {Ind("FAS", 0, b) : b \in {14, 15}}
  ELSE {Dir("LD", 0, 19), Dir("ST", 0, 22)}
         \cup {Ind(op, 0, b) : op \in {"ST", "SWP"}, b \in 1..2}
         \cup {Ind("FAS", a, b) : a \in {0, 3}, b \in {1, 2}}
         \cup {Idx("ST", 0, 1, -2), Idx("FAS", 0, 1, 2), Idx("FAS", 1, 1, 0)}
         \cup {Dir("FAS", r, 20) : r \in {0, 2}}
         \cup {Reg("SWP", 0, 1), Plain("RST")}])

(* A program that loads 12.                                                *)
OneLoad == Program([x \in {0} |-> {Imm("LD", 0, 12)}])
=============================================================================
