------------------------------ MODULE MCSystem ------------------------------
(***************************************************************************)
(* Programs of syscalls for the model checker.  Words have 8 bits and two  *)
(* bytes; the code segment has 54 bytes, the data segment 2, the heap 3    *)
(* (56 to 58), the stack three words (59 to 64).                           *)
(***************************************************************************)
EXTENDS System

Instr(op, mode, a, imm) ==
  [op |-> op, mode |-> mode, a |-> a, b |-> 0, imm |-> imm]

Plain(op)   == Instr(op, "NONE", 0, 0)
Imm(op, w)  == Instr(op, "IMM", 0, w)
Regu(op)    == Instr(op, "REGU", 0, 0)

NoData == [x \in DATA_BASE..(HEAP_BASE - 1) |-> 0]

(* What the first program pushes: a syscall's sizes, values and addresses, *)
(* of the code, the heap and the stack, and words that wrap around: -5 is  *)
(* the address of sp.                                                      *)
Pushed3 == {1, 2, 56, 58, 63, -1}
Pushed2 == {0, 2, 56, 58, -1}
Pushed1 == {0, 56, 58, 62, -5}

(* All numbers of syscalls, and one that is 10 as an int.                  *)
Numbers == 0..17 \cup {-1, 10 - 2 * INT_HALF}

(* From 0, up to three pushes and one syscall of any number; from 24, a    *)
(* loop of malloc, free and RST; from 44, a return out of the code.        *)
SyscallProgram == [x \in 0..(DATA_BASE - 1) |->
  CASE x = 0  -> {Imm("PUSH", w) : w \in Pushed3} \cup {Imm("JMP", 5)}
    [] x = 5  -> {Imm("PUSH", w) : w \in Pushed2} \cup {Imm("JMP", 10)}
    [] x = 10 -> {Imm("PUSH", w) : w \in Pushed1} \cup {Imm("JMP", 15)}
    [] x = 15 -> {Imm("LD", n) : n \in Numbers}
    [] x = 20 -> {Plain("TRAP")}
    [] x = 22 -> {Plain("HALT"), Imm("JMP", DATA_BASE - 1)}
    [] x = 24 -> {Imm("PUSH", w) : w \in {1, 2}} \cup {Imm("JMP", 29)}
    [] x = 29 -> {Imm("LD", n) : n \in {10, 11}}
    [] x = 34 -> {Plain("TRAP"), Plain("RST")}
    [] x = 36 -> {Regu("PUSH"), Imm("JMP", 24)}
    [] x = 39 -> {Imm("JMP", 24)}
    [] x = 44 -> {Imm("PUSH", -2)}
    [] x = 49 -> {Plain("RTN")}
    [] OTHER  -> {}]
=============================================================================
