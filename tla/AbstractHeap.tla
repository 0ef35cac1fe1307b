---------------------------- MODULE AbstractHeap ----------------------------
(***************************************************************************)
(* What malloc and free promise to a program of the virtual machine,       *)
(* without saying how: a successful malloc hands out a block of the heap   *)
(* that is disjoint from every block in use, and a free ends the use of    *)
(* one block and of no other.                                              *)
(***************************************************************************)
EXTENDS Integers

CONSTANTS HEAP_BASE, STACK_BASE

VARIABLES inUse, failed

vars == <<inUse, failed>>

Block == [addr : HEAP_BASE..STACK_BASE, size : 1..(STACK_BASE - HEAP_BASE)]

InHeap(b) == HEAP_BASE <= b.addr /\ b.addr + b.size <= STACK_BASE

Disjoint(b, c) == b.addr + b.size <= c.addr \/ c.addr + c.size <= b.addr

Init == inUse = {} /\ failed = FALSE

Malloc(b) ==
  /\ ~failed /\ InHeap(b)
  /\ \A c \in inUse : Disjoint(b, c)
  /\ inUse' = inUse \cup {b}
  /\ UNCHANGED failed

Free(b) ==
  /\ ~failed /\ b \in inUse
  /\ inUse' = inUse \ {b}
  /\ UNCHANGED failed

(* The call that fails ends the run of the machine and changes no block.   *)
Fail ==
  /\ ~failed
  /\ failed' = TRUE
  /\ UNCHANGED inUse

Next ==
  \/ \E b \in Block : Malloc(b) \/ Free(b)
  \/ Fail

Spec == Init /\ [][Next]_vars
=============================================================================
