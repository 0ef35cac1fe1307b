----------------------------- MODULE Allocator -----------------------------
(***************************************************************************)
(* The heap allocator (src/src/runtime/allocator.c) as pure operators on   *)
(* the list of memory nodes.  The C list linked by MemNode.next is the     *)
(* sequence of its nodes, in the order of the links.                       *)
(***************************************************************************)
EXTENDS Integers, Sequences

CONSTANTS HEAP_BASE, STACK_BASE

ASSUME HeapAssumption ==
  /\ HEAP_BASE \in Nat /\ STACK_BASE \in Nat
  /\ HEAP_BASE < STACK_BASE

Node == [begin : Nat, size : Nat, free : BOOLEAN]

End(node) == node.begin + node.size

(* The single free node with which initVM starts.                          *)
InitialNodes ==
  << [begin |-> HEAP_BASE, size |-> STACK_BASE - HEAP_BASE, free |-> TRUE] >>

----------------------------------------------------------------------------
(* vm_alloc: i is the first free node that is large enough.                *)
FitsAnySize(nodes, i, size) == nodes[i].free             \* mutant of Fits
FitsInUse(nodes, i, size) == size <= nodes[i].size       \* mutant of Fits

Fits(nodes, i, size) == nodes[i].free /\ size <= nodes[i].size

IsFirstFit(nodes, i, size) ==
  /\ i \in 1..Len(nodes)
  /\ Fits(nodes, i, size)
  /\ \A j \in 1..(i-1) : ~Fits(nodes, j, size)

NoFit(nodes, size) == \A i \in 1..Len(nodes) : ~Fits(nodes, i, size)

CarveWhole(nodes, i, size) ==                            \* mutant of Carve
  [j \in 1..(Len(nodes) + 1) |->
     IF j < i THEN nodes[j]
     ELSE IF j = i
     THEN [begin |-> nodes[i].begin, size |-> size, free |-> FALSE]
     ELSE IF j = i + 1
     THEN [begin |-> nodes[i].begin + size, size |-> nodes[i].size,
           free |-> TRUE]
     ELSE nodes[j-1]]

(* Node i is cut to the size asked for; the rest of it, possibly nothing,  *)
(* becomes a free node of its own that follows it.                         *)
Carve(nodes, i, size) ==
  [j \in 1..(Len(nodes) + 1) |->
     IF j < i THEN nodes[j]
     ELSE IF j = i
     THEN [begin |-> nodes[i].begin, size |-> size, free |-> FALSE]
     ELSE IF j = i + 1
     THEN [begin |-> nodes[i].begin + size, size |-> nodes[i].size - size,
           free |-> TRUE]
     ELSE nodes[j-1]]

----------------------------------------------------------------------------
(* vm_free: i is the first node that begins at addr, whether in use or not.*)
IsFirstAt(nodes, i, addr) ==
  /\ i \in 1..Len(nodes)
  /\ nodes[i].begin = addr
  /\ \A j \in 1..(i-1) : nodes[j].begin # addr

NoNodeAt(nodes, addr) == \A i \in 1..Len(nodes) : nodes[i].begin # addr

OutOfTheHeap(addr) == addr < HEAP_BASE \/ addr >= STACK_BASE

NextExists(nodes, i) == i < Len(nodes)                   \* mutant of NextIsFree
NextNever(nodes, i)  == FALSE                            \* mutant of NextIsFree

NextIsFree(nodes, i) == i < Len(nodes) /\ nodes[i+1].free

(* Node i becomes free; a free node that follows it is absorbed.  A free   *)
(* node that precedes it is left as it is.                                 *)
Release(nodes, i) ==
  IF NextIsFree(nodes, i)
  THEN [j \in 1..(Len(nodes) - 1) |->
          IF j < i THEN nodes[j]
          ELSE IF j = i
          THEN [begin |-> nodes[i].begin,
                size |-> nodes[i].size + nodes[i+1].size, free |-> TRUE]
          ELSE nodes[j+1]]
  ELSE [j \in 1..Len(nodes) |->
          IF j = i
          THEN [begin |-> nodes[i].begin, size |-> nodes[i].size, free |-> TRUE]
          ELSE nodes[j]]

----------------------------------------------------------------------------
(* The nodes cover the heap from HEAP_BASE to STACK_BASE with neither a    *)
(* gap nor an overlap.                                                     *)
Tiles(nodes) ==
  /\ nodes # <<>>
  /\ nodes[1].begin = HEAP_BASE
  /\ End(nodes[Len(nodes)]) = STACK_BASE
  /\ \A i \in 1..(Len(nodes) - 1) : End(nodes[i]) = nodes[i+1].begin

(* The nodes come in the order of their addresses.                         *)
Ordered(nodes) ==
  \A i, j \in 1..Len(nodes) : i < j => End(nodes[i]) <= nodes[j].begin

(* A node in use has exactly the address and the size of the block.        *)
Reserves(ns, block) == \E i \in 1..Len(ns) :
  /\ ~ns[i].free
  /\ ns[i].begin = block.addr /\ ns[i].size = block.size
=============================================================================
