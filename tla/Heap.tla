-------------------------------- MODULE Heap --------------------------------
(***************************************************************************)
(* The heap of the virtual machine as a program uses it through the        *)
(* syscalls malloc and free (src/src/runtime/instructions.c) on top of the *)
(* allocator.  held is the program's own account: the blocks it was given  *)
(* and has not freed yet, oldest first.  A call that does not return VM_OK *)
(* ends the run of the machine (vm_run), so nothing follows it.            *)
(***************************************************************************)
EXTENDS Allocator, SequencesExt

CONSTANTS
  MinSize,       \* the smallest block the program asks for
  MaxNodes,      \* bound on the length of the node list
  MaxHeld        \* bound on the blocks held at a time

ASSUME SizeAssumption == MinSize \in Nat

VARIABLES
  nodes,         \* the node list vm->memblocks
  held,          \* the blocks the program holds
  status         \* what the last call returned

vars == <<nodes, held, status>>

Statuses == {"VM_OK", "VM_HEAP_OUT_OF_MEMORY", "VM_MEM_ALREADY_FREE",
             "VM_FREE_OUT_OF_THE_HEAP"}

HeapSize == STACK_BASE - HEAP_BASE

(* One size more than the heap, and the addresses next to it.              *)
Sizes     == MinSize..(HeapSize + 1)
Addresses == (HEAP_BASE - 1)..STACK_BASE

Init ==
  /\ nodes = InitialNodes
  /\ held = <<>>
  /\ status = "VM_OK"

----------------------------------------------------------------------------
Malloc(size) ==
  /\ status = "VM_OK"
  /\ Len(nodes) < MaxNodes /\ Len(held) < MaxHeld
  /\ \E i \in 1..Len(nodes) :
       /\ IsFirstFit(nodes, i, size)
       /\ nodes' = Carve(nodes, i, size)
       /\ held' = Append(held, [addr |-> nodes[i].begin, size |-> size])
  /\ UNCHANGED status

MallocFails(size) ==
  /\ status = "VM_OK"
  /\ NoFit(nodes, size)
  /\ status' = "VM_HEAP_OUT_OF_MEMORY"
  /\ UNCHANGED <<nodes, held>>

(* vm_free(addr) of an address of the heap.                                *)
VmFree(addr) ==
  \/ /\ \E i \in 1..Len(nodes) :
          IsFirstAt(nodes, i, addr) /\ nodes' = Release(nodes, i)
     /\ UNCHANGED status
  \/ /\ NoNodeAt(nodes, addr)
     /\ status' = "VM_MEM_ALREADY_FREE"
     /\ UNCHANGED nodes

(* The program frees the block it holds at position k.                     *)
Free(k) ==
  /\ status = "VM_OK"
  /\ ~OutOfTheHeap(held[k].addr)
  /\ VmFree(held[k].addr)
  /\ held' = RemoveAt(held, k)

(* A block of size zero can begin where the heap ends.                     *)
FreeAtTheEnd(k) ==
  /\ status = "VM_OK"
  /\ OutOfTheHeap(held[k].addr)
  /\ status' = "VM_FREE_OUT_OF_THE_HEAP"
  /\ UNCHANGED <<nodes, held>>

Holds(addr) == \E k \in 1..Len(held) : held[k].addr = addr

(* The program frees an address that it does not hold: freed before, or in *)
(* the middle of a block, or out of the heap.                              *)
StrayFree(addr) ==
  /\ status = "VM_OK"
  /\ ~Holds(addr) /\ ~OutOfTheHeap(addr)
  /\ VmFree(addr)
  /\ UNCHANGED held

StrayFreeOutOfTheHeap(addr) ==
  /\ status = "VM_OK"
  /\ ~Holds(addr) /\ OutOfTheHeap(addr)
  /\ status' = "VM_FREE_OUT_OF_THE_HEAP"
  /\ UNCHANGED <<nodes, held>>

Next ==
  \/ \E size \in Sizes : Malloc(size) \/ MallocFails(size)
  \/ \E k \in 1..Len(held) : Free(k) \/ FreeAtTheEnd(k)
  \/ \E addr \in Addresses : StrayFree(addr) \/ StrayFreeOutOfTheHeap(addr)

Spec == Init /\ [][Next]_vars

(* A program that frees its blocks in the reverse of the order in which it *)
(* got them.                                                               *)
LifoNext ==
  \/ \E size \in Sizes : Malloc(size) \/ MallocFails(size)
  \/ held # <<>> /\ Free(Len(held))

LifoSpec == Init /\ [][LifoNext]_vars

----------------------------------------------------------------------------
Block == [addr : Nat, size : Nat]

(* The node list holds nodes, the program's account blocks.                *)
TypeOK ==
  /\ nodes \in Seq(Node)
  /\ held \in Seq(Block)
  /\ status \in Statuses

(* vm_alloc and vm_free cut and join nodes: whatever the program does, the *)
(* nodes still cover the heap from HEAP_BASE to STACK_BASE with neither a  *)
(* gap nor an overlap, so no byte is lost to the list or owned twice.      *)
Tiling == Tiles(nodes)

(* A block the program holds is a node in use of exactly that address and  *)
(* size: no malloc, free or stray free of the program takes it away,       *)
(* although vm_free looks only at where a node begins and releases the     *)
(* first that matches.                                                     *)
HeldIsReserved ==
  \A k \in 1..Len(held) : held[k].size > 0 => Reserves(nodes, held[k])

(* With frees in LIFO order, and no empty block, vm_free, which joins a    *)
(* node only with the one after it, keeps the heap whole: the nodes in use *)
(* are exactly the blocks held, in order, and one free node follows them.  *)
LifoShape ==
  /\ Len(nodes) = Len(held) + 1
  /\ nodes[Len(nodes)].free
  /\ \A k \in 1..Len(held) :
       /\ ~nodes[k].free
       /\ nodes[k].begin = held[k].addr /\ nodes[k].size = held[k].size

(* The blocks that matter to the program are what AbstractHeap calls inUse.*)
BlocksHeld == {b \in ToSet(held) : b.size > 0}

Abstract == INSTANCE AbstractHeap WITH
  inUse <- BlocksHeld, failed <- status # "VM_OK"

(* malloc and free keep the promise of AbstractHeap: the blocks handed out *)
(* lie in the heap, are disjoint, and are given back one at a time.        *)
ImplementsAbstractHeap == Abstract!Spec

----------------------------------------------------------------------------
(* README.md:47 "free(uint64_t addr)": when the program has freed all that *)
(* it held, every node is free again.                                      *)
NoLeak == held = <<>> => \A i \in 1..Len(nodes) : nodes[i].free
=============================================================================
