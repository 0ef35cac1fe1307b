---------------------------- MODULE BoundedStack ----------------------------
(***************************************************************************)
(* What the stack of the machine promises: words go in and come out last   *)
(* in first out, a full stack refuses a push and an empty one a pop, and   *)
(* the words below the top stay as they are until an instruction stores    *)
(* into the memory they are in.                                            *)
(***************************************************************************)
EXTENDS Naturals, Sequences

CONSTANTS Element, Capacity

VARIABLES stack, refused

Init == stack = <<>> /\ refused = "nothing"

Push == /\ Len(stack) < Capacity /\ refused = "nothing"
        /\ \E w \in Element : stack' = Append(stack, w)
        /\ UNCHANGED refused

Pop == /\ stack # <<>> /\ refused = "nothing"
       /\ stack' = SubSeq(stack, 1, Len(stack) - 1)
       /\ UNCHANGED refused

(* A store reaches at most two words, next to each other.                  *)
Poke == /\ refused = "nothing"
        /\ stack' \in [1..Len(stack) -> Element]
        /\ \E k \in 1..Len(stack) :
             \A j \in 1..Len(stack) \ {k, k + 1} : stack'[j] = stack[j]
        /\ UNCHANGED refused

Reset == /\ refused = "nothing"
         /\ stack' = <<>>
         /\ UNCHANGED refused

RefusePush == /\ Len(stack) = Capacity /\ refused = "nothing"
              /\ refused' = "push"
              /\ UNCHANGED stack

RefusePop == /\ stack = <<>> /\ refused = "nothing"
             /\ refused' = "pop"
             /\ UNCHANGED stack

Next == Push \/ Pop \/ Poke \/ Reset \/ RefusePush \/ RefusePop

Spec == Init /\ [][Next]_<<stack, refused>>
=============================================================================
