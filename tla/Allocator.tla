------------------------------ MODULE Allocator ------------------------------
(***************************************************************************)
(* What mem_alloc and mem_free (shared/malloc.c.h) promise their callers:  *)
(* a block that is handed out lies inside the heap and shares no byte with *)
(* another live block, and only mem_free takes a block away.               *)
(***************************************************************************)
EXTENDS Integers, TLC

CONSTANTS Lo, Hi      \* the heap is the bytes Lo .. Hi - 1
VARIABLE blocks       \* the length of every live block, by its address

Disjoint(z, n, b) == \A y \in DOMAIN b : z + n <= y \/ y + b[y] <= z

Init == blocks = <<>>

Alloc ==
  \E z \in DOMAIN blocks' \ DOMAIN blocks :
    /\ z >= Lo /\ z + blocks'[z] <= Hi
    /\ Disjoint(z, blocks'[z], blocks)
    /\ blocks' = (z :> blocks'[z]) @@ blocks

Free ==
  \E z \in DOMAIN blocks :
    blocks' = [y \in DOMAIN blocks \ {z} |-> blocks[y]]

Spec == Init /\ [][Alloc \/ Free]_blocks
=============================================================================
