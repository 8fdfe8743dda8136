--------------------------------- MODULE Heap ---------------------------------
(***************************************************************************)
(* What malloc, free, calloc and realloc promise their caller, with no     *)
(* word of lists, headers or regions: the blocks a program holds, by       *)
(* pointer, with the size it asked for each.                               *)
(***************************************************************************)
EXTENDS Integers

CONSTANTS
  Addresses,  \* where a block may lie
  Alignment,  \* every block starts at a multiple of it
  Sizes       \* the sizes a block may be asked for with

VARIABLE blocks  \* pointer |-> size asked for

Bytes(p, n) == p .. (p + n - 1)

Without(p) == [q \in DOMAIN blocks \ {p} |-> blocks[q]]
With(p, n) == [q \in DOMAIN blocks \union {p} |-> IF q = p THEN n ELSE blocks[q]]

(* n bytes at p are aligned and touch no block but, perhaps, the one at p. *)
Room(p, n) ==
  /\ p % Alignment = 0
  /\ Bytes(p, n) \subseteq Addresses
  /\ \A q \in DOMAIN blocks \ {p} : Bytes(p, n) \intersect Bytes(q, blocks[q]) = {}

Init == blocks = <<>>

Allocate(n) ==
  \E p \in Addresses \ DOMAIN blocks : blocks' = With(p, n) /\ Room(p, n)

Release(p) == blocks' = Without(p)

(* The block stays where it is: it may only grow into bytes nobody has.    *)
Resize(p, n) == blocks' = With(p, n) /\ Room(p, n)

(* The contents are copied while both blocks exist, so the new one is      *)
(* disjoint from the old.                                                  *)
Move(p, n) ==
  \E q \in Addresses \ DOMAIN blocks :
    /\ blocks' = [r \in (DOMAIN blocks \ {p}) \union {q} |->
                    IF r = q THEN n ELSE blocks[r]]
    /\ Room(q, n)

Next ==
  \/ \E n \in Sizes : Allocate(n)
  \/ \E p \in DOMAIN blocks : Release(p) \/ \E n \in Sizes : Resize(p, n) \/ Move(p, n)

Spec == Init /\ [][Next]_blocks
=============================================================================
