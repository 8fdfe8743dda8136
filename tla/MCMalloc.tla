------------------------------- MODULE MCMalloc -------------------------------
(* A small arena: five pages of four addresses (page zero is never mapped),  *)
(* two-address headers and alignment, six-bit size_t.                        *)
EXTENDS Malloc

MCRequests == {0, 3, 6, 10, 58}
=============================================================================
