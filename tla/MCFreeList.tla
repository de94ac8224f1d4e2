----------------------------- MODULE MCFreeList -----------------------------
(* Blocks of five cells and requests of one to six: one that just fits,    *)
(* one that just does not, one of a whole block, as the first and later,   *)
(* one of more than a block, and blocks left partly empty all occur.       *)
EXTENDS FreeList
MCLens == 1..6
=============================================================================
