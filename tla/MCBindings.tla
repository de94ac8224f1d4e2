----------------------------- MODULE MCBindings -----------------------------
(***************************************************************************)
(* The bindings with three handles and objects: each language, with a      *)
(* script that takes no liberty, one, or two of them.                      *)
(***************************************************************************)
EXTENDS Bindings, TLC

MCLiberties == {s \in SUBSET {"drops", "reuses", "races", "again", "owns"} : Cardinality(s) <= 2}

AnyThread == Permutations(Threads)
=============================================================================
