------------------------------- MODULE Places -------------------------------
(***************************************************************************)
(* A loop over a sequence that keeps some of its elements goes through the *)
(* places of those in order.  ModelFile and SentenceStream count them so,   *)
(* and Darts the codes that follow a node.                                 *)
(***************************************************************************)
EXTENDS Integers, Sequences, FiniteSets

(* The n-th of a set of places in order, and what a sequence has at them.  *)
Nth(P, n)  == CHOOSE i \in P : Cardinality({j \in P : j <= i}) = n
Pick(s, P) == [n \in 1 .. Cardinality(P) |-> s[Nth(P, n)]]
=============================================================================
