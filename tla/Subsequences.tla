---------------------------- MODULE Subsequences ----------------------------
(***************************************************************************)
(* The elements of a sequence at some of its positions, in order: what a   *)
(* filter leaves of a list.  SelectSeq does the same, but the prover knows *)
(* nothing of it; this one has no recursion, and SubsequenceProofs says    *)
(* what it gives.                                                          *)
(***************************************************************************)
EXTENDS Integers, FiniteSets, Sequences

(* The n-th position of I.                                                 *)
Place(I, n) == CHOOSE i \in I : Cardinality({j \in I : j <= i}) = n

Subsequence(s, I) == [n \in 1 .. Cardinality(I) |-> s[Place(I, n)]]
=============================================================================
