------------------------------ MODULE Sublist ------------------------------
(***************************************************************************)
(* What an erasure leaves of a std::vector: the elements at the places     *)
(* that are kept, in the order they had.  It is SelectSeq written without  *)
(* recursion, so that it can be reasoned about.                            *)
(***************************************************************************)
EXTENDS Integers, FiniteSets

\* The k-th least number of I.
Nth(I, k) == CHOOSE i \in I : Cardinality({j \in I : j <= i}) = k

Kept(s, I) == [k \in 1 .. Cardinality(I) |-> s[Nth(I, k)]]
=============================================================================
