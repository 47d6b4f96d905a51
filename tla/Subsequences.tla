----------------------------- MODULE Subsequences -----------------------------
(***************************************************************************)
(* What a loop keeps of a sequence when it passes over the elements that   *)
(* do not fit.                                                             *)
(***************************************************************************)
EXTENDS Integers, FiniteSets

\* How many of the positions are at most i.
Rank(at, i) == Cardinality({k \in at : k <= i})

\* The elements of s at the positions, in their order.
Subsequence(s, at) == [n \in 1..Cardinality(at) |-> s[CHOOSE i \in at : Rank(at, i) = n]]

=============================================================================
