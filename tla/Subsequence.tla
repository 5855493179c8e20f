----------------------------- MODULE Subsequence ----------------------------
(***************************************************************************)
(* The elements of a sequence at a set of positions, in order: what        *)
(* SelectSeq computes, written without recursion so that it can be         *)
(* reasoned about.                                                         *)
(***************************************************************************)
EXTENDS Integers, Sequences, FiniteSets

\* How many positions of D there are up to i.
Rank(D, i) == Cardinality({j \in D : j <= i})

\* The n-th position of D.
Nth(D, n) == CHOOSE i \in D : Rank(D, i) = n

Picked(s, D) == [n \in 1 .. Cardinality(D) |-> s[Nth(D, n)]]

=============================================================================
