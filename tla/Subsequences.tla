----------------------------- MODULE Subsequences -----------------------------
(***************************************************************************)
(* Parts of a sequence, by the places they are taken from.                 *)
(***************************************************************************)
EXTENDS Integers, Sequences, FiniteSets

\* How many elements of a set of numbers are no greater than x.
Rank(S, x) == Cardinality({y \in S : y <= x})

\* The k-th smallest element.
Nth(S, k) == CHOOSE x \in S : Rank(S, x) = k

\* The elements of t at the places in S, in their order.
Only(t, S) == [k \in 1..Cardinality(S) |-> t[Nth(S, k)]]

=============================================================================
