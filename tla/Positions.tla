------------------------------ MODULE Positions -----------------------------
(* Positions of a text, taken in order: what a loop over the characters of   *)
(* a text picks out, as the set of the positions that it picks.              *)
EXTENDS Integers, Sequences, FiniteSets

\* The k-th smallest number of a set.
Nth(S, k) == CHOOSE p \in S : Cardinality({q \in S : q <= p}) = k

\* The elements of s at the positions of a set.
Selected(s, S) == [k \in 1..Cardinality(S) |-> s[Nth(S, k)]]
=============================================================================
