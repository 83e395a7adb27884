------------------------------- MODULE Picking -------------------------------
(***************************************************************************)
(* Numbers by their rank, and the part of a sequence at chosen positions.  *)
(***************************************************************************)
EXTENDS Integers, FiniteSets

Rank(S, n) == Cardinality({m \in S : m <= n})

\* The k-th of a set of numbers
Nth(S, k) == CHOOSE n \in S : Rank(S, n) = k

Picked(seq, S) == [k \in 1..Cardinality(S) |-> seq[Nth(S, k)]]
=============================================================================
