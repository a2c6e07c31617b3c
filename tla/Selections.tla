------------------------------ MODULE Selections -----------------------------
(***************************************************************************)
(* Sequences made from sets: sorting and filtering, as the loops and the   *)
(* calls of sort in the code do.  The community modules have both, as      *)
(* operators that take an operator (SetToSortSeq, SelectSeq); the forms    *)
(* here take sets and functions, which the provers can reason about.       *)
(***************************************************************************)
EXTENDS Naturals, FiniteSets

\* The elements of S in order; before[s] are those that come before s.
Arranged(S, before) ==
  [n \in 1..Cardinality(S) |-> CHOOSE s \in S : Cardinality(before[s]) = n - 1]

Ascending(S) == Arranged(S, [s \in S |-> {t \in S : t < s}])

\* What a sequence holds at some of its positions, in order.
At(sequence, positions) ==
  [n \in 1..Cardinality(positions) |->
     sequence[CHOOSE p \in positions : Cardinality({q \in positions : q < p}) = n - 1]]

=============================================================================
