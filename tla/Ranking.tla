------------------------------- MODULE Ranking -------------------------------
(***************************************************************************)
(* Sorting: ORDER BY in the queries, sort.Slice in Go, toSorted and sort   *)
(* in TypeScript.  What comes first is a relation, given as its set of     *)
(* pairs; where it is total on a finite set, the place of an element is    *)
(* the number of those before it.                                          *)
(***************************************************************************)
EXTENDS Integers, FiniteSets

Sorted(S, R) == [k \in 1..Cardinality(S) |-> CHOOSE x \in S : Cardinality({y \in S : <<y, x>> \in R}) = k - 1]

\* Numbers - the positions of a list to be kept - in their order.
InOrder(S) == Sorted(S, {p \in S \X S : p[1] < p[2]})
==============================================================================
