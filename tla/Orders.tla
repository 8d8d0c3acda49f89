------------------------------- MODULE Orders -------------------------------
(***************************************************************************)
(* Finite sets and filtered sequences in order, as the array methods and the     *)
(* ORDER BY of the code give them. A place in the order is the number of the      *)
(* members before it, so that the definitions need no recursion over the set and  *)
(* OrdersProofs can reason about them with the theorems on cardinalities.        *)
(***************************************************************************)
EXTENDS Integers, Sequences, FiniteSets

\* The members of a finite set; before is a strict total order on them, a set of pairs.
InOrder(S, before) ==
  [n \in 1 .. Cardinality(S) |->
     CHOOSE x \in S : Cardinality({y \in S : <<y, x>> \in before}) = n - 1]

Ascending(S) == InOrder(S, {p \in S \X S : p[1] < p[2]})

\* The entries of s at a sequence of places.
Entries(s, places) == [n \in DOMAIN places |-> s[places[n]]]

\* filter: the entries at a set of places, in their order in s.
Filtered(s, I) == Entries(s, Ascending(I))
=============================================================================
