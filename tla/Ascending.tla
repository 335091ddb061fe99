------------------------------ MODULE Ascending ------------------------------
(***************************************************************************)
(* The elements of a finite set of numbers in ascending order, the rows of *)
(* a query in the order of an integer column.  SetToSortSeq says the same  *)
(* of sets that TLC can enumerate; this form can be reasoned about.        *)
(***************************************************************************)
EXTENDS Naturals, FiniteSets

Below(S, i) == {j \in S : j < i}

\* The k-th smallest element has k - 1 elements below it.
Ascending(S) ==
  [k \in 1..Cardinality(S) |-> CHOOSE i \in S : Cardinality(Below(S, i)) = k - 1]

\* The part of a sequence that is at the indices I, in its order.
SubSequence(s, I) == [k \in 1..Cardinality(I) |-> s[Ascending(I)[k]]]
=============================================================================
