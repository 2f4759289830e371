------------------------------- MODULE Ordering -------------------------------
(***************************************************************************)
(* Putting a finite set in order, as the code does with list.sort.         *)
(***************************************************************************)
EXTENDS Integers, FiniteSetsExt

\* The members of S in the order of R, a set of pairs <<earlier, later>>.
InOrder(S, R) ==
  [n \in 1 .. Cardinality(S) |-> CHOOSE x \in S : Cardinality({y \in S : <<y, x>> \in R}) = n - 1]
=============================================================================
