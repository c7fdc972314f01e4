----------------------------- MODULE Selection -----------------------------
(***************************************************************************)
(* Filtering a list, as the loops of the runtime do it: the elements that   *)
(* pass a test, in their order.  It is SelectSeq with a set of positions in *)
(* the place of the test, so that proofs can speak of it.                  *)
(***************************************************************************)
EXTENDS Naturals, Sequences, FiniteSets

\* The place of a position among those of K.
Rank(i, K) == Cardinality({j \in K : j <= i})

\* The elements of s at the positions in K, in their order.
Picked(s, K) == [k \in 1 .. Cardinality(K) |-> s[CHOOSE i \in K : Rank(i, K) = k]]
=============================================================================
