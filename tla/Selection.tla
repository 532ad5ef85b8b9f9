------------------------------ MODULE Selection ------------------------------
(***************************************************************************)
(* What a loop, a filter or a remove_if selects of a vector, in a form that *)
(* can be reasoned about without recursion.                                 *)
(***************************************************************************)
EXTENDS Integers, FiniteSets

\* The elements of seq that are in S, in their order: the n-th is at the n-th of their places.
SelectIn(seq, S) ==
  LET places == {k \in DOMAIN seq : seq[k] \in S} IN
    [n \in 1 .. Cardinality(places) |->
       seq[CHOOSE k \in places : Cardinality({j \in places : j <= k}) = n]]
==============================================================================
