------------------------------- MODULE Lists -------------------------------
(***************************************************************************)
(* What is left of a list when entries are removed from it.  SelectSeq     *)
(* says as much, by a recursion the provers do not unfold; here the        *)
(* entries that stay are named by their positions.                         *)
(***************************************************************************)
EXTENDS Integers, Sequences, FiniteSets

\* How many of the positions in I are not behind j
Rank(I, j) == Cardinality({k \in I : k <= j})

\* The entries of s at the positions in I, in the order they have in s
Filter(s, I) == [i \in 1..Cardinality(I) |-> s[CHOOSE j \in I : Rank(I, j) = i]]
=============================================================================
