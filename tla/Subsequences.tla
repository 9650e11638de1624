----------------------------- MODULE Subsequences -----------------------------
(***************************************************************************)
(* Array.prototype.filter: what is left of a sequence at some of its       *)
(* positions, in the order it had.  It is SelectSeq, said by the positions *)
(* kept and without recursion, in a form that can be reasoned about.       *)
(***************************************************************************)
EXTENDS Naturals, FiniteSets, Sequences

\* How many of the positions come no later than i.
Rank(positions, i) == Cardinality({j \in positions : j <= i})

\* The elements of s at the positions, a subset of its domain.
KeepAt(s, positions) ==
  [k \in 1 .. Cardinality(positions) |->
     s[CHOOSE i \in positions : Rank(positions, i) = k]]
=============================================================================
