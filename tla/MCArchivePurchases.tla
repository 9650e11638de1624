-------------------------- MODULE MCArchivePurchases --------------------------
(* A small instance of ArchivePurchases: two challenges, two transfers. *)
EXTENDS ArchivePurchases, TLC

CONSTANTS c1, c2, t1, t2, h1, h2

MCPlanYears == c1 :> 1 @@ c2 :> 1
\* Challenges are of one plan, so all three sets may be permuted.
Symmetry ==
  Permutations(Handlers) \cup Permutations(Challenges)
    \cup Permutations(Transactions)
=============================================================================
