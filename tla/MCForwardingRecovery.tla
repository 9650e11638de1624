------------------------- MODULE MCForwardingRecovery -------------------------
(* Small instances of ForwardingRecovery. *)
EXTENDS ForwardingRecovery, TLC

CONSTANTS f1, f2, b1, b2, h1, h2

MCSymmetry ==
  Permutations(Fees) \cup Permutations(Burns) \cup Permutations(Handlers)
=============================================================================
