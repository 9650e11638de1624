---------------------------- MODULE MCUsdcTransfer ----------------------------
(* Small instances of UsdcTransfer. *)
EXTENDS UsdcTransfer, TLC

CONSTANTS f1, f2, b1, b2, j1, j2

MCPage(view, route, lock, maxJobs, maxFees, maxBurns, lastTick) ==
  [view |-> view, route |-> route, lock |-> lock, maxJobs |-> maxJobs,
   maxFees |-> maxFees, maxBurns |-> maxBurns, lastTick |-> lastTick]
MCPages == {MCPage("send", "cross", "payer-choice", 1, 2, 1, 0),
            MCPage("send", "cross", "payer-choice", 1, 1, 1, 1),
            MCPage("send", "cross", "payer-choice", 2, 0, 2, 0),
            MCPage("send", "direct", "payer-choice", 2, 0, 2, 1),
            MCPage("checkout", "cross", "automatic", 2, 2, 1, 1),
            MCPage("checkout", "cross", "automatic", 2, 1, 2, 1),
            MCPage("checkout", "cross", "standard", 2, 0, 2, 1)}
MCStandardCheckout == {MCPage("checkout", "cross", "standard", 1, 0, 2, 1)}

MCSymmetry == Permutations(Fees) \cup Permutations(Burns) \cup Permutations(Jobs)
=============================================================================
