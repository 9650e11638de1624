---------------------------- MODULE MCPayLinkStore ----------------------------
(* Small instances of PayLinkStore: one request. *)
EXTENDS PayLinkStore, TLC

CONSTANTS r1, l1, l2, t1, t2, w1, w2, w3

MCNoExpiry == [r \in Requests |-> 0]
MCPays == [tx \in Transactions |-> r1]

\* Identifiers, transactions and workers are interchangeable.
MCSymmetry == Permutations(LinkIds) \cup Permutations(Transactions)
                \cup Permutations(Workers)
=============================================================================
