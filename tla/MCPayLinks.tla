------------------------------ MODULE MCPayLinks ------------------------------
(* Small instances of PayLinks: one request, one tab that may be reopened. *)
EXTENDS PayLinks, TLC

CONSTANTS r1, l1, l2, t1, t2, w1, w2, c1, p1, p2

MCNoExpiry == [r \in Requests |-> 0]
MCExpiry == [r \in Requests |-> 2]
MCPays == [tx \in Transactions |-> r1]
=============================================================================
