---------------------------- MODULE MCRegistryV3 ----------------------------
(* Small instances of RegistryV3: one name and one subdomain of it. *)
EXTENDS RegistryV3, TLC

CONSTANTS alice, bob, top, sub, r1, r2, res

MCParentNode == sub :> top
MCNoLegacy == [n \in Nodes |-> EmptyLegacyRecord]
MCSymmetry == Permutations(Accounts)
=============================================================================
