------------------------- MODULE MCUnifiedRegistrar -------------------------
(* Small instances of UnifiedRegistrar: one name and one subdomain of it. *)
EXTENDS UnifiedRegistrar, TLC

CONSTANTS alice, bob, top, sub, registrar1, mainnet, default,
          key1, key2, usdc1, usdc2, treasury1, avatar, v1, top2

MCParentNode == sub :> top
MCNoParents == [n \in {} |-> top]
MCLabelLength == [n \in Nodes |-> 5]

MCConfig(annual, signer, token, xdc) ==
  [annual |-> [class \in PriceClasses |-> annual],
   threeYearDiscountBps |-> 500,
   fiveYearDiscountBps |-> 1000,
   tenYearDiscountBps |-> 2000,
   quoteSigner |-> signer,
   usdcToken |-> token,
   treasury |-> treasury1,
   xdcPaymentsEnabled |-> xdc,
   usdcPaymentsEnabled |-> TRUE]
MCInitialConfig == MCConfig(2, key1, usdc1, TRUE)
MCProposals == {MCConfig(3, key2, usdc1, TRUE), MCConfig(3, key1, usdc2, FALSE)}
MCNoConfig == [MCConfig(0, None, None, FALSE) EXCEPT !.treasury = None]

\* Registry V2 and the retired module as the import finds them: alice's name,
\* and bob's subdomain of it with an address of its own.
MCNoLegacy == [n \in Nodes |-> EmptyLegacyRecord]
MCLegacy == [MCNoLegacy EXCEPT ![top] =
  [owner |-> alice, resolver |-> None, expiry |-> 2]]
MCNoLegacySubs == [n \in SubNodes |-> EmptyLegacySub]
MCLegacySubs == [n \in SubNodes |->
  [owner |-> bob, expiry |-> 2, routes |-> NoRoutes]]

MCAuthorization(uses_, bps, signer) ==
  [node |-> top, beneficiary |-> alice, product |-> "Renewal", termYears |-> 1,
   discountBps |-> bps, maxUses |-> uses_, validAfter |-> 0, deadline |-> 2,
   signer |-> signer]
MCAuthorizations == {MCAuthorization(2, 5000, key1),
                     MCAuthorization(1, 10000, key2)}
MCRunning == [switch \in Switches |-> FALSE]
MCPauses == {MCRunning, [switch \in Switches |-> TRUE]}

MCSymmetry == Permutations(Accounts)
=============================================================================
