---------------------------- MODULE MCQuoteService ----------------------------
(* A small instance of QuoteService: one name and one subdomain of it. *)
EXTENDS QuoteService, TLC

CONSTANTS alice, bob, top, sub, registrar1, default, key1, key2, usdc1,
          treasury1, h1

MCParentNode == sub :> top
MCLabelLength == [n \in Nodes |-> 5]

MCConfig(annual, signer, token, xdc) ==
  [annual |-> [class \in PriceClasses |-> annual],
   threeYearDiscountBps |-> 500,
   fiveYearDiscountBps |-> 1000,
   tenYearDiscountBps |-> 2000,
   quoteSigner |-> signer,
   usdcToken |-> token,
   treasury |-> treasury1,
   xdcPaymentsEnabled |-> xdc,
   usdcPaymentsEnabled |-> TRUE]
MCInitialConfig == MCConfig(2, key1, usdc1, TRUE)
MCProposals == {MCConfig(3, key2, usdc1, FALSE)}
MCNoConfig == [MCConfig(0, None, None, FALSE) EXCEPT !.treasury = None]
MCNoLegacy == [n \in Nodes |-> EmptyLegacyRecord]
MCNoLegacySubs == [n \in SubNodes |-> EmptyLegacySub]

\* Half the price of a renewal, once.
MCAuthorizations ==
  {[node |-> top, beneficiary |-> alice, product |-> "Renewal", termYears |-> 1,
    discountBps |-> 5000, maxUses |-> 1, validAfter |-> 0, deadline |-> 2,
    signer |-> key1]}

MCAsk(n, product, owner, currency) ==
  [node |-> n, product |-> product, payer |-> alice, nameOwner |-> owner,
   termYears |-> 1, currency |-> currency]
MCAsked == {MCAsk(top, "Registration", alice, "XDC"),
            MCAsk(top, "Renewal", alice, "USDC"),
            MCAsk(sub, "SubdomainRegistration", bob, "USDC"),
            MCAsk(sub, "SubdomainRenewal", bob, "XDC")}
MCSkews == {-1, 0, 1}
=============================================================================
