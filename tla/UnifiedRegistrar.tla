-------------------------- MODULE UnifiedRegistrar --------------------------
(***************************************************************************)
(* The registrar, src/contracts/XNSUnifiedRegistrar.sol, composed with the *)
(* registry it writes, the resolver it initialises and imports into, the   *)
(* pricing policy it reads and the retired subdomain module                *)
(* src/contracts/XNSSubdomainRegistrar.sol it imports from.                *)
(*                                                                         *)
(* Every handler is one transaction.  A quote is a message the policy's    *)
(* signer signed off the chain at some earlier time; it is chosen when it  *)
(* is presented, among all a key of QuoteSigners could have signed.  Its   *)
(* fields that have to repeat the call (node, parent, payer, product) are  *)
(* taken from the call.  Amounts of XDC are left out: the contract knows   *)
(* no exchange rate and takes what the quote says.                         *)
(***************************************************************************)
EXTENDS UniversalResolver, PricingPolicyV2

CONSTANTS
  This,                        \* this registrar, a member of Registrars
  Year,                        \* YEAR, in ticks
  MaxQuoteLifetime,            \* MAX_QUOTE_LIFETIME, in ticks
  LabelLength,                 \* the length of each node's label
  AuthorizationSigners,        \* keys that may sign discount authorizations
  InitialAuthorizationSigner,
  Authorizations,              \* signed discount authorizations
  NoAuthorization,             \* a sale at the full price
  LegacySubAtStart,            \* the retired module's records at deployment
  LegacyChains,                \* the chains whose routes are imported
  PauseStates,                 \* pause settings the owner may choose
  QuoteTerms, QuotePrices, QuoteTokens, QuoteAges, QuoteLifetimes,
                               \* bounds on the quotes presented
  MaxNonce                     \* bound on nonces

VARIABLES
  legacySubs,                  \* the retired subdomain module's records
  authorizationSigner,         \* authorizationSigner
  pendingAuthorizationSigner,  \* pendingAuthorizationSigner
  signerActivationTime,        \* pendingActivationTime
  hasPendingConfiguration,     \* hasPendingConfiguration
  nonces,                      \* nonces
  uses,                        \* uses
  revoked,                     \* revoked
  paused,                      \* the four pause switches
  redemptions,                 \* history: sales made with each nonce
  call                         \* history: the registrar call just made

signerVars == <<authorizationSigner, pendingAuthorizationSigner,
                signerActivationTime, hasPendingConfiguration>>
saleVars == <<nonces, uses, redemptions>>
adminVars == <<signerVars, revoked, paused>>
registrarSideVars == <<policyVars, legacySubs, adminVars, saleVars>>
unifiedVars == <<resolverVars, registrarSideVars, call>>

Products == {"Registration", "Renewal", "SubdomainRegistration",
             "SubdomainRenewal"}
Switches == {"topLevelRegistrations", "topLevelRenewals",
             "subdomainRegistrations", "subdomainRenewals"}

-----------------------------------------------------------------------------
(* Values *)

\* What a signed discount authorization says, and whose signature it bears.
Authorization == [node : Nodes, beneficiary : Accounts, product : Products,
                  termYears : Nat, discountBps : Nat, maxUses : Nat,
                  validAfter : Nat, deadline : Nat,
                  signer : AuthorizationSigners]

LegacySub == [owner : Accounts \cup {None}, expiry : Expiries,
              routes : [Chains -> Accounts \cup {None}]]
NoRoutes == [chain \in Chains |-> None]
EmptyLegacySub == [owner |-> None, expiry |-> 0, routes |-> NoRoutes]

NoSale == [product |-> "None", node |-> None, nameOwner |-> None,
           termYears |-> 0, usdMicros |-> 0, version |-> 0, signer |-> None,
           authorization |-> NoAuthorization]
NoCall == [sender |-> None, sale |-> NoSale]

\* The quotes the account may present: signed at some time, for some term.
PresentedQuotes(sender) ==
  [nameOwner : Accounts, termYears : QuoteTerms, usdMicros : QuotePrices,
   paymentToken : QuoteTokens \cup {None},    \* None is XDC
   version : 1 .. MaxVersion, signer : QuoteSigners,
   nonce : {k \in 0 .. MaxNonce : k \in nonces[sender] - 1 .. nonces[sender]},
   issuedAt : {t \in 0 .. now : now - t \in QuoteAges},
   lifetime : QuoteLifetimes]

ASSUME RegistrarAssumption ==
  /\ This \in Registrars
  /\ \A c \in Configs : c.usdcToken # None
  /\ Year \in Nat /\ MaxNonce \in Nat
  /\ LegacyChains \subseteq Chains \ {DefaultChain}
  /\ InitialAuthorizationSigner \in AuthorizationSigners
  /\ None \notin AuthorizationSigners
  /\ Authorizations \subseteq Authorization
  /\ NoAuthorization \notin Authorizations
  /\ PauseStates \subseteq [Switches -> BOOLEAN]

\* The retired module never let a subdomain outlive its parent.
ASSUME LegacySubAssumption ==
  /\ LegacySubAtStart \in [SubNodes -> LegacySub]
  /\ \A n \in SubNodes :
       IF LegacySubAtStart[n].owner = None
       THEN LegacySubAtStart[n] = EmptyLegacySub
       ELSE LegacySubAtStart[n].expiry <= LegacyAtStart[ParentNode[n]].expiry

-----------------------------------------------------------------------------
(* Quotes, discounts and payment *)

ApplyDiscount(gross, discountBps) ==
  DivideRoundingUp(gross * (BASIS_POINTS - discountBps), BASIS_POINTS)

ClassOf(n, product) ==
  PriceClass(IF product \in {"Registration", "Renewal"} THEN product
                    ELSE "Subdomain", LabelLength[n])

NetPrice(c, n, product, termYears, discountBps) ==
  ApplyDiscount(
    PriceUsdMicros(c, ClassOf(n, product), termYears), discountBps)

\* _isValidQuoteSignature: the current signer is tried, then the previous one.
IsValidQuoteSignature(q) ==
  \E signer \in {config.quoteSigner, previousQuoteSigner} :
    /\ signer # NoSigner
    /\ IsQuoteAuthorizationValid(signer, q.version)
    /\ q.signer = signer

InQuoteWindow(q) ==
  /\ q.issuedAt <= now
  /\ now <= q.issuedAt + q.lifetime
  /\ q.lifetime <= MaxQuoteLifetime

ValidateQuotePricedNow(sender, q, n, product, discountBps) ==
  /\ q.termYears \in Terms
  /\ InQuoteWindow(q)
  /\ q.nonce = nonces[sender]
  /\ ClassOf(n, product) # "none"
  /\ q.usdMicros = NetPrice(config, n, product, q.termYears, discountBps)
  /\ IsValidQuoteSignature(q)

ValidateQuoteAnyNonce(sender, q, n, product, discountBps) ==
  LET c == ConfigForVersion(q.version) IN
  /\ q.termYears \in Terms
  /\ InQuoteWindow(q)
  /\ ClassOf(n, product) # "none"
  /\ c # NoConfig
  /\ q.usdMicros = NetPrice(c, n, product, q.termYears, discountBps)
  /\ IsValidQuoteSignature(q)

\* _validateQuote; priceUsdMicrosForVersion reverts for terms and lengths that
\* are not sold and for versions out of force.
ValidateQuote(sender, q, n, product, discountBps) ==
  LET c == ConfigForVersion(q.version) IN
  /\ q.termYears \in Terms
  /\ InQuoteWindow(q)
  /\ q.nonce = nonces[sender]
  /\ ClassOf(n, product) # "none"
  /\ c # NoConfig
  /\ q.usdMicros = NetPrice(c, n, product, q.termYears, discountBps)
  /\ IsValidQuoteSignature(q)

BumpNonce(sender, q) ==
  /\ q.nonce < MaxNonce
  /\ nonces' = [nonces EXCEPT ![sender] = q.nonce + 1]
  /\ redemptions' = [redemptions EXCEPT ![sender][q.nonce] = @ + 1]

ConsumeDiscountForAnyProduct(auth, q, n, product) ==
  /\ auth.node = n
  /\ auth.beneficiary = q.nameOwner
  /\ auth.termYears = q.termYears
  /\ auth.discountBps \in 1 .. BASIS_POINTS
  /\ auth.maxUses # 0
  /\ auth.validAfter <= now /\ now <= auth.deadline
  /\ ~revoked[auth]
  /\ uses[auth] < auth.maxUses
  /\ auth.signer = authorizationSigner
  /\ uses' = [uses EXCEPT ![auth] = @ + 1]

\* _consumeDiscount
ConsumeDiscount(auth, q, n, product) ==
  /\ auth.node = n
  /\ auth.beneficiary = q.nameOwner
  /\ auth.product = product
  /\ auth.termYears = q.termYears
  /\ auth.discountBps \in 1 .. BASIS_POINTS
  /\ auth.maxUses # 0
  /\ auth.validAfter <= now /\ now <= auth.deadline
  /\ ~revoked[auth]
  /\ uses[auth] < auth.maxUses
  /\ auth.signer = authorizationSigner
  /\ uses' = [uses EXCEPT ![auth] = @ + 1]

\* What _collectPayment accepts: it asks the present configuration, whatever
\* the version the quote was priced by.
PaymentAccepted(token) ==
  IF token = None THEN config.xdcPaymentsEnabled
  ELSE token = config.usdcToken /\ config.usdcPaymentsEnabled

CollectPayment(q) == q.usdMicros = 0 \/ PaymentAccepted(q.paymentToken)

\* What the four paid handlers, with and without a discount, have in common.
Sell(sender, q, auth, n, product) ==
  /\ registrar = This
  /\ \/ /\ auth = NoAuthorization
        /\ ValidateQuote(sender, q, n, product, 0)
        /\ UNCHANGED uses
     \/ /\ auth # NoAuthorization
        /\ ConsumeDiscount(auth, q, n, product)
        /\ ValidateQuote(sender, q, n, product, auth.discountBps)
  /\ BumpNonce(sender, q)
  /\ CollectPayment(q)
  /\ call' = [sender |-> sender,
              sale |-> [product |-> product, node |-> n,
                        nameOwner |-> q.nameOwner, termYears |-> q.termYears,
                        usdMicros |-> q.usdMicros, version |-> q.version,
                        signer |-> q.signer, authorization |-> auth]]
  /\ UNCHANGED <<policyVars, legacySubs, adminVars>>

-----------------------------------------------------------------------------
(* Paid handlers *)

RegisteredPrimary(n) ==
  [node |-> n, generation |-> generation'[n], inTenure |-> TRUE]

InitializePrimaryForOwner(sender, q, n) ==
  \E record \in {primary[q.nameOwner]} :
    primary' = IF IsPrimaryActive(q.nameOwner, record)'
               THEN AgedPrimary
               ELSE [AgedPrimary EXCEPT ![q.nameOwner] = RegisteredPrimary(n)]

InitializePrimaryReplacing(sender, q, n) ==
  primary' = IF sender # q.nameOwner THEN AgedPrimary
             ELSE [AgedPrimary EXCEPT ![sender] = RegisteredPrimary(n)]

\* A name registered for oneself becomes one's primary name, unless one has a
\* valid primary name once the registration is recorded.
InitializePrimary(sender, q, n) ==
  \E record \in {primary[sender]} :
    primary' = IF sender # q.nameOwner \/ IsPrimaryActive(sender, record)'
               THEN AgedPrimary
               ELSE [AgedPrimary EXCEPT ![sender] = RegisteredPrimary(n)]

\* register, registerWithDiscount
Register(sender, q, auth, n) ==
  /\ ~paused["topLevelRegistrations"]
  /\ Sell(sender, q, auth, n, "Registration")
  /\ RegisterTopLevel(n, q.nameOwner, now + q.termYears * Year)
  /\ InitializePrimary(sender, q, n)
  /\ addresses' = AgedAddresses
  /\ texts' = AgedTexts
  /\ chosen' = AgedChosen
  /\ UNCHANGED legacyRoutesImported

\* renew, renewWithDiscount
Renew(sender, q, auth, n) ==
  /\ ~paused["topLevelRenewals"]
  /\ OwnerOf(n) = sender
  /\ q.nameOwner = sender
  /\ Sell(sender, q, auth, n, "Renewal")
  /\ RenewTopLevel(n, ExpiryOf(n) + q.termYears * Year)
  /\ AgeRecords
  /\ UNCHANGED legacyRoutesImported

RequireRegisteredParent(sender, parent) ==
  /\ OwnerOf(parent) # None
  /\ Records(parent).kind = "TopLevel"

\* _requireParentOwner
RequireParentOwner(sender, parent) ==
  /\ OwnerOf(parent) = sender
  /\ Records(parent).kind = "TopLevel"

\* registerSubdomain, registerSubdomainWithDiscount
SellSubdomain(sender, q, auth, n) ==
  /\ ~paused["subdomainRegistrations"]
  /\ RequireParentOwner(sender, ParentNode[n])
  /\ Sell(sender, q, auth, n, "SubdomainRegistration")
  /\ now + q.termYears * Year <= ExpiryOf(ParentNode[n])
  /\ RegisterSubdomain(n, ParentNode[n], q.nameOwner,
                       now + q.termYears * Year)
  /\ AgeRecords
  /\ UNCHANGED legacyRoutesImported

\* renewSubdomain, renewSubdomainWithDiscount
SellSubdomainRenewal(sender, q, auth, n) ==
  LET base == IF Records(n).expiry < now THEN now ELSE Records(n).expiry IN
  /\ ~paused["subdomainRenewals"]
  /\ RequireParentOwner(sender, ParentNode[n])
  /\ Records(n).kind = "Subdomain"
  /\ Records(n).parentNode = ParentNode[n]
  /\ q.nameOwner = Records(n).owner
  /\ Sell(sender, q, auth, n, "SubdomainRenewal")
  /\ base + q.termYears * Year <= ExpiryOf(ParentNode[n])
  /\ RenewSubdomain(n, base + q.termYears * Year)
  /\ AgeRecords
  /\ UNCHANGED legacyRoutesImported

-----------------------------------------------------------------------------
(* Handlers of the parent's owner, and the import *)

ByParentOwner(sender, n) ==
  /\ registrar = This
  /\ RequireParentOwner(sender, ParentNode[n])
  /\ AgeRecords
  /\ call' = [NoCall EXCEPT !.sender = sender]
  /\ UNCHANGED <<legacyRoutesImported, registrarSideVars>>

Reassign(sender, n, newOwner) ==
  ReassignSubdomain(n, newOwner) /\ ByParentOwner(sender, n)

Recall(sender, n) == ReassignSubdomain(n, sender) /\ ByParentOwner(sender, n)

Release(sender, n) == ReleaseSubdomain(n) /\ ByParentOwner(sender, n)

\* ownerOf(node) and addressOf(node, chain) of the retired module, which asks
\* Registry V2 about the parent.
LegacySubOwnerOf(n) ==
  IF legacySubs[n].expiry >= now /\ LegacyOwnerOf(ParentNode[n]) # None
  THEN legacySubs[n].owner ELSE None

LegacyAddressOf(n, chain) ==
  IF legacySubs[n].routes[chain] = None \/ LegacySubOwnerOf(n) = None
  THEN LegacySubOwnerOf(n) ELSE legacySubs[n].routes[chain]

ImportedStampBeforeRegistration(n) ==
  [recordOwner |-> legacySubs[n].owner, generation |-> generation[n],
   inTenure |-> TRUE]

ImportedStamp(n) ==
  [recordOwner |-> legacySubs[n].owner, generation |-> generation'[n],
   inTenure |-> TRUE]

\* migrateSubdomain, open to anyone: the name is registered and its routes
\* written under the generation that begins with it.
MigrateSubdomain(n) ==
  /\ registrar = This
  /\ generation[n] = 0
  /\ legacySubs[n].owner # None
  /\ LegacySubOwnerOf(n) = legacySubs[n].owner
  /\ legacySubs[n].expiry >= now
  /\ RegisterSubdomain(n, ParentNode[n], legacySubs[n].owner,
                       legacySubs[n].expiry)
  /\ ~legacyRoutesImported[n]
  /\ legacyRoutesImported' = [legacyRoutesImported EXCEPT ![n] = TRUE]
  /\ addresses' = [AgedAddresses EXCEPT ![n] =
       [chain \in Chains |->
          IF chain \in LegacyChains
          THEN [target |-> LegacyAddressOf(n, chain),
                stamp |-> ImportedStamp(n)]
          ELSE @[chain]]]
  /\ texts' = AgedTexts
  /\ primary' = AgedPrimary
  /\ chosen' = AgedChosen
  /\ call' = NoCall
  /\ UNCHANGED registrarSideVars

-----------------------------------------------------------------------------
(* Handlers of the registrar's owner *)

ProposeConfiguration(signer) ==
  /\ pendingAuthorizationSigner' = signer
  /\ signerActivationTime' = now + UpdateDelay
  /\ hasPendingConfiguration' = TRUE
  /\ UNCHANGED <<authorizationSigner, revoked, paused>>

CancelPendingConfigurationKeepingFlag ==
  /\ hasPendingConfiguration
  /\ pendingAuthorizationSigner' = None
  /\ signerActivationTime' = 0
  /\ UNCHANGED <<authorizationSigner, hasPendingConfiguration, revoked,
                 paused>>

CancelPendingConfiguration ==
  /\ hasPendingConfiguration
  /\ pendingAuthorizationSigner' = None
  /\ signerActivationTime' = 0
  /\ hasPendingConfiguration' = FALSE
  /\ UNCHANGED <<authorizationSigner, revoked, paused>>

ActivatePendingConfiguration ==
  /\ hasPendingConfiguration
  /\ now >= signerActivationTime
  /\ authorizationSigner' = pendingAuthorizationSigner
  /\ pendingAuthorizationSigner' = None
  /\ signerActivationTime' = 0
  /\ hasPendingConfiguration' = FALSE
  /\ UNCHANGED <<revoked, paused>>

RevokeDiscount(auth) ==
  /\ ~revoked[auth]
  /\ revoked' = [revoked EXCEPT ![auth] = TRUE]
  /\ UNCHANGED <<signerVars, paused>>

SetPauseState(state) ==
  /\ paused' = state
  /\ UNCHANGED <<signerVars, revoked>>

-----------------------------------------------------------------------------
(* The retired subdomain module, its registrations and renewals paused *)

LegacySubWrite(n, record) ==
  /\ LegacySubOwnerOf(n) # None
  /\ legacySubs' = [legacySubs EXCEPT ![n] = record]

\* transferSubdomain, assignSubdomain, reclaimSubdomain
LegacySubMove(n, newOwner) ==
  LegacySubWrite(n, [legacySubs[n] EXCEPT !.owner = newOwner,
                                          !.routes = NoRoutes])

\* setAddress
LegacySubSetAddress(n, chain, destination) ==
  LegacySubWrite(n, [legacySubs[n] EXCEPT !.routes[chain] = destination])

\* releaseSubdomain
LegacySubRelease(n) == LegacySubWrite(n, EmptyLegacySub)

-----------------------------------------------------------------------------
(* The composed system *)

UnifiedInit ==
  /\ ResolverInit
  /\ PolicyInit
  /\ legacySubs = LegacySubAtStart
  /\ authorizationSigner = InitialAuthorizationSigner
  /\ pendingAuthorizationSigner = None
  /\ signerActivationTime = 0
  /\ hasPendingConfiguration = FALSE
  /\ nonces = [a \in Accounts |-> 0]
  /\ uses = [auth \in Authorizations |-> 0]
  /\ revoked = [auth \in Authorizations |-> FALSE]
  /\ paused = [switch \in Switches |-> FALSE]
  /\ redemptions = [a \in Accounts |-> [k \in 0 .. MaxNonce |-> 0]]
  /\ call = NoCall

\* The registry's own callers: the clock, its owner, the owners of names, and
\* Registry V2.
NamesStep ==
  /\ Tick \/ RegistrarChange \/ OwnerCall \/ LegacyStep
  /\ AgeRecords
  /\ call' = NoCall
  /\ UNCHANGED <<legacyRoutesImported, registrarSideVars>>

RecordsStep ==
  /\ RecordStep
  /\ call' = NoCall
  /\ UNCHANGED registrarSideVars

PricingStep ==
  /\ PolicyStep
  /\ call' = NoCall
  /\ UNCHANGED <<resolverVars, legacySubs, adminVars, saleVars>>

AdminStep ==
  /\ \/ \E signer \in AuthorizationSigners : ProposeConfiguration(signer)
     \/ CancelPendingConfiguration
     \/ ActivatePendingConfiguration
     \/ \E auth \in Authorizations : RevokeDiscount(auth)
     \/ \E state \in PauseStates : SetPauseState(state)
  /\ call' = NoCall
  /\ UNCHANGED <<resolverVars, policyVars, legacySubs, saleVars>>

LegacySubStep ==
  /\ \E n \in SubNodes :
       \/ \E a \in Accounts : LegacySubMove(n, a)
       \/ \E chain \in Chains, a \in Accounts \cup {None} :
            LegacySubSetAddress(n, chain, a)
       \/ LegacySubRelease(n)
  /\ call' = NoCall
  /\ UNCHANGED <<resolverVars, policyVars, adminVars, saleVars>>

SaleStep ==
  \E sender \in Accounts, auth \in Authorizations \cup {NoAuthorization} :
    \E q \in PresentedQuotes(sender) :
      \/ \E n \in TopNodes :
           Register(sender, q, auth, n) \/ Renew(sender, q, auth, n)
      \/ \E n \in SubNodes :
           \/ SellSubdomain(sender, q, auth, n)
           \/ SellSubdomainRenewal(sender, q, auth, n)

ParentStep ==
  \E sender \in Accounts, n \in SubNodes :
    \/ \E newOwner \in Accounts : Reassign(sender, n, newOwner)
    \/ Recall(sender, n)
    \/ Release(sender, n)

UnifiedNext ==
  \/ NamesStep
  \/ RecordsStep
  \/ PricingStep
  \/ AdminStep
  \/ LegacySubStep
  \/ SaleStep
  \/ ParentStep
  \/ \E n \in SubNodes : MigrateSubdomain(n)

UnifiedSpec == UnifiedInit /\ [][UnifiedNext]_unifiedVars

-----------------------------------------------------------------------------
(* Properties *)

\* Every variable of the registrar holds values of its type, and a pending
\* signer is one that is waiting to be activated.
RegistrarTypeOK ==
  /\ legacySubs \in [SubNodes -> LegacySub]
  /\ authorizationSigner \in AuthorizationSigners
  /\ pendingAuthorizationSigner \in AuthorizationSigners \cup {None}
  /\ signerActivationTime \in 0 .. MaxTime + UpdateDelay
  /\ hasPendingConfiguration <=> pendingAuthorizationSigner # None
  /\ nonces \in [Accounts -> 0 .. MaxNonce]
  /\ \A auth \in Authorizations : uses[auth] \in 0 .. auth.maxUses
  /\ revoked \in [Authorizations -> BOOLEAN]
  /\ paused \in [Switches -> BOOLEAN]

\* Only the current owner of the parent registers, renews, hands on, recalls
\* or releases a subdomain; besides, its own owner may set its resolver and
\* anyone may import it exactly as the retired module has it.
ParentAloneGoverns ==
  [][\A n \in SubNodes :
       stored'[n] # stored[n] =>
         \/ call'.sender # None /\ call'.sender = OwnerOf(ParentNode[n])
         \/ stored'[n] = [stored[n] EXCEPT !.resolver = stored'[n].resolver]
         \/ /\ generation[n] = 0
            /\ stored'[n].owner = LegacySubOwnerOf(n)
            /\ stored'[n].expiry = legacySubs[n].expiry]_unifiedVars

\* No registrar call of one account changes which name another account shows
\* as its primary name: names may be registered for others and subdomains
\* assigned to them, but only their owner selects them.
PrimaryNeverSetForOthers ==
  [][\A a \in Accounts :
       primary'[a].node # primary[a].node
         => call'.sender \in {a, None}]_unifiedVars

\* An import preserves owner, parent, expiry and the routes of the five
\* networks, whatever happened to the record in the retired module and to its
\* parent in either registry before.
ImportIsExact ==
  [][\A n \in SubNodes :
       legacyRoutesImported'[n] # legacyRoutesImported[n] =>
         /\ LegacySubOwnerOf(n) # None
         /\ OwnerOf(n)' = LegacySubOwnerOf(n)
         /\ stored'[n].parentNode = ParentNode[n]
         /\ stored'[n].expiry = legacySubs[n].expiry
         /\ \A chain \in LegacyChains :
              AddressFor(n, chain)' = LegacyAddressOf(n, chain)]_unifiedVars

\* A subdomain of the retired module whose label was never used here can be
\* imported until the end of its term: neither the anchoring, transfer or
\* renewal of its parent here nor what happens to the parent in Registry V2
\* makes the registry refuse it.
ImportNeverStuck ==
  \A n \in SubNodes :
    generation[n] = 0 /\ legacySubs[n].owner # None
      /\ now < legacySubs[n].expiry
    => /\ LegacySubOwnerOf(n) = legacySubs[n].owner
       /\ ActiveTopLevel(ParentNode[n])
       /\ legacySubs[n].expiry <= ExpiryOf(ParentNode[n])

\* Every sale is made at the price of a policy version in force, less exactly
\* the discount authorized, on the word of that version's own signer.
SalePricedInForce ==
  LET s == call.sale
      bps == IF s.authorization = NoAuthorization THEN 0
             ELSE s.authorization.discountBps
  IN s # NoSale =>
       \E c \in Configs :
         /\ InForce(s.version, c)
         /\ s.signer = c.quoteSigner
         /\ s.usdMicros = NetPrice(c, s.node, s.product, s.termYears, bps)

\* A quote is redeemed at most once: each nonce below an account's counter was
\* used for exactly one of its sales, and none from there on.
QuoteRedeemedOnce ==
  \A a \in Accounts, k \in 0 .. MaxNonce :
    redemptions[a][k] = IF k < nonces[a] THEN 1 ELSE 0

\* An authorization is spent exactly by the sale it was signed for: of its
\* name, to its beneficiary, for its product and term; at most maxUses times,
\* never after it was revoked and never when its signer has been replaced.
GrantsHonoured ==
  [][\A auth \in Authorizations :
       IF uses'[auth] = uses[auth]
       THEN call' # call => call'.sale.authorization # auth
       ELSE LET s == call'.sale IN
         /\ s.authorization = auth
         /\ s.node = auth.node /\ s.nameOwner = auth.beneficiary
         /\ s.product = auth.product /\ s.termYears = auth.termYears
         /\ uses'[auth] <= auth.maxUses
         /\ ~revoked[auth]
         /\ authorizationSigner = auth.signer]_unifiedVars
=============================================================================
