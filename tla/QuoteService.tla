----------------------------- MODULE QuoteService -----------------------------
(***************************************************************************)
(* The service that signs registrar quotes, on the contracts it reads:     *)
(*                                                                         *)
(*   frontend/app/api/v1/registrar/quote/route.ts    names                 *)
(*   frontend/app/api/v1/subdomain/quote/route.ts    their subdomains      *)
(*   frontend/lib/signedRegistrarQuotes.ts           when a quote begins   *)
(*                                                                         *)
(* Every eth_call of a handler is one step, and blocks fall in between; the *)
(* calls of one Promise.all are made in any order.  A handler may fail or  *)
(* its answer be lost after any step.  The deployment is the unified one.  *)
(* XDC amounts, the rate limit and the checks of the configured addresses  *)
(* are left out; a request has at most one stored grant that fits it.      *)
(***************************************************************************)
EXTENDS UnifiedRegistrar, Integers

CONSTANTS
  Handlers,   \* requests served at the same time
  Asked,      \* what may be asked for
  ServiceKey, \* XNS_QUOTE_SIGNER_PRIVATE_KEY
  Lifetime,   \* SIGNED_QUOTE_LIFETIME_SECONDS, in ticks
  Safety,     \* QUOTE_BLOCK_TIME_SAFETY_SECONDS, in ticks
  Skews,      \* how far the server's clock may be from the last block's
  Unread      \* an eth_call not yet answered

VARIABLE serving   \* what each handler has read, refused or signed

servedVars == <<unifiedVars, serving>>

-----------------------------------------------------------------------------
(* Values *)

Request == [node : Nodes, product : Products, payer : Accounts,
            nameOwner : Accounts, termYears : Terms,
            currency : {"XDC", "USDC"}]
NoQuote == [nameOwner |-> None, termYears |-> 0, usdMicros |-> 0,
            paymentToken |-> None, version |-> 0, signer |-> None,
            nonce |-> 0, issuedAt |-> 0, lifetime |-> 0]
Reasons == {"unauthorized", "unavailable", "notOwner", "parentUnavailable",
            "notController", "termExceedsParent", "paymentsPaused"}
Idle == [stage |-> "idle", request |-> None, version |-> Unread,
         config |-> Unread, nonce |-> Unread, block |-> Unread,
         parentOwner |-> Unread, parentExpiry |-> Unread, usdMicros |-> 0,
         grant |-> NoAuthorization, quote |-> NoQuote]

OfSubdomain(r) == r.product \in {"SubdomainRegistration", "SubdomainRenewal"}
ParentOf(r) == IF OfSubdomain(r) THEN ParentNode[r.node] ELSE r.node

\* normalizeSignedQuoteRequest and normalizeSubdomainQuoteRequest: a name of a
\* length that is sold, or a subdomain.
WellFormed(r) ==
  /\ OfSubdomain(r) <=> r.node \in SubNodes
  /\ ClassOf(r.node, r.product) # "none"

\* Ten minutes, of the fifteen the contract allows.
ASSUME ServiceAssumption ==
  /\ Asked \subseteq Request /\ \A r \in Asked : WellFormed(r)
  /\ ServiceKey \in QuoteSigners
  /\ Lifetime \in Nat /\ Safety \in Nat /\ Skews \subseteq Int
  /\ Lifetime <= MaxQuoteLifetime
  /\ Unread \notin Nat \cup Configs \cup Accounts \cup {None}

ServerTimes == {t \in 0 .. MaxTime + 1 : t - now \in Skews}

\* safeQuoteIssuedAt, by the server's clock alone.
IssuedByServer(serverNow, block) == serverNow

\* safeQuoteIssuedAt
IssuedAt(serverNow, block) ==
  LET earlier == IF serverNow < block THEN serverNow ELSE block
  IN IF earlier < Safety THEN 0 ELSE earlier - Safety

-----------------------------------------------------------------------------
(* A handler *)

At(h, stage) == serving[h].stage = stage

Learn(h, field, value) ==
  /\ serving[h][field] = Unread
  /\ serving' = [serving EXCEPT ![h][field] = value]

Continue(h, stage) == serving' = [serving EXCEPT ![h].stage = stage]

\* An answer ends the handler; what it had read is gone.
Answer(h, stage, grant, quote) ==
  serving' = [serving EXCEPT ![h] =
    [Idle EXCEPT !.stage = stage, !.request = serving[h].request,
                 !.grant = grant, !.quote = quote]]

Refuse(h, reason) ==
  reason \in Reasons /\ Answer(h, reason, NoAuthorization, NoQuote)

Receive(h, r) ==
  /\ At(h, "idle")
  /\ serving' = [serving EXCEPT
       ![h] = [Idle EXCEPT !.stage = "context", !.request = r]]

\* version(), config(), nonces(payer) and the latest block, at once.
ReadContext(h) ==
  /\ At(h, "context")
  /\ \/ Learn(h, "version", version)
     \/ Learn(h, "config", config)
     \/ Learn(h, "nonce", nonces[serving[h].request.payer])
     \/ Learn(h, "block", now)

\* isQuoteAuthorizationValid(signer, version)
Authorize(h) ==
  /\ At(h, "context")
  /\ \A field \in {"version", "config", "nonce", "block"} :
       serving[h][field] # Unread
  /\ IF ~IsQuoteAuthorizationValid(ServiceKey, serving[h].version)
     THEN Refuse(h, "unauthorized")
     ELSE Continue(h, IF OfSubdomain(serving[h].request)
                      THEN "parent" ELSE "name")

\* available(name); an expiry of zero is long past.
Available(n) == OwnerOf(n) = None /\ (ExpiryOf(n) = 0 \/ ExpiryOf(n) < now)

\* validateNameState of the registrar route
CheckName(h) ==
  LET r == serving[h].request IN
  /\ At(h, "name")
  /\ IF r.product = "Registration"
     THEN IF Available(r.node)
          THEN Continue(h, "price") ELSE Refuse(h, "unavailable")
     ELSE IF r.payer = r.nameOwner /\ OwnerOf(r.node) = r.payer
          THEN Continue(h, "price") ELSE Refuse(h, "notOwner")

\* ownerOf(parent) and expiryOf(parent), at once.
ReadParent(h) ==
  LET parent == ParentOf(serving[h].request) IN
  /\ At(h, "parent")
  /\ \/ Learn(h, "parentOwner", OwnerOf(parent))
     \/ Learn(h, "parentExpiry", ExpiryOf(parent))

\* The parent's owner is compared with whom the subdomain is for, not with who
\* pays.
CheckSubdomainOfOwner(h) ==
  LET r == serving[h].request
      job == serving[h]
  IN
  /\ At(h, "parent")
  /\ job.parentOwner # Unread /\ job.parentExpiry # Unread
  /\ IF job.parentOwner # r.nameOwner THEN Refuse(h, "notController")
     ELSE IF Records(r.node).owner # None THEN Refuse(h, "unavailable")
     ELSE Continue(h, "price")

\* The checks of the subdomain route, on the child's record.
CheckSubdomain(h) ==
  LET r == serving[h].request
      job == serving[h]
      record == Records(r.node)
      term == r.termYears * Year
  IN
  /\ At(h, "parent")
  /\ job.parentOwner # Unread /\ job.parentExpiry # Unread
  /\ IF job.parentOwner = None THEN Refuse(h, "parentUnavailable")
     ELSE IF r.product = "SubdomainRegistration"
     THEN IF job.parentOwner # r.payer THEN Refuse(h, "notController")
          ELSE IF record.owner # None THEN Refuse(h, "unavailable")
          ELSE \E serverNow \in ServerTimes :
                 IF serverNow + term > job.parentExpiry
                 THEN Refuse(h, "termExceedsParent")
                 ELSE Continue(h, "price")
     ELSE IF record.owner # r.nameOwner THEN Refuse(h, "notOwner")
          ELSE IF job.parentOwner # r.payer THEN Refuse(h, "notController")
          ELSE IF record.expiry + term > job.parentExpiry
          THEN Refuse(h, "termExceedsParent")
          ELSE Continue(h, "price")

\* priceUsdMicros, of the configuration of that moment.
ReadPrice(h) ==
  LET r == serving[h].request IN
  /\ At(h, "price")
  /\ serving' = [serving EXCEPT
       ![h].usdMicros = NetPrice(config, r.node, r.product, r.termYears, 0),
       ![h].stage = IF OfSubdomain(r) THEN "sign" ELSE "grant"]

\* isUsable(authorization, signature)
IsUsable(auth) ==
  /\ auth.discountBps \in 1 .. BASIS_POINTS
  /\ auth.maxUses # 0
  /\ auth.validAfter <= now /\ now <= auth.deadline
  /\ ~revoked[auth]
  /\ uses[auth] < auth.maxUses
  /\ auth.signer = authorizationSigner

\* findDomainDiscountGrants: the stored grants for this sale.
GrantsFor(r) ==
  {auth \in Authorizations :
     /\ auth.node = r.node /\ auth.beneficiary = r.nameOwner
     /\ auth.product = r.product /\ auth.termYears = r.termYears}

\* The grant is named in the quote, its discount is forgotten.
FindGrantUndiscounted(h) ==
  LET grants == {auth \in GrantsFor(serving[h].request) : IsUsable(auth)} IN
  /\ At(h, "grant")
  /\ \E grant \in grants \cup {NoAuthorization} :
       serving' = [serving EXCEPT ![h].stage = "sign", ![h].grant = grant]

\* usableDiscountGrant; a failed lookup leaves the regular price.
FindGrant(h) ==
  LET grants == {auth \in GrantsFor(serving[h].request) : IsUsable(auth)} IN
  /\ At(h, "grant")
  /\ \E grant \in grants \cup {NoAuthorization} :
       serving' = [serving EXCEPT
         ![h].stage = "sign", ![h].grant = grant,
         ![h].usdMicros = IF grant = NoAuthorization THEN @
                          ELSE ApplyDiscount(@, grant.discountBps)]

\* The payment method, by the configuration read first, then the signature.
\* A free quote for a name needs no payment method.
Sign(h) ==
  LET job == serving[h]
      r == job.request
      offered == IF r.currency = "XDC" THEN job.config.xdcPaymentsEnabled
                 ELSE job.config.usdcPaymentsEnabled
  IN
  /\ At(h, "sign")
  /\ IF ~offered /\ (OfSubdomain(r) \/ job.usdMicros # 0)
     THEN Refuse(h, "paymentsPaused")
     ELSE \E serverNow \in ServerTimes :
            Answer(h, "quoted", job.grant,
              [nameOwner |-> r.nameOwner, termYears |-> r.termYears,
               usdMicros |-> job.usdMicros,
               paymentToken |-> IF r.currency = "XDC" THEN None
                                ELSE job.config.usdcToken,
               version |-> job.version, signer |-> ServiceKey,
               nonce |-> job.nonce,
               issuedAt |-> IssuedAt(serverNow, job.block),
               lifetime |-> Lifetime])

\* A failed call, a lost answer, or a quote or refusal put aside.
Forget(h) ==
  /\ serving[h].stage # "idle"
  /\ serving' = [serving EXCEPT ![h] = Idle]

HandlerStep(h) ==
  \/ ReadContext(h)
  \/ Authorize(h)
  \/ CheckName(h)
  \/ ReadParent(h)
  \/ CheckSubdomain(h)
  \/ ReadPrice(h)
  \/ FindGrant(h)
  \/ Sign(h)
  \/ Forget(h)

-----------------------------------------------------------------------------
(* The sale *)

\* What the contract does with a quote for a request.
SellTo(r, q, grant) ==
  CASE r.product = "Registration" -> Register(r.payer, q, grant, r.node)
    [] r.product = "Renewal" -> Renew(r.payer, q, grant, r.node)
    [] r.product = "SubdomainRegistration" ->
         SellSubdomain(r.payer, q, grant, r.node)
    [] r.product = "SubdomainRenewal" ->
         SellSubdomainRenewal(r.payer, q, grant, r.node)

\* What a sale depends on.  Once a quote is signed the pricing may change: the
\* quote carries it.
Pricing == <<version, config>>
Basis(r) ==
  <<nonces[r.payer], OwnerOf(r.node), Records(r.node), OwnerOf(ParentOf(r)),
    ExpiryOf(ParentOf(r)), registrar, paused, uses, revoked,
    authorizationSigner>>

\* A request overtaken by a change of its basis is not followed further: the
\* contract judges what comes of it as any quote, and UnifiedRegistrar presents
\* it every quote that a key can sign.
Observe ==
  serving' = [h \in Handlers |->
    IF \/ serving[h].stage \in {"idle", "overtaken"}
       \/ /\ \A r \in {serving[h].request} : Basis(r)' = Basis(r)
          /\ serving[h].stage = "quoted" \/ Pricing' = Pricing
    THEN serving[h]
    ELSE [Idle EXCEPT !.stage = "overtaken"]]

\* The payer presents the quote, as often as they like.
Redeem(h) ==
  /\ At(h, "quoted")
  /\ \E job \in {serving[h]} : SellTo(job.request, job.quote, job.grant)
  /\ Observe

ServedInit == UnifiedInit /\ serving = [h \in Handlers |-> Idle]

\* The one administrative call that touches a grant; a rotation of the
\* authorization signer takes days.
GrantRevoked ==
  /\ \E auth \in Authorizations : RevokeDiscount(auth)
  /\ call' = NoCall
  /\ UNCHANGED <<resolverVars, policyVars, legacySubs, saleVars>>

ServedNext ==
  \/ (NamesStep \/ PricingStep \/ GrantRevoked \/ SaleStep \/ ParentStep)
       /\ Observe
  \/ \E h \in Handlers :
       \/ Redeem(h)
       \/ /\ (\E r \in Asked : Receive(h, r)) \/ HandlerStep(h)
          /\ call' = NoCall
          /\ UNCHANGED <<resolverVars, registrarSideVars>>

ServedSpec == ServedInit /\ [][ServedNext]_servedVars

-----------------------------------------------------------------------------
(* Properties *)

\* No quote begins after the block it is presented in, however far the clock
\* of the server that signed it is ahead of the chain.
QuoteNeverPremature ==
  \A h \in Handlers : At(h, "quoted") => serving[h].quote.issuedAt <= now

\* The conditions under which the contract sells a request by a quote, each
\* revert of the handlers and of the registry calls they make in turn.
GrantFits(r, auth) ==
  auth \in GrantsFor(r) /\ IsUsable(auth)
NameSells(r) ==
  LET n == r.node
      term == r.termYears * Year
  IN
  CASE r.product = "Registration" -> OwnerOf(n) = None
    [] r.product = "Renewal" -> OwnerOf(n) = r.payer /\ r.nameOwner = r.payer
    [] r.product = "SubdomainRegistration" ->
         /\ RequireParentOwner(r.payer, ParentNode[n])
         /\ Records(n).owner = None
         /\ now + term <= ExpiryOf(ParentNode[n])
    [] r.product = "SubdomainRenewal" ->
         /\ RequireParentOwner(r.payer, ParentNode[n])
         /\ Records(n).owner = r.nameOwner
         /\ Records(n).kind = "Subdomain"
         /\ (IF Records(n).expiry < now THEN now ELSE Records(n).expiry) + term
              <= ExpiryOf(ParentNode[n])
Sellable(r, q, auth) ==
  /\ registrar = This
  /\ auth = NoAuthorization \/ GrantFits(r, auth)
  /\ ValidateQuote(r.payer, q, r.node, r.product,
       IF auth = NoAuthorization THEN 0 ELSE auth.discountBps)
  /\ CollectPayment(q)
  /\ NameSells(r)

\* A quote is good to the end of its time or, if that is sooner, of the grace
\* period of its version: whatever happens to the pricing after it was signed,
\* the contract sells by it, with the grant that came with it, as long as name,
\* nonce and grant stand as they did when its request came in.  Two things are
\* excepted: a payment method withdrawn since, and the term of a subdomain that
\* by now no longer fits its parent's.
TermStillFits(r) ==
  LET base == IF r.product = "SubdomainRenewal" /\ Records(r.node).expiry > now
              THEN Records(r.node).expiry ELSE now
  IN OfSubdomain(r) =>
       base + r.termYears * Year <= ExpiryOf(ParentNode[r.node])
QuoteRedeemable ==
  \A h \in Handlers :
    LET job == serving[h] IN
    /\ job.stage = "quoted"
    /\ now <= job.quote.issuedAt + Lifetime
    /\ \E c \in Configs : InForce(job.quote.version, c)
    /\ job.grant # NoAuthorization => now <= job.grant.deadline
    /\ registrar = This /\ CollectPayment(job.quote)
    /\ TermStillFits(job.request)
    => Sellable(job.request, job.quote, job.grant)

\* A refusal is right: while nothing has changed since the request came in,
\* the contract would not sell it by any quote of the service.  A server whose
\* clock is ahead may find a subdomain's term too long a little early.
PerfectQuote(r) ==
  [nameOwner |-> r.nameOwner, termYears |-> r.termYears,
   usdMicros |-> NetPrice(config, r.node, r.product, r.termYears, 0),
   paymentToken |-> IF r.currency = "XDC" THEN None ELSE config.usdcToken,
   version |-> version, signer |-> ServiceKey, nonce |-> nonces[r.payer],
   issuedAt |-> now, lifetime |-> 0]
RefusalJustified ==
  \A h \in Handlers :
    LET job == serving[h] IN
    /\ job.stage \in Reasons
    /\ ~(job.stage = "termExceedsParent"
           /\ job.request.product = "SubdomainRegistration")
    => ~Sellable(job.request, PerfectQuote(job.request), NoAuthorization)
=============================================================================
