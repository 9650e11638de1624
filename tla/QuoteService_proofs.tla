-------------------------- MODULE QuoteService_proofs --------------------------
(***************************************************************************)
(* Theorems about the service that signs quotes, for any number of         *)
(* requests served at once, any prices, any skew of its clock and any      *)
(* change of the contracts between its calls.                              *)
(*                                                                         *)
(* What a handler has learnt stays true as long as its request is followed *)
(* (JobRight); a signed quote stays right for its version while the        *)
(* pricing changes (PricedBy), and so the contract takes it.               *)
(***************************************************************************)
EXTENDS QuoteService, UnifiedRegistrar_proofs

USE DEF Nodes, Expiries

-----------------------------------------------------------------------------
(* Prices *)

LEMMA RoundingUp ==
  ASSUME NEW x \in Nat
  PROVE  /\ DivideRoundingUp(x, BASIS_POINTS) \in Nat
         /\ x > 0 => DivideRoundingUp(x, BASIS_POINTS) > 0
         /\ DivideRoundingUp(x * BASIS_POINTS, BASIS_POINTS) = x
BY DEF DivideRoundingUp, BASIS_POINTS

LEMMA Products2 ==
  ASSUME NEW a \in Nat, NEW b \in Nat
  PROVE  a * b \in Nat /\ (a > 0 /\ b > 0 => a * b > 0)
OBVIOUS

\* Every price asked for a term is positive: no discount reaches the whole.
LEMMA GrossPrice ==
  ASSUME NEW c \in Configs, NEW class \in PriceClasses, NEW years \in Terms
  PROVE  PriceUsdMicros(c, class, years) \in Nat \ {0}
<1>1. c.annual[class] \in Nat \ {0} /\ years \in Nat \ {0}
  BY PolicyAssumption DEF ValidConfig, Terms
<1>2. DiscountForTerm(c, years) \in Nat
      /\ DiscountForTerm(c, years) < BASIS_POINTS
  BY PolicyAssumption DEF ValidConfig, Terms, DiscountForTerm, BASIS_POINTS
<1> DEFINE rest == BASIS_POINTS - DiscountForTerm(c, years)
           gross == c.annual[class] * years
<1>3. rest \in Nat /\ rest > 0
  BY <1>2 DEF BASIS_POINTS
<1>4. gross \in Nat /\ gross > 0
  BY <1>1, Products2
<1> HIDE DEF rest, gross
<1>5. gross * rest \in Nat /\ gross * rest > 0
  BY <1>3, <1>4, Products2
<1>6. DivideRoundingUp(gross * rest, BASIS_POINTS) \in Nat \ {0}
  BY <1>5, RoundingUp
<1> QED
  BY <1>6 DEF PriceUsdMicros, gross, rest

\* A price without a discount is the price, and a discount is taken from it.
LEMMA NetPrices ==
  ASSUME NEW c \in Configs, NEW r \in Asked
  PROVE  /\ NetPrice(c, r.node, r.product, r.termYears, 0) \in Nat \ {0}
         /\ \A bps \in 0 .. BASIS_POINTS :
              LET net == ApplyDiscount(
                    NetPrice(c, r.node, r.product, r.termYears, 0), bps)
              IN net \in Nat
                 /\ net = NetPrice(c, r.node, r.product, r.termYears, bps)
<1> DEFINE class == ClassOf(r.node, r.product)
           gross == PriceUsdMicros(c, class, r.termYears)
<1>1. r.termYears \in Terms /\ class # "none"
  BY ServiceAssumption DEF WellFormed, Request
<1>2. class \in PriceClasses
  BY <1>1 DEF ClassOf, PriceClass, PriceClasses, MIN_LABEL_LENGTH,
              MAX_LABEL_LENGTH
<1> HIDE DEF class
<1>3. gross \in Nat \ {0}
  BY <1>1, <1>2, GrossPrice
<1>4. \A bps : NetPrice(c, r.node, r.product, r.termYears, bps)
                 = ApplyDiscount(gross, bps)
  BY DEF NetPrice, class
<1> HIDE DEF gross
<1>5. ApplyDiscount(gross, 0) = gross
  BY <1>3, RoundingUp DEF ApplyDiscount, BASIS_POINTS
<1>6. ASSUME NEW bps \in 0 .. BASIS_POINTS
      PROVE  ApplyDiscount(gross, bps) \in Nat
  <2>1. BASIS_POINTS - bps \in Nat
    BY DEF BASIS_POINTS
  <2>2. gross * (BASIS_POINTS - bps) \in Nat
    BY <1>3, <2>1, Products2
  <2> QED
    BY <2>2, RoundingUp DEF ApplyDiscount
<1> QED
  BY <1>3, <1>4, <1>5, <1>6

-----------------------------------------------------------------------------
(* What a handler knows *)

Working == {"context", "name", "parent", "price", "grant", "sign"}
Stages == Working \cup Reasons \cup {"idle", "quoted", "overtaken"}
Followed == Working \cup Reasons \cup {"quoted"}

Quote == [nameOwner : Accounts \cup {None}, termYears : Terms \cup {0},
          usdMicros : Nat,
          paymentToken : {c.usdcToken : c \in Configs} \cup {None},
          version : Nat, signer : QuoteSigners \cup {None}, nonce : Nat,
          issuedAt : Nat, lifetime : Nat]

Served == [stage : Stages, request : Asked \cup {None},
           version : Nat \cup {Unread}, config : Configs \cup {Unread},
           nonce : Nat \cup {Unread}, block : Nat \cup {Unread},
           parentOwner : Accounts \cup {None, Unread},
           parentExpiry : Nat \cup {Unread}, usdMicros : Nat,
           grant : Authorizations \cup {NoAuthorization}, quote : Quote]

\* What was read of the contracts is what they would answer now.
ReadRight(job, r) ==
  /\ job.version \in {version, Unread}
  /\ job.config \in {config, Unread}
  /\ job.nonce \in {nonces[r.payer], Unread}
  /\ job.block = Unread \/ job.block <= now
  /\ job.parentOwner \in {OwnerOf(ParentOf(r)), Unread}
  /\ job.parentExpiry \in {ExpiryOf(ParentOf(r)), Unread}

ContextRead(job) ==
  /\ job.version # Unread /\ job.config # Unread
  /\ job.nonce # Unread /\ job.block # Unread

\* The checks that validateNameState and the subdomain route leave standing.
NameRight(r) ==
  CASE r.product = "Registration" -> OwnerOf(r.node) = None
    [] r.product = "Renewal" ->
         OwnerOf(r.node) = r.payer /\ r.nameOwner = r.payer
    [] r.product = "SubdomainRegistration" ->
         OwnerOf(ParentOf(r)) = r.payer /\ Records(r.node).owner = None
    [] r.product = "SubdomainRenewal" ->
         OwnerOf(ParentOf(r)) = r.payer /\ Records(r.node).owner = r.nameOwner

\* A grant is usable, but for its deadline.
GrantRight(r, grant) ==
  grant # NoAuthorization =>
    /\ grant \in GrantsFor(r)
    /\ grant.discountBps \in 1 .. BASIS_POINTS
    /\ grant.maxUses # 0 /\ grant.validAfter <= now
    /\ ~revoked[grant] /\ uses[grant] < grant.maxUses
    /\ grant.signer = authorizationSigner

Bps(grant) == IF grant = NoAuthorization THEN 0 ELSE grant.discountBps

\* A quote is priced and signed by the version it names, be it retired.
PricedBy(r, quote, grant) ==
  \E c \in Configs :
    /\ c.quoteSigner = ServiceKey
    /\ quote.usdMicros
         = NetPrice(c, r.node, r.product, r.termYears, Bps(grant))
    /\ \/ quote.version = version /\ c = config
       \/ /\ quote.version \in 1 .. version - 1
          /\ c = retired[quote.version].config

QuoteRight(r, quote, grant) ==
  /\ quote.nameOwner = r.nameOwner /\ quote.termYears = r.termYears
  /\ quote.signer = ServiceKey /\ quote.nonce = nonces[r.payer]
  /\ quote.issuedAt <= now /\ quote.lifetime = Lifetime
  /\ PricedBy(r, quote, grant)

\* Why the contract would refuse as well.
RefusalRight(r, reason) ==
  CASE reason = "unauthorized" -> config.quoteSigner # ServiceKey
    [] reason = "unavailable" ->
         IF OfSubdomain(r)
         THEN r.product = "SubdomainRegistration"
              /\ Records(r.node).owner # None
         ELSE r.product = "Registration" /\ OwnerOf(r.node) # None
    [] reason = "notOwner" ->
         IF OfSubdomain(r)
         THEN r.product = "SubdomainRenewal"
              /\ Records(r.node).owner # r.nameOwner
         ELSE /\ r.product = "Renewal"
              /\ OwnerOf(r.node) # r.payer \/ r.nameOwner # r.payer
    [] reason = "parentUnavailable" ->
         OfSubdomain(r) /\ OwnerOf(ParentOf(r)) = None
    [] reason = "notController" ->
         OfSubdomain(r) /\ OwnerOf(ParentOf(r)) # r.payer
    [] reason = "termExceedsParent" ->
         /\ OfSubdomain(r)
         /\ r.product = "SubdomainRenewal" =>
              Records(r.node).expiry + r.termYears * Year
                > ExpiryOf(ParentOf(r))
    [] reason = "paymentsPaused" ->
         ~(IF r.currency = "XDC" THEN config.xdcPaymentsEnabled
           ELSE config.usdcPaymentsEnabled)

JobRight(job) ==
  LET r == job.request IN
  /\ job.stage \in Followed => r \in Asked
  /\ job.stage \in Working => ReadRight(job, r)
  /\ job.stage \in Working \ {"context"} =>
       ContextRead(job) /\ config.quoteSigner = ServiceKey
  /\ job.stage \in Working \ {"sign"} => job.grant = NoAuthorization
  /\ job.stage \in {"name", "grant"} => ~OfSubdomain(r)
  /\ job.stage = "parent" => OfSubdomain(r)
  /\ job.stage \in {"price", "grant", "sign", "quoted"} => NameRight(r)
  /\ job.stage \in {"grant", "sign"} =>
       job.usdMicros
         = NetPrice(config, r.node, r.product, r.termYears, Bps(job.grant))
  /\ job.stage \in {"sign", "quoted"} => GrantRight(r, job.grant)
  /\ job.stage = "quoted" => QuoteRight(r, job.quote, job.grant)
  /\ job.stage \in Reasons => RefusalRight(r, job.stage)

JobsRight == \A h \in Handlers : \A job \in {serving[h]} : JobRight(job)

ServedInv ==
  UnifiedInv /\ serving \in [Handlers -> Served] /\ JobsRight

-----------------------------------------------------------------------------
(* What stays right *)

LEMMA ClockIsNat == TypeOK => now \in Nat
BY TimeAssumption DEF TypeOK

\* A change of the pricing retires the version of a quote, with its prices and
\* its signer.
LEMMA PricedStays ==
  ASSUME PolicyInv, NEW r, NEW quote \in Quote, NEW grant,
         PricedBy(r, quote, grant),
         PolicyStep \/ UNCHANGED policyVars
  PROVE  PricedBy(r, quote, grant)'
<1>1. PICK c \in Configs :
        /\ c.quoteSigner = ServiceKey
        /\ quote.usdMicros
             = NetPrice(c, r.node, r.product, r.termYears, Bps(grant))
        /\ \/ quote.version = version /\ c = config
           \/ /\ quote.version \in 1 .. version - 1
              /\ c = retired[quote.version].config
  BY DEF PricedBy
<1>2. version \in 1 .. MaxVersion /\ MaxVersion \in Nat
      /\ retired \in [1 .. MaxVersion ->
           [config : Configs \cup {NoConfig}, at : 0 .. MaxTime]]
  BY PolicyAssumption DEF PolicyInv, PolicyTypeOK
<1>3. \/ quote.version = version' /\ c = config'
      \/ /\ quote.version \in 1 .. version' - 1
         /\ c = retired'[quote.version].config
  <2>1. CASE UNCHANGED activeVars
    BY <1>1, <2>1 DEF activeVars
  <2>2. CASE ActivatePendingConfig
    <3>1. /\ version' = version + 1
          /\ retired' = [retired EXCEPT ![version] = [config |-> config, at |-> now]]
      BY <2>2 DEF ActivatePendingConfig, Retire
    <3>2. CASE quote.version = version /\ c = config
      BY <1>2, <3>1, <3>2
    <3>3. CASE /\ quote.version \in 1 .. version - 1
               /\ c = retired[quote.version].config
      BY <1>2, <3>1, <3>3
    <3> QED
      BY <1>1, <3>2, <3>3
  <2> QED
    BY <2>1, <2>2
    DEF PolicyStep, ProposeConfig, CancelPendingConfig, policyVars, activeVars
<1> QED
  BY <1>1, <1>3 DEF PricedBy

LEMMA GrantStays ==
  ASSUME NEW r \in Asked, NEW grant \in Authorizations \cup {NoAuthorization},
         GrantRight(r, grant), Basis(r)' = Basis(r),
         now \in Nat, now' \in Nat, now' >= now
  PROVE  GrantRight(r, grant)'
<1>1. UNCHANGED <<uses, revoked, authorizationSigner>>
  BY DEF Basis
<1>2. grant # NoAuthorization => grant.validAfter \in Nat
  BY RegistrarAssumption DEF Authorization
<1> QED
  BY <1>1, <1>2 DEF GrantRight, GrantsFor

LEMMA NameStays ==
  ASSUME NEW r \in Asked, NameRight(r), Basis(r)' = Basis(r)
  PROVE  NameRight(r)'
BY DEF Basis, NameRight, Request

LEMMA RefusalStays ==
  ASSUME NEW r \in Asked, NEW reason \in Reasons, RefusalRight(r, reason),
         Basis(r)' = Basis(r), Pricing' = Pricing
  PROVE  RefusalRight(r, reason)'
BY DEF Basis, Pricing, RefusalRight, Reasons

LEMMA ReadStays ==
  ASSUME NEW r \in Asked, NEW job \in Served, ReadRight(job, r),
         Basis(r)' = Basis(r), Pricing' = Pricing,
         now \in Nat, now' \in Nat, now' >= now
  PROVE  ReadRight(job, r)'
<1>1. job.block \in Nat \cup {Unread}
  BY DEF Served
<1> QED
  BY <1>1 DEF Basis, Pricing, ReadRight

\* What a handler knows, and what it answered, stays right through every step
\* that leaves the basis of its request and, until it has signed, the pricing.
LEMMA JobStays ==
  ASSUME NEW job \in Served, JobRight(job), PolicyInv,
         PolicyStep \/ UNCHANGED policyVars,
         now \in Nat, now' \in Nat, now' >= now,
         \/ job.stage \in {"idle", "overtaken"}
         \/ /\ Basis(job.request)' = Basis(job.request)
            /\ job.stage = "quoted" \/ Pricing' = Pricing
  PROVE  JobRight(job)'
<1> DEFINE r == job.request
<1>0. /\ job.stage \in Stages /\ job.quote \in Quote
      /\ job.grant \in Authorizations \cup {NoAuthorization}
  BY DEF Served
<1>1. CASE job.stage \in {"idle", "overtaken"}
  BY <1>1 DEF JobRight, Working, Reasons, Followed
<1>2. CASE job.stage = "quoted" /\ Basis(r)' = Basis(r)
  <2>1. /\ r \in Asked /\ NameRight(r) /\ GrantRight(r, job.grant)
        /\ QuoteRight(r, job.quote, job.grant)
    BY <1>2 DEF JobRight, Followed
  <2>2. NameRight(r)' /\ GrantRight(r, job.grant)'
    BY <1>0, <1>2, <2>1, NameStays, GrantStays
  <2>3. PricedBy(r, job.quote, job.grant)'
    BY <1>0, <2>1, PricedStays DEF QuoteRight
  <2>4. QuoteRight(r, job.quote, job.grant)'
    <3>1. job.quote.issuedAt \in Nat
      BY <1>0 DEF Quote
    <3>2. nonces'[r.payer] = nonces[r.payer]
      BY <1>2 DEF Basis
    <3> QED
      BY <2>1, <2>3, <3>1, <3>2 DEF QuoteRight
  <2> QED
    BY <1>2, <2>1, <2>2, <2>4 DEF JobRight, Working, Reasons, Followed
<1>3. CASE job.stage \in Reasons /\ Basis(r)' = Basis(r) /\ Pricing' = Pricing
  <2>1. r \in Asked /\ RefusalRight(r, job.stage)
    BY <1>3 DEF JobRight, Followed
  <2>2. RefusalRight(r, job.stage)'
    BY <1>3, <2>1, RefusalStays
  <2> QED
    BY <1>3, <2>1, <2>2 DEF JobRight, Working, Reasons, Followed
<1>4. CASE job.stage \in Working /\ Basis(r)' = Basis(r) /\ Pricing' = Pricing
  <2>1. r \in Asked /\ ReadRight(job, r)
    BY <1>4 DEF JobRight, Followed
  <2>2. ReadRight(job, r)' /\ config' = config
    BY <1>4, <2>1, ReadStays DEF Pricing
  <2>3. NameRight(r) => NameRight(r)'
    BY <1>4, <2>1, NameStays
  <2>4. GrantRight(r, job.grant) => GrantRight(r, job.grant)'
    BY <1>0, <1>4, <2>1, GrantStays
  <2> HIDE DEF r
  <2>5. job.stage \in {"grant", "sign"} =>
          job.usdMicros
            = NetPrice(config', r.node, r.product, r.termYears, Bps(job.grant))
    BY <2>2 DEF JobRight, r
  <2> QED
    BY <1>4, <2>1, <2>2, <2>3, <2>4, <2>5
    DEF JobRight, Working, Reasons, Followed, r, ContextRead
<1> QED
  BY <1>0, <1>1, <1>2, <1>3, <1>4 DEF Stages

-----------------------------------------------------------------------------
(* What a handler does *)

\* The handler goes on with something right, and the others with what they had.
Becomes(h) ==
  \E new \in Served : JobRight(new) /\ serving' = [serving EXCEPT ![h] = new]

LEMMA IdleTyped ==
  /\ Idle \in Served /\ NoQuote \in Quote /\ Idle.stage = "idle"
  /\ Idle.grant = NoAuthorization /\ Idle.request = None
BY DEF Idle, NoQuote, Served, Quote, Stages

LEMMA ServedFacts ==
  ASSUME ServedInv, NEW h \in Handlers
  PROVE  /\ serving[h] \in Served /\ JobRight(serving[h])
         /\ TypeOK /\ NamesInv /\ PolicyInv /\ now \in Nat
         /\ config \in Configs /\ version \in Nat
         /\ nonces \in [Accounts -> Nat]
<1>1. /\ TypeOK /\ NamesInv /\ PolicyInv
      /\ nonces \in [Accounts -> 0 .. MaxNonce]
  BY DEF ServedInv, UnifiedInv, RegistryInv, RegistrarInv, SalesGood
<1>2. nonces \in [Accounts -> Nat]
  BY <1>1, RegistrarAssumption
<1>3. config \in Configs /\ version \in Nat
  BY <1>1 DEF PolicyInv, PolicyTypeOK
<1>4. now \in Nat
  BY <1>1, ClockIsNat
<1>5. serving[h] \in Served /\ JobRight(serving[h])
  BY DEF ServedInv, JobsRight
<1> QED
  BY <1>1, <1>2, <1>3, <1>4, <1>5

LEMMA Continues ==
  ASSUME NEW h \in Handlers, serving[h] \in Served,
         serving \in [Handlers -> Served],
         NEW stage \in Stages, Continue(h, stage),
         JobRight([serving[h] EXCEPT !.stage = stage])
  PROVE  Becomes(h)
<1> DEFINE new == [serving[h] EXCEPT !.stage = stage]
<1>1. new \in Served
  BY DEF Served
<1>2. serving' = [serving EXCEPT ![h] = new]
  BY DEF Continue
<1> QED
  BY <1>1, <1>2 DEF Becomes

LEMMA Refuses ==
  ASSUME NEW h \in Handlers, serving[h] \in Served,
         NEW reason, Refuse(h, reason),
         serving[h].request \in Asked,
         RefusalRight(serving[h].request, reason)
  PROVE  Becomes(h)
<1> DEFINE new == [Idle EXCEPT !.stage = reason,
                     !.request = serving[h].request,
                     !.grant = NoAuthorization, !.quote = NoQuote]
<1>1. reason \in Reasons /\ serving' = [serving EXCEPT ![h] = new]
  BY DEF Refuse, Answer
<1>2. /\ new \in Served /\ new.stage = reason
      /\ new.request = serving[h].request /\ new.grant = NoAuthorization
  <2>1. reason \in Stages
    BY <1>1 DEF Stages
  <2> HIDE DEF Idle, NoQuote
  <2> QED
    BY <2>1, IdleTyped DEF Served
<1> HIDE DEF new
<1>3. JobRight(new)
  BY <1>1, <1>2 DEF JobRight, Working, Reasons, Followed
<1> QED
  BY <1>1, <1>2, <1>3 DEF Becomes

LEMMA ReceiveRight ==
  ASSUME ServedInv, NEW h \in Handlers, NEW r \in Asked, Receive(h, r)
  PROVE  Becomes(h)
<1> DEFINE new == [Idle EXCEPT !.stage = "context", !.request = r]
<1>1. serving' = [serving EXCEPT ![h] = new]
  BY DEF Receive
<1>2. /\ new \in Served /\ new.stage = "context" /\ new.request = r
      /\ new.grant = NoAuthorization
      /\ new.version = Unread /\ new.config = Unread /\ new.nonce = Unread
      /\ new.block = Unread /\ new.parentOwner = Unread
      /\ new.parentExpiry = Unread
  BY IdleTyped DEF Served, Stages, Working, Idle
<1> HIDE DEF new
<1>3. JobRight(new)
  BY <1>2 DEF JobRight, ReadRight, Working, Reasons, Followed
<1> QED
  BY <1>1, <1>2, <1>3 DEF Becomes

\* What is read is what the contracts answer in that block.
LEMMA ReadContextRight ==
  ASSUME ServedInv, NEW h \in Handlers, ReadContext(h)
  PROVE  Becomes(h)
<1> DEFINE job == serving[h]
           r == job.request
<1>1. /\ job \in Served /\ JobRight(job) /\ now \in Nat
      /\ config \in Configs /\ version \in Nat
      /\ nonces \in [Accounts -> Nat]
  BY ServedFacts
<1>2. job.stage = "context"
  BY DEF ReadContext, At
<1>3. r \in Asked /\ ReadRight(job, r) /\ job.grant = NoAuthorization
  BY <1>1, <1>2 DEF JobRight, Working, Followed
<1>4. nonces[r.payer] \in Nat
  BY <1>1, <1>3, ServiceAssumption DEF Request
<1>5. ASSUME NEW new \in Served, new.stage = "context", new.request = r,
             new.grant = NoAuthorization, ReadRight(new, r),
             serving' = [serving EXCEPT ![h] = new]
      PROVE  Becomes(h)
  <2>1. JobRight(new)
    BY <1>3, <1>5 DEF JobRight, Working, Reasons, Followed
  <2> QED
    BY <1>5, <2>1 DEF Becomes
<1>6. CASE Learn(h, "version", version)
  <2> DEFINE new == [job EXCEPT !.version = version]
  <2>1. new \in Served /\ serving' = [serving EXCEPT ![h] = new]
    BY <1>1, <1>6 DEF Learn, Served
  <2>2. ReadRight(new, r) /\ new.stage = "context" /\ new.request = r
        /\ new.grant = NoAuthorization
    BY <1>1, <1>2, <1>3 DEF ReadRight, Served
  <2> QED
    BY <1>5, <2>1, <2>2
<1>7. CASE Learn(h, "config", config)
  <2> DEFINE new == [job EXCEPT !.config = config]
  <2>1. new \in Served /\ serving' = [serving EXCEPT ![h] = new]
    BY <1>1, <1>7 DEF Learn, Served
  <2>2. ReadRight(new, r) /\ new.stage = "context" /\ new.request = r
        /\ new.grant = NoAuthorization
    BY <1>1, <1>2, <1>3 DEF ReadRight, Served
  <2> QED
    BY <1>5, <2>1, <2>2
<1>8. CASE Learn(h, "nonce", nonces[r.payer])
  <2> DEFINE new == [job EXCEPT !.nonce = nonces[r.payer]]
  <2>1. new \in Served /\ serving' = [serving EXCEPT ![h] = new]
    BY <1>1, <1>4, <1>8 DEF Learn, Served
  <2>2. ReadRight(new, r) /\ new.stage = "context" /\ new.request = r
        /\ new.grant = NoAuthorization
    BY <1>1, <1>2, <1>3 DEF ReadRight, Served
  <2> QED
    BY <1>5, <2>1, <2>2
<1>9. CASE Learn(h, "block", now)
  <2> DEFINE new == [job EXCEPT !.block = now]
  <2>1. new \in Served /\ serving' = [serving EXCEPT ![h] = new]
    BY <1>1, <1>9 DEF Learn, Served
  <2>2. ReadRight(new, r) /\ new.stage = "context" /\ new.request = r
        /\ new.grant = NoAuthorization
    BY <1>1, <1>2, <1>3 DEF ReadRight, Served
  <2> QED
    BY <1>5, <2>1, <2>2
<1> QED
  BY <1>6, <1>7, <1>8, <1>9 DEF ReadContext

\* The contract refuses the key exactly when it is not the present one: a
\* replaced signer is not trusted for the present version.
LEMMA AuthorizeRight ==
  ASSUME ServedInv, NEW h \in Handlers, Authorize(h)
  PROVE  Becomes(h)
<1> DEFINE job == serving[h]
           r == job.request
<1>1. /\ job \in Served /\ JobRight(job) /\ PolicyInv
      /\ serving \in [Handlers -> Served]
  BY ServedFacts DEF ServedInv
<1>2. job.stage = "context" /\ ContextRead(job)
  BY DEF Authorize, At, ContextRead
<1>3. r \in Asked /\ ReadRight(job, r) /\ job.grant = NoAuthorization
  BY <1>1, <1>2 DEF JobRight, Working, Followed
<1>4. job.version = version
  BY <1>2, <1>3 DEF ReadRight, ContextRead
<1>5. IsQuoteAuthorizationValid(ServiceKey, version)
        <=> config.quoteSigner = ServiceKey
  <2>1. previousVersion = version - 1 /\ version \in Nat
    BY <1>1 DEF PolicyInv, KeepsLast, PolicyTypeOK
  <2> QED
    BY <2>1 DEF IsQuoteAuthorizationValid
<1>6. CASE config.quoteSigner # ServiceKey
  <2>1. Refuse(h, "unauthorized")
    BY <1>4, <1>5, <1>6 DEF Authorize
  <2>2. RefusalRight(r, "unauthorized")
    BY <1>6 DEF RefusalRight
  <2> QED
    BY <1>1, <1>3, <2>1, <2>2, Refuses
<1>7. CASE config.quoteSigner = ServiceKey
  <2> DEFINE stage == IF OfSubdomain(r) THEN "parent" ELSE "name"
             new == [job EXCEPT !.stage = stage]
  <2>1. Continue(h, stage)
    BY <1>4, <1>5, <1>7 DEF Authorize
  <2>2. /\ new.stage = stage /\ new.request = r
        /\ new.grant = NoAuthorization
        /\ ReadRight(new, r) /\ ContextRead(new)
    BY <1>1, <1>2, <1>3 DEF ReadRight, ContextRead, Served
  <2>3. stage \in Stages
    BY DEF Stages, Working
  <2> HIDE DEF new
  <2>4. JobRight(new)
    BY <1>3, <1>7, <2>2 DEF JobRight, Working, Reasons, Followed
  <2> QED
    BY <1>1, <2>1, <2>3, <2>4, Continues DEF new
<1> QED
  BY <1>6, <1>7

\* A name that nobody owns in term has expired or was never registered, and
\* the other way around: available(name) is what registerTopLevel asks.
LEMMA FreeIsAvailable ==
  ASSUME TypeOK, NamesInv, NEW n \in TopNodes
  PROVE  Available(n) <=> OwnerOf(n) = None
<1>1. Records(n).owner = None => Records(n).expiry = 0
  BY DEF Records, NamesInv, TopShape, LegacyShape
<1>2. Records(n).kind = "Subdomain" => FALSE
  BY DEF Records, NamesInv, TopShape
<1>3. Records(n).expiry \in Nat /\ now \in Nat
  BY RecordsType, ClockIsNat, BoundsAssumption DEF Record
<1> QED
  BY <1>1, <1>2, <1>3 DEF Available, OwnerOf, ExpiryOf

LEMMA CheckNameRight ==
  ASSUME ServedInv, NEW h \in Handlers, CheckName(h)
  PROVE  Becomes(h)
<1> DEFINE job == serving[h]
           r == job.request
           new == [job EXCEPT !.stage = "price"]
<1>1. /\ job \in Served /\ JobRight(job) /\ TypeOK /\ NamesInv
      /\ serving \in [Handlers -> Served]
  BY ServedFacts DEF ServedInv
<1>2. job.stage = "name"
  BY DEF CheckName, At
<1>3. /\ r \in Asked /\ ReadRight(job, r) /\ job.grant = NoAuthorization
      /\ ContextRead(job) /\ config.quoteSigner = ServiceKey
      /\ ~OfSubdomain(r)
  BY <1>1, <1>2 DEF JobRight, Working, Followed
<1>4. /\ r.product \in {"Registration", "Renewal"} /\ r.node \in TopNodes
  BY <1>3, ServiceAssumption DEF OfSubdomain, WellFormed, Request, Products
<1>5. /\ new.stage = "price" /\ new.request = r
      /\ new.grant = NoAuthorization
      /\ ReadRight(new, r) /\ ContextRead(new)
  BY <1>1, <1>3 DEF ReadRight, ContextRead, Served
<1>6. ASSUME NameRight(r), Continue(h, "price") PROVE Becomes(h)
  <2>1. "price" \in Stages
    BY DEF Stages, Working
  <2> HIDE DEF new
  <2>2. JobRight(new)
    BY <1>3, <1>5, <1>6 DEF JobRight, Working, Reasons, Followed
  <2> QED
    BY <1>1, <1>6, <2>1, <2>2, Continues DEF new
<1>7. ASSUME NEW reason, Refuse(h, reason), RefusalRight(r, reason)
      PROVE  Becomes(h)
  BY <1>1, <1>3, <1>7, Refuses
<1>8. CASE r.product = "Registration"
  <2>1. Available(r.node) <=> OwnerOf(r.node) = None
    BY <1>1, <1>4, FreeIsAvailable
  <2>2. CASE OwnerOf(r.node) = None
    BY <1>6, <1>8, <2>1, <2>2 DEF CheckName, NameRight
  <2>3. CASE OwnerOf(r.node) # None
    <3>1. Refuse(h, "unavailable")
      BY <1>8, <2>1, <2>3 DEF CheckName
    <3>2. RefusalRight(r, "unavailable")
      BY <1>3, <1>8, <2>3 DEF RefusalRight
    <3> QED
      BY <1>7, <3>1, <3>2
  <2> QED
    BY <2>2, <2>3
<1>9. CASE r.product = "Renewal"
  <2>1. CASE r.payer = r.nameOwner /\ OwnerOf(r.node) = r.payer
    BY <1>6, <1>9, <2>1 DEF CheckName, NameRight
  <2>2. CASE ~(r.payer = r.nameOwner /\ OwnerOf(r.node) = r.payer)
    <3>1. Refuse(h, "notOwner")
      BY <1>9, <2>2 DEF CheckName
    <3>2. RefusalRight(r, "notOwner")
      BY <1>3, <1>9, <2>2 DEF RefusalRight
    <3> QED
      BY <1>7, <3>1, <3>2
  <2> QED
    BY <2>1, <2>2
<1> QED
  BY <1>4, <1>8, <1>9

LEMMA ReadParentRight ==
  ASSUME ServedInv, NEW h \in Handlers, ReadParent(h)
  PROVE  Becomes(h)
<1> DEFINE job == serving[h]
           r == job.request
           parent == ParentOf(r)
<1>1. /\ job \in Served /\ JobRight(job) /\ TypeOK
  BY ServedFacts
<1>2. job.stage = "parent"
  BY DEF ReadParent, At
<1>3. /\ r \in Asked /\ ReadRight(job, r) /\ job.grant = NoAuthorization
      /\ ContextRead(job) /\ config.quoteSigner = ServiceKey
      /\ OfSubdomain(r)
  BY <1>1, <1>2 DEF JobRight, Working, Followed
<1>4. parent \in Nodes
  BY <1>3, ServiceAssumption, NodesAssumption DEF ParentOf, WellFormed
<1>5. OwnerOf(parent) \in Accounts \cup {None} /\ ExpiryOf(parent) \in Nat
  BY <1>1, <1>4, RecordsType, BoundsAssumption DEF OwnerOf, ExpiryOf, Record
<1>6. ASSUME NEW new \in Served, new.stage = "parent", new.request = r,
             new.grant = NoAuthorization, ReadRight(new, r), ContextRead(new),
             serving' = [serving EXCEPT ![h] = new]
      PROVE  Becomes(h)
  <2>1. JobRight(new)
    BY <1>3, <1>6 DEF JobRight, Working, Reasons, Followed
  <2> QED
    BY <1>6, <2>1 DEF Becomes
<1>7. CASE Learn(h, "parentOwner", OwnerOf(parent))
  <2> DEFINE new == [job EXCEPT !.parentOwner = OwnerOf(parent)]
  <2> HIDE DEF parent
  <2>1. new \in Served /\ serving' = [serving EXCEPT ![h] = new]
    BY <1>1, <1>5, <1>7 DEF Learn, Served
  <2>2. /\ ReadRight(new, r) /\ new.stage = "parent" /\ new.request = r
        /\ new.grant = NoAuthorization /\ ContextRead(new)
    BY <1>1, <1>2, <1>3 DEF ReadRight, ContextRead, Served, parent
  <2> QED
    BY <1>6, <2>1, <2>2
<1>8. CASE Learn(h, "parentExpiry", ExpiryOf(parent))
  <2> DEFINE new == [job EXCEPT !.parentExpiry = ExpiryOf(parent)]
  <2> HIDE DEF parent
  <2>1. new \in Served /\ serving' = [serving EXCEPT ![h] = new]
    BY <1>1, <1>5, <1>8 DEF Learn, Served
  <2>2. /\ ReadRight(new, r) /\ new.stage = "parent" /\ new.request = r
        /\ new.grant = NoAuthorization /\ ContextRead(new)
    BY <1>1, <1>2, <1>3 DEF ReadRight, ContextRead, Served, parent
  <2> QED
    BY <1>6, <2>1, <2>2
<1> QED
  BY <1>7, <1>8 DEF ReadParent

LEMMA CheckSubdomainRight ==
  ASSUME ServedInv, NEW h \in Handlers, CheckSubdomain(h)
  PROVE  Becomes(h)
<1> DEFINE job == serving[h]
           r == job.request
           new == [job EXCEPT !.stage = "price"]
           term == r.termYears * Year
<1>1. /\ job \in Served /\ JobRight(job) /\ serving \in [Handlers -> Served]
  BY ServedFacts DEF ServedInv
<1>2. job.stage = "parent"
  BY DEF CheckSubdomain, At
<1>3. /\ r \in Asked /\ ReadRight(job, r) /\ job.grant = NoAuthorization
      /\ ContextRead(job) /\ config.quoteSigner = ServiceKey
      /\ OfSubdomain(r)
  BY <1>1, <1>2 DEF JobRight, Working, Followed
<1>4. /\ job.parentOwner = OwnerOf(ParentOf(r))
      /\ job.parentExpiry = ExpiryOf(ParentOf(r))
  BY <1>3 DEF CheckSubdomain, ReadRight
<1>5. /\ new.stage = "price" /\ new.request = r
      /\ new.grant = NoAuthorization
      /\ ReadRight(new, r) /\ ContextRead(new)
  BY <1>1, <1>3 DEF ReadRight, ContextRead, Served
<1>6. ASSUME NameRight(r), Continue(h, "price") PROVE Becomes(h)
  <2>1. "price" \in Stages
    BY DEF Stages, Working
  <2> HIDE DEF new
  <2>2. JobRight(new)
    BY <1>3, <1>5, <1>6 DEF JobRight, Working, Reasons, Followed
  <2> QED
    BY <1>1, <1>6, <2>1, <2>2, Continues DEF new
<1>7. ASSUME NEW reason, Refuse(h, reason), RefusalRight(r, reason)
      PROVE  Becomes(h)
  BY <1>1, <1>3, <1>7, Refuses
<1>8. CASE OwnerOf(ParentOf(r)) = None
  <2>1. Refuse(h, "parentUnavailable")
    BY <1>4, <1>8 DEF CheckSubdomain
  <2>2. RefusalRight(r, "parentUnavailable")
    BY <1>3, <1>8 DEF RefusalRight
  <2> QED
    BY <1>7, <2>1, <2>2
<1>9. CASE OwnerOf(ParentOf(r)) # None /\ r.product = "SubdomainRegistration"
  <2>1. \/ Refuse(h, "notController") /\ OwnerOf(ParentOf(r)) # r.payer
        \/ Refuse(h, "unavailable") /\ Records(r.node).owner # None
        \/ Refuse(h, "termExceedsParent")
        \/ /\ Continue(h, "price") /\ OwnerOf(ParentOf(r)) = r.payer
           /\ Records(r.node).owner = None
    BY <1>4, <1>9 DEF CheckSubdomain
  <2>2. /\ OwnerOf(ParentOf(r)) # r.payer => RefusalRight(r, "notController")
        /\ Records(r.node).owner # None => RefusalRight(r, "unavailable")
        /\ RefusalRight(r, "termExceedsParent")
        /\ OwnerOf(ParentOf(r)) = r.payer /\ Records(r.node).owner = None
             => NameRight(r)
    BY <1>3, <1>9 DEF RefusalRight, NameRight
  <2> QED
    BY <1>6, <1>7, <2>1, <2>2
<1>10. CASE OwnerOf(ParentOf(r)) # None /\ r.product = "SubdomainRenewal"
  <2>1. \/ Refuse(h, "notOwner") /\ Records(r.node).owner # r.nameOwner
        \/ Refuse(h, "notController") /\ OwnerOf(ParentOf(r)) # r.payer
        \/ /\ Refuse(h, "termExceedsParent")
           /\ Records(r.node).expiry + term > ExpiryOf(ParentOf(r))
        \/ /\ Continue(h, "price") /\ OwnerOf(ParentOf(r)) = r.payer
           /\ Records(r.node).owner = r.nameOwner
    BY <1>4, <1>10 DEF CheckSubdomain
  <2>2. /\ OwnerOf(ParentOf(r)) # r.payer => RefusalRight(r, "notController")
        /\ Records(r.node).owner # r.nameOwner => RefusalRight(r, "notOwner")
        /\ Records(r.node).expiry + term > ExpiryOf(ParentOf(r))
             => RefusalRight(r, "termExceedsParent")
        /\ OwnerOf(ParentOf(r)) = r.payer
             /\ Records(r.node).owner = r.nameOwner => NameRight(r)
    BY <1>3, <1>10 DEF RefusalRight, NameRight
  <2> QED
    BY <1>6, <1>7, <2>1, <2>2
<1>11. r.product \in {"SubdomainRegistration", "SubdomainRenewal"}
  BY <1>3 DEF OfSubdomain
<1> QED
  BY <1>8, <1>9, <1>10, <1>11

LEMMA ReadPriceRight ==
  ASSUME ServedInv, NEW h \in Handlers, ReadPrice(h)
  PROVE  Becomes(h)
<1> DEFINE job == serving[h]
           r == job.request
           price == NetPrice(config, r.node, r.product, r.termYears, 0)
           stage == IF OfSubdomain(r) THEN "sign" ELSE "grant"
           new == [job EXCEPT !.usdMicros = price, !.stage = stage]
<1>1. /\ job \in Served /\ JobRight(job) /\ config \in Configs
      /\ serving \in [Handlers -> Served]
  BY ServedFacts DEF ServedInv
<1>2. job.stage = "price"
  BY DEF ReadPrice, At
<1>3. /\ r \in Asked /\ ReadRight(job, r) /\ job.grant = NoAuthorization
      /\ ContextRead(job) /\ config.quoteSigner = ServiceKey
      /\ NameRight(r)
  BY <1>1, <1>2 DEF JobRight, Working, Followed
<1>4. price \in Nat
  BY <1>1, <1>3, NetPrices
<1>5. serving' = [serving EXCEPT ![h] = new]
  BY <1>1 DEF ReadPrice
<1> HIDE DEF price
<1>6. /\ new \in Served /\ new.stage = stage /\ new.request = r
      /\ new.grant = NoAuthorization /\ new.usdMicros = price
      /\ ReadRight(new, r) /\ ContextRead(new)
  BY <1>1, <1>3, <1>4
  DEF ReadRight, ContextRead, Served, Stages, Working
<1> HIDE DEF new
<1>7. price = NetPrice(config, r.node, r.product, r.termYears,
                       Bps(NoAuthorization))
  BY DEF price, Bps
<1>8. GrantRight(r, NoAuthorization)
  BY DEF GrantRight
<1>9. JobRight(new)
  BY <1>3, <1>6, <1>7, <1>8 DEF JobRight, Working, Reasons, Followed
<1> QED
  BY <1>5, <1>6, <1>9 DEF Becomes

\* The price with the grant's discount is the one the contract computes.
LEMMA FindGrantRight ==
  ASSUME ServedInv, NEW h \in Handlers, FindGrant(h)
  PROVE  Becomes(h)
<1> DEFINE job == serving[h]
           r == job.request
<1>1. /\ job \in Served /\ JobRight(job) /\ config \in Configs
      /\ serving \in [Handlers -> Served]
  BY ServedFacts DEF ServedInv
<1>2. job.stage = "grant"
  BY DEF FindGrant, At
<1>3. /\ r \in Asked /\ ReadRight(job, r) /\ job.grant = NoAuthorization
      /\ ContextRead(job) /\ config.quoteSigner = ServiceKey
      /\ NameRight(r)
      /\ job.usdMicros
           = NetPrice(config, r.node, r.product, r.termYears, 0)
  BY <1>1, <1>2 DEF JobRight, Working, Followed, Bps
<1>4. PICK grant \in {auth \in GrantsFor(r) : IsUsable(auth)}
                       \cup {NoAuthorization} :
        serving' = [serving EXCEPT
          ![h].stage = "sign", ![h].grant = grant,
          ![h].usdMicros = IF grant = NoAuthorization THEN @
                           ELSE ApplyDiscount(@, grant.discountBps)]
  BY DEF FindGrant
<1> DEFINE price == IF grant = NoAuthorization THEN job.usdMicros
                    ELSE ApplyDiscount(job.usdMicros, grant.discountBps)
           new == [job EXCEPT !.stage = "sign", !.grant = grant,
                              !.usdMicros = price]
<1>5. serving' = [serving EXCEPT ![h] = new]
  BY <1>1, <1>4
<1>6. grant \in Authorizations \cup {NoAuthorization} /\ GrantRight(r, grant)
  BY DEF GrantsFor, IsUsable, GrantRight
<1>7. /\ price \in Nat
      /\ price = NetPrice(config, r.node, r.product, r.termYears, Bps(grant))
  <2>1. CASE grant = NoAuthorization
    BY <1>1, <1>3, <2>1 DEF Bps, Served
  <2>2. CASE grant # NoAuthorization
    <3>1. grant.discountBps \in 0 .. BASIS_POINTS
      BY <2>2 DEF IsUsable
    <3> QED
      BY <1>1, <1>3, <2>2, <3>1, NetPrices DEF Bps
  <2> QED
    BY <2>1, <2>2
<1> HIDE DEF price
<1>8. /\ new \in Served /\ new.stage = "sign" /\ new.request = r
      /\ new.grant = grant /\ new.usdMicros = price
      /\ ReadRight(new, r) /\ ContextRead(new)
  BY <1>1, <1>3, <1>6, <1>7
  DEF ReadRight, ContextRead, Served, Stages, Working
<1> HIDE DEF new
<1>9. JobRight(new)
  BY <1>3, <1>6, <1>7, <1>8 DEF JobRight, Working, Reasons, Followed
<1> QED
  BY <1>5, <1>8, <1>9 DEF Becomes

\* A quote begins no later than the block its handler read.
LEMMA IssuedEarly ==
  ASSUME NEW serverNow \in Nat, NEW block \in Nat
  PROVE  IssuedAt(serverNow, block) \in Nat /\ IssuedAt(serverNow, block) <= block
BY ServiceAssumption DEF IssuedAt

LEMMA SignRight ==
  ASSUME ServedInv, NEW h \in Handlers, Sign(h)
  PROVE  Becomes(h)
<1> DEFINE job == serving[h]
           r == job.request
           offered == IF r.currency = "XDC" THEN config.xdcPaymentsEnabled
                      ELSE config.usdcPaymentsEnabled
<1>1. /\ job \in Served /\ JobRight(job) /\ now \in Nat
      /\ config \in Configs /\ version \in Nat
      /\ nonces \in [Accounts -> Nat]
      /\ serving \in [Handlers -> Served]
  BY ServedFacts DEF ServedInv
<1>2. job.stage = "sign"
  BY DEF Sign, At
<1>3. /\ r \in Asked /\ ReadRight(job, r)
      /\ ContextRead(job) /\ config.quoteSigner = ServiceKey
      /\ NameRight(r) /\ GrantRight(r, job.grant)
      /\ job.usdMicros
           = NetPrice(config, r.node, r.product, r.termYears, Bps(job.grant))
  BY <1>1, <1>2 DEF JobRight, Working, Followed
<1>4. /\ job.version = version /\ job.config = config
      /\ job.nonce = nonces[r.payer]
      /\ job.block \in Nat /\ job.block <= now
  BY <1>1, <1>3 DEF ReadRight, ContextRead, Served
<1>5. CASE ~offered /\ (OfSubdomain(r) \/ job.usdMicros # 0)
  <2>1. Refuse(h, "paymentsPaused")
    BY <1>4, <1>5 DEF Sign
  <2>2. RefusalRight(r, "paymentsPaused")
    BY <1>5 DEF RefusalRight
  <2> QED
    BY <1>1, <1>3, <2>1, <2>2, Refuses
<1>6. CASE ~(~offered /\ (OfSubdomain(r) \/ job.usdMicros # 0))
  <2>1. PICK serverNow \in ServerTimes :
          Answer(h, "quoted", job.grant,
            [nameOwner |-> r.nameOwner, termYears |-> r.termYears,
             usdMicros |-> job.usdMicros,
             paymentToken |-> IF r.currency = "XDC" THEN None
                              ELSE job.config.usdcToken,
             version |-> job.version, signer |-> ServiceKey,
             nonce |-> job.nonce,
             issuedAt |-> IssuedAt(serverNow, job.block),
             lifetime |-> Lifetime])
    BY <1>4, <1>6 DEF Sign
  <2> DEFINE issued == IssuedAt(serverNow, job.block)
             token == IF r.currency = "XDC" THEN None ELSE config.usdcToken
             quote == [nameOwner |-> r.nameOwner, termYears |-> r.termYears,
                       usdMicros |-> job.usdMicros, paymentToken |-> token,
                       version |-> version, signer |-> ServiceKey,
                       nonce |-> nonces[r.payer], issuedAt |-> issued,
                       lifetime |-> Lifetime]
             new == [Idle EXCEPT !.stage = "quoted", !.request = r,
                                 !.grant = job.grant, !.quote = quote]
  <2>2. serving' = [serving EXCEPT ![h] = new]
    BY <1>4, <2>1 DEF Answer
  <2>3. issued \in Nat /\ issued <= now
    <3>1. serverNow \in Nat
      BY TimeAssumption DEF ServerTimes
    <3>2. issued \in Nat /\ issued <= job.block
      BY <1>4, <3>1, IssuedEarly
    <3> HIDE DEF issued
    <3> QED
      BY <1>1, <1>4, <3>2
  <2> HIDE DEF issued
  <2>4. /\ r.nameOwner \in Accounts /\ r.termYears \in Terms
        /\ r.payer \in Accounts
    BY <1>3, ServiceAssumption DEF Request
  <2>5. nonces[r.payer] \in Nat /\ job.usdMicros \in Nat
    BY <1>1, <2>4 DEF Served
  <2>6. token \in {c.usdcToken : c \in Configs} \cup {None}
    BY <1>1
  <2> HIDE DEF token
  <2>7. quote \in Quote
    BY <1>1, <2>3, <2>4, <2>5, <2>6, ServiceAssumption DEF Quote
  <2>8. QuoteRight(r, quote, job.grant)
    <3>1. PricedBy(r, quote, job.grant)
      BY <1>1, <1>3 DEF PricedBy
    <3> QED
      BY <2>3, <3>1 DEF QuoteRight
  <2> HIDE DEF quote
  <2>9. /\ new \in Served /\ new.stage = "quoted" /\ new.request = r
        /\ new.grant = job.grant /\ new.quote = quote
    <3>1. job.grant \in Authorizations \cup {NoAuthorization}
      BY <1>1 DEF Served
    <3> HIDE DEF Idle
    <3> QED
      BY <1>3, <2>7, <3>1, IdleTyped DEF Served, Stages
  <2> HIDE DEF new
  <2>10. JobRight(new)
    BY <1>3, <2>8, <2>9 DEF JobRight, Working, Reasons, Followed
  <2> QED
    BY <2>2, <2>9, <2>10 DEF Becomes
<1> QED
  BY <1>5, <1>6

LEMMA ForgetRight ==
  ASSUME NEW h \in Handlers, Forget(h)
  PROVE  Becomes(h)
<1>1. JobRight(Idle)
  BY IdleTyped DEF JobRight, Working, Reasons, Followed
<1> QED
  BY <1>1, IdleTyped DEF Forget, Becomes

LEMMA UnifiedUnmoved ==
  ASSUME UnifiedInv, UNCHANGED <<resolverVars, registrarSideVars>>
  PROVE  UnifiedInv'
<1>1. RegistryInv /\ RecordsInv /\ PolicyInv /\ RegistrarInv
  BY DEF UnifiedInv
<1>2. ResolverInv'
  BY <1>1, ResolverNextInv DEF ResolverInv
<1>3. PolicyInv'
  <2>1. UNCHANGED policyVars /\ UNCHANGED now
    BY DEF registrarSideVars, resolverVars, registryVars
  <2>2. now \in 0 .. MaxTime /\ now \in Nat
    BY <1>1, ClockIsNat DEF RegistryInv, TypeOK
  <2> QED
    BY <1>1, <2>1, <2>2, PolicyNextInv
<1>4. RegistrarInv'
  BY <1>1 DEF RegistrarInv, LegacySubsTyped, AdminTyped, SalesGood,
              QuoteRedeemedOnce, registrarSideVars, adminVars, signerVars,
              saleVars
<1> QED
  BY <1>2, <1>3, <1>4 DEF UnifiedInv, ResolverInv

\* A step of a handler keeps the invariant: nothing else moves.
LEMMA HandlerKeeps ==
  ASSUME ServedInv, NEW h \in Handlers,
         (\E r \in Asked : Receive(h, r)) \/ HandlerStep(h),
         UNCHANGED <<resolverVars, registrarSideVars>>
  PROVE  ServedInv'
<1>1. Becomes(h)
  BY ReceiveRight, ReadContextRight, AuthorizeRight, CheckNameRight,
     ReadParentRight, CheckSubdomainRight, ReadPriceRight, FindGrantRight,
     SignRight, ForgetRight DEF HandlerStep
<1>2. PICK new \in Served :
        JobRight(new) /\ serving' = [serving EXCEPT ![h] = new]
  BY <1>1 DEF Becomes
<1>3. ASSUME NEW job \in Served, JobRight(job)
      PROVE  JobRight(job)'
  <2>1. PolicyInv /\ now \in Nat
    BY ServedFacts
  <2>2. UNCHANGED policyVars /\ UNCHANGED now /\ Pricing' = Pricing
        /\ Basis(job.request)' = Basis(job.request)
    BY DEF resolverVars, registryVars, registrarSideVars, policyVars, adminVars,
           signerVars, saleVars, Pricing, Basis, OwnerOf, ExpiryOf, Records,
           ActiveTopLevel
  <2>3. now' \in Nat /\ now' >= now
    BY <2>1, <2>2
  <2> QED
    BY <1>3, <2>1, <2>2, <2>3, JobStays
<1>4. UnifiedInv'
  <2>1. UnifiedInv
    BY DEF ServedInv
  <2> QED
    BY <2>1, UnifiedUnmoved
<1>5. JobsRight'
  <2> SUFFICES ASSUME NEW k \in Handlers,
                      NEW job \in {serving'[k]}
               PROVE  JobRight(job)'
    BY DEF JobsRight
  <2>1. job \in Served /\ JobRight(job)
    BY <1>2 DEF ServedInv, JobsRight
  <2> QED
    BY <1>3, <2>1
<1> QED
  BY <1>2, <1>4, <1>5 DEF ServedInv

-----------------------------------------------------------------------------
(* What the contracts do *)

\* Whatever the contracts do, the handlers whose request they overtake are
\* left, and what the others know stays right.
LEMMA ObserveKeeps ==
  ASSUME ServedInv, Observe, UnifiedInv', now' \in Nat, now' >= now,
         PolicyStep \/ UNCHANGED policyVars
  PROVE  ServedInv'
<1>1. \A h \in Handlers : \A job \in {serving[h]} :
        \/ /\ serving'[h] = job
           /\ \/ job.stage \in {"idle", "overtaken"}
              \/ /\ Basis(job.request)' = Basis(job.request)
                 /\ job.stage = "quoted" \/ Pricing' = Pricing
        \/ serving'[h] = [Idle EXCEPT !.stage = "overtaken"]
  BY DEF Observe
<1> DEFINE left == [Idle EXCEPT !.stage = "overtaken"]
<1>2. /\ left \in Served /\ left.stage = "overtaken"
      /\ left.grant = NoAuthorization
  BY IdleTyped DEF Served, Stages, Idle
<1> HIDE DEF left
<1>3. ASSUME NEW h \in Handlers, NEW new \in {serving'[h]}
      PROVE  new \in Served /\ JobRight(new)'
  <2>1. PICK job \in {serving[h]} :
          \/ /\ serving'[h] = job
             /\ \/ job.stage \in {"idle", "overtaken"}
                \/ /\ Basis(job.request)' = Basis(job.request)
                   /\ job.stage = "quoted" \/ Pricing' = Pricing
          \/ serving'[h] = left
    BY <1>1 DEF left
  <2>2. job \in Served /\ JobRight(job) /\ PolicyInv /\ now \in Nat
    BY ServedFacts
  <2>3. CASE /\ new = job
             /\ \/ job.stage \in {"idle", "overtaken"}
                \/ /\ Basis(job.request)' = Basis(job.request)
                   /\ job.stage = "quoted" \/ Pricing' = Pricing
    BY <2>2, <2>3, JobStays
  <2>4. CASE new = left
    BY <1>2, <2>4 DEF JobRight, Working, Reasons, Followed
  <2> QED
    BY <2>1, <2>3, <2>4
<1>4. DOMAIN serving' = Handlers /\ serving' = [h \in Handlers |-> serving'[h]]
  BY DEF Observe
<1>5. serving' \in [Handlers -> Served]
  BY <1>3, <1>4
<1>6. JobsRight'
  BY <1>3 DEF JobsRight
<1> QED
  BY <1>5, <1>6 DEF ServedInv

LEMMA ContractsKeep ==
  ASSUME ServedInv, Observe,
         NamesStep \/ PricingStep \/ GrantRevoked \/ SaleStep \/ ParentStep
  PROVE  ServedInv'
<1>1. UnifiedInv /\ RegistryInv /\ LegacySubsTyped
  BY DEF ServedInv, UnifiedInv, RegistrarInv
<1>2. UnifiedNext
  BY DEF UnifiedNext, GrantRevoked, AdminStep
<1>3. UnifiedInv'
  BY <1>1, <1>2, UnifiedNextInv
<1>4. \/ PolicyStep /\ UNCHANGED now
      \/ UNCHANGED policyVars /\ now' \in 0 .. MaxTime /\ now' >= now
  BY <1>1, <1>2, PolicyMoves
<1>5. now' \in Nat /\ now' >= now
  <2>1. now \in Nat
    BY <1>1, ClockIsNat DEF RegistryInv
  <2> QED
    BY <1>4, <2>1
<1> QED
  BY <1>3, <1>4, <1>5, ObserveKeeps

\* The quote presented is not among those of PresentedQuotes: its lifetime is
\* the service's and its price what it computed.
LEMMA RedeemKeeps ==
  ASSUME ServedInv, NEW h \in Handlers, Redeem(h)
  PROVE  ServedInv'
<1>1. PICK job \in {serving[h]} : SellTo(job.request, job.quote, job.grant)
  BY DEF Redeem
<1> DEFINE r == job.request
<1>2. /\ job \in Served /\ JobRight(job) /\ job.stage = "quoted"
      /\ now \in Nat
  BY ServedFacts DEF Redeem, At
<1>3. /\ r \in Asked /\ job.quote.nameOwner = r.nameOwner
      /\ job.grant \in Authorizations \cup {NoAuthorization}
  BY <1>2 DEF JobRight, Followed, QuoteRight, Served
<1>4. /\ r.payer \in Accounts /\ r.nameOwner \in Accounts
      /\ r.product \in Products /\ r.node \in Nodes
      /\ OfSubdomain(r) <=> r.node \in SubNodes
  BY <1>3, ServiceAssumption DEF Request, WellFormed
<1> HIDE DEF r
<1>5. \/ r.node \in TopNodes /\ Register(r.payer, job.quote, job.grant, r.node)
      \/ AgingSale(r.payer, job.quote, job.grant, r.node)
  BY <1>1, <1>4
  DEF SellTo, OfSubdomain, AgingSale, Products, r
<1>6. UnifiedInv /\ UnifiedInv'
  BY <1>3, <1>4, <1>5, SaleKeepsInv DEF ServedInv
<1>7. UNCHANGED policyVars /\ UNCHANGED now
  <2>1. PICK product \in Products :
          Sell(r.payer, job.quote, job.grant, r.node, product)
    BY <1>5, SaleSells
  <2>2. UNCHANGED now
    BY <1>5, SaleSells
  <2> QED
    BY <2>1, <2>2, SellLeaves
<1>8. now' \in Nat /\ now' >= now
  BY <1>2, <1>7
<1> QED
  BY <1>6, <1>7, <1>8, ObserveKeeps DEF Redeem

-----------------------------------------------------------------------------
(* The invariant *)

LEMMA ServedInitInv == ServedInit => ServedInv
<1> SUFFICES ASSUME ServedInit PROVE ServedInv
  OBVIOUS
<1>1. UnifiedInv
  BY UnifiedInitInv DEF ServedInit
<1>2. JobRight(Idle)
  BY IdleTyped DEF JobRight, Working, Reasons, Followed
<1>3. serving \in [Handlers -> Served]
  BY IdleTyped DEF ServedInit
<1>4. JobsRight
  BY <1>2 DEF ServedInit, JobsRight
<1> QED
  BY <1>1, <1>3, <1>4 DEF ServedInv

LEMMA ServedNextInv == ServedInv /\ [ServedNext]_servedVars => ServedInv'
<1> SUFFICES ASSUME ServedInv, [ServedNext]_servedVars
             PROVE  ServedInv'
  OBVIOUS
<1>1. CASE /\ \/ NamesStep \/ PricingStep \/ GrantRevoked \/ SaleStep
              \/ ParentStep
           /\ Observe
  BY <1>1, ContractsKeep
<1>2. ASSUME NEW h \in Handlers, Redeem(h) PROVE ServedInv'
  BY <1>2, RedeemKeeps
<1>3. ASSUME NEW h \in Handlers,
             (\E r \in Asked : Receive(h, r)) \/ HandlerStep(h),
             UNCHANGED <<resolverVars, registrarSideVars>>
      PROVE  ServedInv'
  BY <1>3, HandlerKeeps
<1>4. CASE UNCHANGED servedVars
  <2>1. UNCHANGED <<resolverVars, registrarSideVars>> /\ UNCHANGED serving
    BY <1>4 DEF servedVars, unifiedVars
  <2>2. UnifiedInv'
    BY <2>1, UnifiedUnmoved DEF ServedInv
  <2>3. ASSUME NEW h \in Handlers, NEW job \in {serving[h]}
        PROVE  JobRight(job)'
    <3>1. job \in Served /\ JobRight(job) /\ PolicyInv /\ now \in Nat
      BY <2>3, ServedFacts
    <3>2. UNCHANGED policyVars /\ UNCHANGED now /\ Pricing' = Pricing
          /\ Basis(job.request)' = Basis(job.request)
      BY <2>1 DEF resolverVars, registryVars, registrarSideVars, policyVars,
                  adminVars, signerVars, saleVars, Pricing, Basis, OwnerOf,
                  ExpiryOf, Records, ActiveTopLevel
    <3>3. now' \in Nat /\ now' >= now
      BY <3>1, <3>2
    <3> QED
      BY <3>1, <3>2, <3>3, JobStays
  <2> QED
    BY <2>1, <2>2, <2>3 DEF ServedInv, JobsRight
<1> QED
  BY <1>1, <1>2, <1>3, <1>4 DEF ServedNext

LEMMA ServedInvariant == ServedSpec => []ServedInv
BY ServedInitInv, ServedNextInv, PTL DEF ServedSpec

\* A quote never begins after the block it is presented in, by however much
\* the server's clock is ahead and whatever block its handler read.
THEOREM QuotesNeverPremature == ServedSpec => []QuoteNeverPremature
<1>1. ServedInv => QuoteNeverPremature
  <2> SUFFICES ASSUME ServedInv, NEW h \in Handlers, At(h, "quoted")
               PROVE  serving[h].quote.issuedAt <= now
    BY DEF QuoteNeverPremature
  <2>1. JobRight(serving[h])
    BY ServedFacts
  <2> QED
    BY <2>1 DEF At, JobRight, QuoteRight
<1> QED
  BY <1>1, ServedInvariant, PTL

\* The contract prices a quote, and trusts its signature, exactly as the
\* service did, as long as its version is in force.
LEMMA RightQuoteValid ==
  ASSUME PolicyInv, NEW r \in Asked, NEW quote \in Quote,
         NEW grant \in Authorizations \cup {NoAuthorization},
         QuoteRight(r, quote, grant), now \in Nat,
         now <= quote.issuedAt + Lifetime,
         \E c \in Configs : InForce(quote.version, c)
  PROVE  ValidateQuote(r.payer, quote, r.node, r.product, Bps(grant))
<1>1. PICK c \in Configs :
        /\ c.quoteSigner = ServiceKey
        /\ quote.usdMicros
             = NetPrice(c, r.node, r.product, r.termYears, Bps(grant))
        /\ \/ quote.version = version /\ c = config
           \/ /\ quote.version \in 1 .. version - 1
              /\ c = retired[quote.version].config
  BY DEF QuoteRight, PricedBy
<1>2. version \in 1 .. MaxVersion /\ MaxVersion \in Nat
  BY PolicyAssumption DEF PolicyInv, PolicyTypeOK
<1>3. quote.version \in 0 .. MaxVersion /\ InForce(quote.version, c)
  BY <1>1, <1>2 DEF InForce
<1>4. /\ ConfigForVersion(quote.version) = c
      /\ IsQuoteAuthorizationValid(ServiceKey, quote.version)
  BY <1>1, <1>3, GraceFromInv, ServiceAssumption DEF GraceIsExact
<1>5. IsValidQuoteSignature(quote)
  <2>1. ServiceKey \in {config.quoteSigner, previousQuoteSigner}
    BY <1>4 DEF IsQuoteAuthorizationValid
  <2>2. ServiceKey # NoSigner /\ quote.signer = ServiceKey
    BY PolicyAssumption, ServiceAssumption DEF NoSigner, QuoteRight
  <2> QED
    BY <1>4, <2>1, <2>2 DEF IsValidQuoteSignature
<1>6. InQuoteWindow(quote)
  BY ServiceAssumption DEF QuoteRight, InQuoteWindow
<1>7. quote.termYears \in Terms /\ ClassOf(r.node, r.product) # "none"
  BY ServiceAssumption DEF QuoteRight, Request, WellFormed
<1>8. c # NoConfig
  BY PolicyAssumption
<1>9. quote.termYears = r.termYears /\ quote.nonce = nonces[r.payer]
  BY DEF QuoteRight
<1> QED
  BY <1>1, <1>4, <1>5, <1>6, <1>7, <1>8, <1>9 DEF ValidateQuote

\* What was checked of a name is all the registry asks for its sale, but for
\* the term of a subdomain.
LEMMA RightNameSells ==
  ASSUME TypeOK, NamesInv, NEW r \in Asked, NameRight(r), TermStillFits(r)
  PROVE  NameSells(r)
<1> DEFINE n == r.node
           parent == ParentNode[n]
<1>1. /\ r.payer \in Accounts /\ r.payer # None
      /\ r.nameOwner \in Accounts /\ r.nameOwner # None
      /\ r.product \in Products
      /\ OfSubdomain(r) <=> n \in SubNodes
  BY ServiceAssumption, NoneAssumption DEF Request, WellFormed
<1>2. CASE r.product \in {"Registration", "Renewal"}
  BY <1>2 DEF NameRight, NameSells
<1>3. ASSUME OfSubdomain(r), OwnerOf(ParentOf(r)) = r.payer
      PROVE  RequireParentOwner(r.payer, parent)
  <2>1. parent \in TopNodes /\ ParentOf(r) = parent
    BY <1>1, <1>3, NodesAssumption DEF ParentOf
  <2>2. Records(parent).kind = "TopLevel"
    BY <1>1, <1>3, <2>1, OwnedRecord
  <2> QED
    BY <1>3, <2>1, <2>2 DEF RequireParentOwner
<1>4. now \in Nat /\ (n \in Nodes => Records(n).expiry \in Nat)
  BY ClockIsNat, RecordsType, BoundsAssumption DEF Record
<1>5. CASE r.product = "SubdomainRegistration"
  <2>1. OfSubdomain(r)
    BY <1>5 DEF OfSubdomain
  <2>2. now + r.termYears * Year <= ExpiryOf(parent)
    BY <1>5, <2>1 DEF TermStillFits
  <2> QED
    BY <1>3, <1>5, <2>1, <2>2 DEF NameRight, NameSells
<1>6. CASE r.product = "SubdomainRenewal"
  <2>1. OfSubdomain(r) /\ n \in SubNodes
    BY <1>1, <1>6 DEF OfSubdomain
  <2>2. Records(n).owner = r.nameOwner /\ OwnerOf(ParentOf(r)) = r.payer
    BY <1>6 DEF NameRight
  <2>3. migrated[n] /\ Records(n) = stored[n]
    BY <1>1, <2>1, <2>2 DEF Records, NamesInv, LegacyShape
  <2>4. Records(n).kind = "Subdomain"
    BY <1>1, <2>1, <2>2, <2>3 DEF NamesInv, ChildWithinParent
  <2>5. (IF Records(n).expiry < now THEN now ELSE Records(n).expiry)
          = (IF Records(n).expiry > now THEN Records(n).expiry ELSE now)
    BY <1>4, <2>1
  <2>6. (IF Records(n).expiry > now THEN Records(n).expiry ELSE now)
          + r.termYears * Year <= ExpiryOf(parent)
    BY <1>6, <2>1 DEF TermStillFits
  <2> QED
    BY <1>3, <1>6, <2>1, <2>2, <2>4, <2>5, <2>6 DEF NameSells
<1> QED
  BY <1>1, <1>2, <1>5, <1>6 DEF Products

\* Every quote the service hands out is sold by, to the end of its time or of
\* its version's grace period, while the name, the nonce and the grant stand.
THEOREM QuotesRedeemable == ServedSpec => []QuoteRedeemable
<1>1. ServedInv => QuoteRedeemable
  <2> SUFFICES ASSUME ServedInv, NEW h \in Handlers,
                      serving[h].stage = "quoted",
                      now <= serving[h].quote.issuedAt + Lifetime,
                      \E c \in Configs : InForce(serving[h].quote.version, c),
                      serving[h].grant # NoAuthorization
                        => now <= serving[h].grant.deadline,
                      registrar = This, CollectPayment(serving[h].quote),
                      TermStillFits(serving[h].request)
               PROVE  Sellable(serving[h].request, serving[h].quote,
                               serving[h].grant)
    BY DEF QuoteRedeemable
  <2> DEFINE job == serving[h]
             r == job.request
             grant == job.grant
  <2>1. /\ job \in Served /\ JobRight(job) /\ TypeOK /\ NamesInv
        /\ PolicyInv /\ now \in Nat
    BY ServedFacts
  <2>2. /\ r \in Asked /\ NameRight(r) /\ GrantRight(r, grant)
        /\ QuoteRight(r, job.quote, grant)
        /\ job.quote \in Quote
        /\ grant \in Authorizations \cup {NoAuthorization}
    BY <2>1 DEF JobRight, Followed, Served
  <2>3. ValidateQuote(r.payer, job.quote, r.node, r.product, Bps(grant))
    BY <2>1, <2>2, RightQuoteValid
  <2>4. NameSells(r)
    BY <2>1, <2>2, RightNameSells
  <2>5. grant = NoAuthorization \/ GrantFits(r, grant)
    BY <2>2 DEF GrantFits, GrantRight, IsUsable
  <2> QED
    BY <2>3, <2>4, <2>5 DEF Sellable, Bps
<1> QED
  BY <1>1, ServedInvariant, PTL

\* While nothing has changed since it was asked, what the service refuses the
\* contract would refuse: no sale is lost to a wrong refusal.
THEOREM RefusalsJustified == ServedSpec => []RefusalJustified
<1>1. ServedInv => RefusalJustified
  <2> SUFFICES ASSUME ServedInv, NEW h \in Handlers,
                      serving[h].stage \in Reasons,
                      ~(serving[h].stage = "termExceedsParent"
                          /\ serving[h].request.product
                               = "SubdomainRegistration"),
                      Sellable(serving[h].request,
                               PerfectQuote(serving[h].request),
                               NoAuthorization)
               PROVE  FALSE
    BY DEF RefusalJustified
  <2> DEFINE job == serving[h]
             r == job.request
             quote == PerfectQuote(r)
  <2>1. /\ job \in Served /\ JobRight(job) /\ TypeOK /\ PolicyInv
        /\ now \in Nat /\ config \in Configs
    BY ServedFacts
  <2>2. r \in Asked /\ RefusalRight(r, job.stage)
    BY <2>1 DEF JobRight, Followed
  <2>3. /\ r.payer \in Accounts /\ r.payer # None /\ r.product \in Products
        /\ OfSubdomain(r) => ParentOf(r) = ParentNode[r.node]
    BY <2>2, ServiceAssumption, NoneAssumption DEF Request, ParentOf
  <2>4. NameSells(r) /\ CollectPayment(quote) /\ IsValidQuoteSignature(quote)
    BY DEF Sellable, ValidateQuote
  <2>5. job.stage # "unauthorized"
    <3>1. previousVersion # version
      BY <2>1 DEF PolicyInv, KeepsLast, PolicyTypeOK
    <3>2. quote.signer = ServiceKey /\ quote.version = version
      BY DEF PerfectQuote
    <3> HIDE DEF quote
    <3>3. config.quoteSigner = ServiceKey
      BY <2>4, <3>1, <3>2
      DEF IsValidQuoteSignature, IsQuoteAuthorizationValid
    <3> QED
      BY <2>2, <3>3 DEF RefusalRight
  <2>6. job.stage # "paymentsPaused"
    <3>1. quote.usdMicros # 0
      BY <2>1, <2>2, NetPrices DEF PerfectQuote
    <3>2. PaymentAccepted(quote.paymentToken)
      BY <2>4, <3>1 DEF CollectPayment
    <3>3. config.usdcToken # None
      BY <2>1, RegistrarAssumption
    <3> QED
      BY <2>2, <3>2, <3>3 DEF RefusalRight, PaymentAccepted, PerfectQuote
  <2>7. job.stage \notin {"unavailable", "notOwner", "parentUnavailable",
                          "notController"}
    BY <2>2, <2>3, <2>4
    DEF RefusalRight, NameSells, RequireParentOwner, OfSubdomain, Products
  <2>8. job.stage # "termExceedsParent"
    <3>1. SUFFICES ASSUME job.stage = "termExceedsParent" PROVE FALSE
      OBVIOUS
    <3> DEFINE n == r.node
               term == r.termYears * Year
               base == IF Records(n).expiry < now THEN now
                       ELSE Records(n).expiry
    <3>2. r.product = "SubdomainRenewal" /\ OfSubdomain(r)
      BY <2>2, <3>1 DEF RefusalRight, OfSubdomain
    <3>3. Records(n).expiry + term > ExpiryOf(ParentNode[n])
      BY <2>2, <2>3, <3>1, <3>2 DEF RefusalRight
    <3>4. base + term <= ExpiryOf(ParentNode[n])
      BY <2>4, <3>2 DEF NameSells
    <3>5. n \in Nodes /\ ParentNode[n] \in Nodes
      BY <2>2, <3>2, ServiceAssumption, NodesAssumption
      DEF Request, WellFormed
    <3>6. Records(n).expiry \in Nat /\ ExpiryOf(ParentNode[n]) \in Nat
      BY <2>1, <3>5, RecordsType, BoundsAssumption DEF Record, ExpiryOf
    <3>7. r.termYears \in Nat /\ Year \in Nat
      BY <2>2, ServiceAssumption, RegistrarAssumption DEF Request, Terms
    <3>8. term \in Nat
      BY <3>7, Products2
    <3>9. base \in Nat /\ base >= Records(n).expiry
      BY <2>1, <3>6
    <3> HIDE DEF term, base
    <3> QED
      BY <3>3, <3>4, <3>6, <3>8, <3>9
  <2> QED
    BY <2>5, <2>6, <2>7, <2>8 DEF Reasons
<1> QED
  BY <1>1, ServedInvariant, PTL

\* What the registrar keeps it keeps when the service's own quotes, of any
\* lifetime and price, are presented as well: each is redeemed at most once
\* and no subdomain sold by one outlives its parent.
THEOREM ServiceKeepsRegistrar ==
  ServedSpec => [](QuoteRedeemedOnce /\ RegistrarTypeOK /\ ChildWithinParent
                     /\ GraceIsExact)
<1>1. ServedInv => QuoteRedeemedOnce /\ RegistrarTypeOK /\ ChildWithinParent
                     /\ GraceIsExact
  BY GraceFromInv
  DEF ServedInv, UnifiedInv, RegistryInv, NamesInv, RegistrarInv,
      LegacySubsTyped, AdminTyped, SalesGood, RegistrarTypeOK
<1> QED
  BY <1>1, ServedInvariant, PTL

=============================================================================
