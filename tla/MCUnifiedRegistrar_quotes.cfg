CONSTANTS
  alice = alice
  bob = bob
  top = top
  top2 = top2
  sub = sub
  registrar1 = registrar1
  mainnet = mainnet
  default = default
  avatar = avatar
  v1 = v1
  key1 = key1
  key2 = key2
  usdc1 = usdc1
  usdc2 = usdc2
  treasury1 = treasury1
  None = None
  NoAuthorization = NoAuthorization
  Accounts = {alice}
  TopNodes = {top}
  LegacyNodes = {}
  LegacyAtStart <- MCNoLegacy
  SubNodes = {}
  ParentNode <- MCNoParents
  Resolvers = {}
  Registrars = {registrar1}
  Successors = {}
  RegistrarChangeDelay = 1
  MaxTime = 7
  MaxExpiry = 14
  MaxGeneration = 3
  Chains = {}
  DefaultChain = default
  Keys = {}
  Values = {}
  This = registrar1
  Year = 5
  MaxQuoteLifetime = 2
  LabelLength <- MCLabelLength
  UpdateDelay = 3
  Proposals <- MCProposals
  InitialConfig <- MCInitialConfig
  QuoteSigners = {key1, key2}
  NoConfig <- MCNoConfig
  QuoteGracePeriod = 2
  MaxVersion = 3
  AuthorizationSigners = {key1}
  InitialAuthorizationSigner = key1
  Authorizations = {}
  LegacySubAtStart <- MCNoLegacySubs
  LegacyChains = {}
  PauseStates = {}
  QuoteTerms = {1}
  QuotePrices = {2, 3}
  QuoteTokens = {usdc1}
  QuoteAges = {0, 2}
  QuoteLifetimes = {2, 3}
  MaxNonce = 2
SPECIFICATION UnifiedSpec
INVARIANTS PolicyTypeOK GraceIsExact SalePricedInForce QuoteRedeemedOnce
