CONSTANTS
  alice = alice
  bob = bob
  top = top
  top2 = top2
  sub = sub
  registrar1 = registrar1
  mainnet = mainnet
  default = default
  avatar = avatar
  v1 = v1
  key1 = key1
  key2 = key2
  usdc1 = usdc1
  usdc2 = usdc2
  treasury1 = treasury1
  None = None
  NoAuthorization = NoAuthorization
  Accounts = {alice, bob}
  TopNodes = {top}
  LegacyNodes = {}
  LegacyAtStart <- MCNoLegacy
  SubNodes = {}
  ParentNode <- MCNoParents
  Resolvers = {}
  Registrars = {registrar1}
  Successors = {}
  RegistrarChangeDelay = 1
  MaxTime = 3
  MaxExpiry = 6
  MaxGeneration = 3
  Chains = {}
  DefaultChain = default
  Keys = {avatar}
  Values = {v1}
  This = registrar1
  Year = 3
  MaxQuoteLifetime = 1
  LabelLength <- MCLabelLength
  UpdateDelay = 1
  Proposals = {}
  InitialConfig <- MCInitialConfig
  QuoteSigners = {key1, key2}
  NoConfig <- MCNoConfig
  QuoteGracePeriod = 0
  MaxVersion = 1
  AuthorizationSigners = {key1, key2}
  InitialAuthorizationSigner = key1
  Authorizations <- MCAuthorizations
  LegacySubAtStart <- MCNoLegacySubs
  LegacyChains = {}
  PauseStates <- MCPauses
  QuoteTerms = {1}
  QuotePrices = {0, 1, 2}
  QuoteTokens = {}
  QuoteAges = {0}
  QuoteLifetimes = {0}
  MaxNonce = 3
SPECIFICATION UnifiedSpec
INVARIANTS RegistrarTypeOK RecordsLiveExactlyInTenure
PROPERTY GrantsHonoured
