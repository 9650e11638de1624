CONSTANTS
  alice = alice
  bob = bob
  top = top
  top2 = top2
  sub = sub
  registrar1 = registrar1
  mainnet = mainnet
  default = default
  avatar = avatar
  v1 = v1
  key1 = key1
  key2 = key2
  usdc1 = usdc1
  usdc2 = usdc2
  treasury1 = treasury1
  None = None
  NoAuthorization = NoAuthorization
  Accounts = {alice, bob}
  TopNodes = {top}
  LegacyNodes = {top}
  LegacyAtStart <- MCLegacy
  SubNodes = {sub}
  ParentNode <- MCParentNode
  Resolvers = {}
  Registrars = {registrar1}
  Successors = {}
  RegistrarChangeDelay = 1
  MaxTime = 2
  MaxExpiry = 2
  MaxGeneration = 2
  Chains = {mainnet}
  DefaultChain = default
  Keys = {}
  Values = {}
  This = registrar1
  Year = 1
  MaxQuoteLifetime = 1
  LabelLength <- MCLabelLength
  UpdateDelay = 3
  Proposals = {}
  InitialConfig <- MCInitialConfig
  QuoteSigners = {key1, key2}
  NoConfig <- MCNoConfig
  QuoteGracePeriod = 2
  MaxVersion = 1
  AuthorizationSigners = {key1}
  InitialAuthorizationSigner = key1
  Authorizations = {}
  LegacySubAtStart <- MCLegacySubs
  LegacyChains = {mainnet}
  PauseStates = {}
  QuoteTerms = {1}
  QuotePrices = {}
  QuoteTokens = {}
  QuoteAges = {0}
  QuoteLifetimes = {0}
  MaxNonce = 1
SPECIFICATION UnifiedSpec
INVARIANTS ResolverTypeOK ImportNeverStuck
PROPERTY ImportIsExact
