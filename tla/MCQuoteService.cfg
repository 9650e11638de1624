CONSTANTS
  alice = alice
  bob = bob
  top = top
  sub = sub
  registrar1 = registrar1
  default = default
  key1 = key1
  key2 = key2
  usdc1 = usdc1
  treasury1 = treasury1
  h1 = h1
  None = None
  NoAuthorization = NoAuthorization
  Unread = Unread
  Accounts = {alice, bob}
  TopNodes = {top}
  LegacyNodes = {}
  LegacyAtStart <- MCNoLegacy
  SubNodes = {sub}
  ParentNode <- MCParentNode
  Resolvers = {}
  Registrars = {registrar1}
  Successors = {}
  RegistrarChangeDelay = 1
  MaxTime = 3
  MaxExpiry = 3
  MaxGeneration = 2
  Chains = {}
  DefaultChain = default
  Keys = {}
  Values = {}
  This = registrar1
  Year = 1
  MaxQuoteLifetime = 3
  LabelLength <- MCLabelLength
  UpdateDelay = 2
  Proposals <- MCProposals
  InitialConfig <- MCInitialConfig
  QuoteSigners = {key1, key2}
  NoConfig <- MCNoConfig
  QuoteGracePeriod = 1
  MaxVersion = 2
  AuthorizationSigners = {key1}
  InitialAuthorizationSigner = key1
  Authorizations <- MCAuthorizations
  LegacySubAtStart <- MCNoLegacySubs
  LegacyChains = {}
  PauseStates = {}
  QuoteTerms = {3}
  QuotePrices = {6}
  QuoteTokens = {}
  QuoteAges = {0}
  QuoteLifetimes = {0}
  MaxNonce = 1
  Handlers = {h1}
  Asked <- MCAsked
  ServiceKey = key1
  Lifetime = 2
  Safety = 0
  Skews <- MCSkews
SPECIFICATION ServedSpec
INVARIANTS QuoteNeverPremature  RefusalJustified
