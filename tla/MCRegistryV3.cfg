CONSTANTS
  alice = alice
  bob = bob
  top = top
  sub = sub
  None = None
  Accounts = {alice, bob}
  TopNodes = {top}
  LegacyNodes = {top}
  LegacyAtStart <- MCNoLegacy
  SubNodes = {sub}
  ParentNode <- MCParentNode
  Resolvers = {res}
  Registrars = {r1, r2}
  Successors = {r2}
  r1 = r1
  r2 = r2
  res = res
  RegistrarChangeDelay = 2
  MaxTime = 3
  MaxExpiry = 4
  MaxGeneration = 4
SPECIFICATION Spec
SYMMETRY MCSymmetry
INVARIANTS TypeOK ChildWithinParent AnchoredHasGeneration
PROPERTIES RegistrarChangeAnnounced NewTenureNewGeneration OwnerKeepsTopLevel LapsedLabelReserved
