CONSTANTS
  c1 = c1
  c2 = c2
  t1 = t1
  t2 = t2
  h1 = h1
  h2 = h2
  None = None
  Challenges = {c1, c2}
  PlanYears <- MCPlanYears
  Transactions = {t1, t2}
  Handlers = {h1, h2}
  Lifetime = 0
  Retention = 0
  Window = 1
  Attempts = 2
  GrantTerms = {2}
  MaxEntitlements = 2
  MaxTime = 2
SYMMETRY Symmetry
SPECIFICATION ArchiveSpec
INVARIANTS PaymentBuysOneTerm RetryHonoured TermsAddUp
CHECK_DEADLOCK FALSE
