CONSTANTS
  f1 = f1
  f2 = f2
  b1 = b1
  b2 = b2
  h1 = h1
  h2 = h2
  None = None
  Fees = {f1, f2}
  Burns = {b1, b2}
  Handlers = {h1, h2}
  RecoveryTtl = 1
  MaxTime = 2
SYMMETRY MCSymmetry
SPECIFICATION RecoverySpec
INVARIANTS NotOfferedAgain LedgerTruthful
PROPERTY KeepsFeeRecords
