CONSTANTS
  f1 = f1
  f2 = f2
  b1 = b1
  b2 = b2
  j1 = j1
  j2 = j2
  None = None
  Fees = {f1, f2}
  Burns = {b1, b2}
  Jobs = {j1, j2}
  Pages <- MCPages
  PendingTtl = 0
  MaxPendingTransfers = 1
  MaxTime = 1
SYMMETRY MCSymmetry
SPECIFICATION TransferSpec
INVARIANTS TransferTypeOK  FeeSecuredBeforeBurn
