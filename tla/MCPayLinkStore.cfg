CONSTANTS
  r1 = r1
  l1 = l1
  l2 = l2
  t1 = t1
  t2 = t2
  w1 = w1
  w2 = w2
  None = None
  w3 = w3
  Requests = {r1}
  RequestExpires <- MCNoExpiry
  LinkIds = {l1, l2}
  Transactions = {t1, t2}
  Pays <- MCPays
  Workers = {w1, w2}
  Retention = 1
  MaxTime = 2
SYMMETRY MCSymmetry
SPECIFICATION StoreSpec
INVARIANT HistoryIsSettled
PROPERTIES SettlementIsFinal RevokedNeverSettled
