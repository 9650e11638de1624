CONSTANTS
  r1 = r1
  l1 = l1
  t1 = t1
  t2 = t2
  w1 = w1
  c1 = c1
  p1 = p1
  p2 = p2
  None = None
  l2 = l2
  w2 = w2
  Requests = {r1}
  RequestExpires <- MCExpiry
  LinkIds = {l1}
  Transactions = {t1, t2}
  Pays <- MCPays
  Workers = {w1}
  Retention = 2
  MaxTime = 2
  Tabs = {c1}
  Polls = {p1}
  MaxPending = 1
  RetryTtl = 1
CHECK_DEADLOCK FALSE
SPECIFICATION FairPaySpec
INVARIANTS PayLinksTypeOK CancelledNotPayable
PROPERTIES CompletionNotLost SettledIsRecorded
