SPECIFICATION Spec
CONSTANTS
  p1 = p1  p2 = p2  o1 = o1  o2 = o2  t1 = t1  t2 = t2
  NoOrder = NoOrder  NoTx = NoTx
  Procs = {p1}
  Orders = {o1}
  WalletOrders = {}
  Txs = {t1, t2}
  OrderOf <- OneUnknown
  Exact = {t1, t2}
  PageSize = 1
  CacheLimit = 1
  SettlementBatch = 2
  ExpirationBatch = 1
  FaultKinds = {"handler"}
  MaxFaults = 1
  MaxCrashes = 0
INVARIANTS SkippedWasProcessed
CHECK_DEADLOCK FALSE
