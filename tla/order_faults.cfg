SPECIFICATION Spec
CONSTANTS
  p1 = p1  p2 = p2  o1 = o1  o2 = o2  t1 = t1  t2 = t2
  NoOrder = NoOrder  NoTx = NoTx
  Procs = {p1}
  Orders = {o1, o2}
  WalletOrders = {o1}
  Txs = {t1, t2}
  OrderOf <- OneEach
  Exact = {t1}
  PageSize = 1
  CacheLimit = 1
  SettlementBatch = 2
  ExpirationBatch = 1
  FaultKinds = {"statement", "handler", "update", "expiration", "verify", "reserve", "send", "timeout", "receipt"}
  MaxFaults = 2
  MaxCrashes = 2
INVARIANTS TypeOK DispatchedOnce RecordsAgree DispatchBacked
PROPERTIES PipelineFulfils
CHECK_DEADLOCK FALSE
