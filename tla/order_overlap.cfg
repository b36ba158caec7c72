SPECIFICATION Spec
CONSTANTS
  p1 = p1  p2 = p2  o1 = o1  o2 = o2  t1 = t1  t2 = t2
  NoOrder = NoOrder  NoTx = NoTx
  Procs = {p1, p2}
  Orders = {o1}
  WalletOrders = {}
  Txs = {t1, t2}
  OrderOf <- BothForOne
  Exact = {t1, t2}
  PageSize = 2
  CacheLimit = 1
  SettlementBatch = 2
  ExpirationBatch = 1
  FaultKinds = {"timeout"}
  MaxFaults = 1
  MaxCrashes = 0
SYMMETRY Symmetry
PROPERTIES ConfirmedBeforeDispatch ConfirmedInTimeStays PipelineFulfils
CHECK_DEADLOCK FALSE
