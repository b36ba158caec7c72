SPECIFICATION FairSpec
CONSTANTS
  p1 = p1  p2 = p2  l2 = l2  t1 = t1  t2 = t2  t3 = t3
  polygonSale = polygonSale  polygonDynamicSale = polygonDynamicSale
  Procs = {p1, p2}
  Networks = {l2}
  Contracts = {polygonSale, polygonDynamicSale}
  NetworkOf <- Sales
  Purchases <- TwoContracts
  FaultKinds = {"query", "exists", "insert"}
  MaxFaults = 1
  MaxRestarts = 1

INVARIANTS TypeOK StoredOnce LossHasCause
PROPERTIES TableCatchesUp
CHECK_DEADLOCK FALSE
