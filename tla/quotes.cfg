SPECIFICATION Spec
CONSTANTS
  r1 = r1
  r2 = r2
  Requests = {r1, r2}
  Asks <- MCAsks
  Scale = 20
  EstimatedGas <- MCEstimatedGas
  KnnFloor = 22
  KnnCeiling = 182
  Fallback = 60
  MinimumTotal = 1200
  Exempt = {84}
  Market <- MCMarket
  Opening <- MCOpening
  Ttl <- MCTtl
  MaxTime = 1
  FaultKinds = {"oracle", "ticker", "gas"}
  MaxEvents = 1
INVARIANTS
  TypeOK
  FloorKept
  TotalCovers
CHECK_DEADLOCK FALSE
