SPECIFICATION FairSpec
CONSTANTS
  p1 = p1  p2 = p2  o1 = o1  o2 = o2
  sale = sale  dynamicSale = dynamicSale
  NoOrder = NoOrder  Database = Database
  Procs = {p1, p2}
  Orders = {o1, o2}
  ContractOf <- TwoContracts
  Contracts = {sale, dynamicSale}
  FaultKinds = {"query", "orders", "receipts", "userReceipt", "claim", "status"}
  MaxFaults = 1
  MaxRestarts = 1
INVARIANTS TypeOK ImportedIsClaimed
PROPERTIES NewestIsRetried NoClaimPassedOver
CHECK_DEADLOCK FALSE
