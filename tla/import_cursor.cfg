SPECIFICATION FairSpec
CONSTANTS
  p1 = p1  p2 = p2  o1 = o1  o2 = o2
  sale = sale  dynamicSale = dynamicSale
  NoOrder = NoOrder  Database = Database
  Procs = {p1}
  Orders = {o1, o2}
  ContractOf <- TwoContracts
  Contracts = {sale, dynamicSale}
  FaultKinds = {}
  MaxFaults = 0
  MaxRestarts = 0
PROPERTIES EventsStored
CHECK_DEADLOCK FALSE
