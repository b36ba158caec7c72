SPECIFICATION Spec
CONSTANTS
  p1 = p1  p2 = p2  r1 = r1  r2 = r2  r3 = r3  l1 = l1  l2 = l2
  NoNetwork = NoNetwork
  Requests = {r1, r2, r3}
  Ask <- ThreeAsks
  Procs = {p1, p2}
  ProcOf <- TwoProcesses
  Networks = {l1, l2}
  Expiration = 2
  MaxTime = 3
  FaultKinds = {"events", "badges", "last", "insert"}
  MaxFaults = 1
  MaxRestarts = 1
INVARIANTS TypeOK SignatureRecorded NotExtended NotSignedAfterMint CallsItselfOnce
CHECK_DEADLOCK FALSE
