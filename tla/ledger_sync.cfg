SPECIFICATION FairSpec
CONSTANTS
  p1 = p1  l1 = l1  l2 = l2
  null = null  bridge = bridge  holder = holder
  Procs = {p1}
  Networks = {l1, l2}
  Accounts = {null, bridge, holder}
  Transfers <- BridgedTokens
  GroupOf <- Grouping
  FaultKinds = {"fetch", "block", "read", "balance", "journal"}
  MaxFaults = 2
  MaxRestarts = 1

INVARIANTS TypeOK NoHole JournalledOnce BalanceIsJournal NoFalseUnderflow
PROPERTIES JournalCatchesUp KeepsBook RunsMissNothing
CHECK_DEADLOCK FALSE
