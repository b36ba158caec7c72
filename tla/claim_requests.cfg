SPECIFICATION Spec
CONSTANTS
  r1 = r1  r2 = r2  o1 = o1  e1 = e1  e2 = e2  i1 = i1
  w1 = w1  w2 = w2  c1 = c1  c2 = c2
  NoCode = NoCode  NoOrder = NoOrder
  Requests = {r1, r2}
  Orders = {o1}
  Emails = {e1, e2}
  OwnerOf <- OneOrder
  Ips = {i1}
  Wallets = {w1, w2}
  Codes = {c1, c2}
  BanThreshold = 1
  MaxFaults = 1
  MaxRestarts = 1
SYMMETRY Symmetry
INVARIANTS TypeOK HandedToOwner OneWalletPerCode StatusHasChallenge AttemptsBounded
CHECK_DEADLOCK FALSE
