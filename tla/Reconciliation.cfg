\* Rounds, orders and moving balances.
CONSTANTS
  u1 = u1  u2 = u2  x = x  y = y  o1 = o1  o2 = o2
  None = None
  User = {u1, u2}
  Token = {x, y}
  Order = {o1, o2}
  OrderOf <- MCOrderOf
  Amount <- MCAmount
  Deposit <- MCDeposit
  MaxAmount = 2
  MaxMoves = 2
  MaxFaults = 1
SPECIFICATION FairSpec
INVARIANTS
  TypeOK
  
PROPERTIES
  LedgerConverges
