CONSTANTS
  u1 = u1
  u2 = u2
  o1 = o1
  o2 = o2
  User = {u1, u2}
  Order = {o1, o2}
  Worker = {w1}
  Canceller = {c1}
  Owner <- CrossOwner
  Side <- CrossSide
  Type <- CrossType
  Price <- CrossPrice
  Quantity <- CrossQuantity
  Scale = 1
  FeeRate = 1
  FeeDivisor = 2
  InitialBalance <- StartBalance
  OrderStatusCheck <- AllStatuses
  Attempts = 2
  MaxStalls = 1
  PoolMax = 2
  MaxFaults = 1
  NoEntry = NoEntry
SPECIFICATION FairSpec
INVARIANTS
  SettlementFollowsLedger
  NoStrandedOrder
  LedgerMatchesTrades
PROPERTIES
  JobsEnd
CHECK_DEADLOCK FALSE
