\* As many overlapping executions as the pool has connections.
CONSTANTS
  u1 = u1
  u2 = u2
  o1 = o1
  o2 = o2
  User = {u1, u2}
  Order = {o1, o2}
  Worker = {w1, w2}
  Canceller = {c1}
  Owner <- CrossOwner
  Side <- CrossSide
  Type <- CrossType
  Price <- CrossPrice
  Quantity <- CrossQuantity
  Scale = 1
  FeeRate = 1
  FeeDivisor = 2
  InitialBalance <- StartBalance
  OrderStatusCheck <- AllStatuses
  Attempts = 1
  MaxStalls = 0
  PoolMax = 2
  MaxFaults = 0
  NoEntry = NoEntry
SPECIFICATION FairApiSpec
PROPERTIES
  CancellationsAnswered
CHECK_DEADLOCK FALSE
