CONSTANTS
  u1 = u1
  u2 = u2
  o1 = o1
  o2 = o2
  User = {u1, u2}
  Order = {o1, o2}
  Worker = {w1}
  Canceller = {}
  Owner <- CrossOwner
  Side <- CrossSide
  Type <- CrossType
  Price <- CrossPrice
  Quantity <- CrossQuantity
  Scale = 1
  FeeRate = 1
  FeeDivisor = 2
  InitialBalance <- StartBalance
  OrderStatusCheck <- MigrationStatuses
  Attempts = 2
  MaxStalls = 1
  PoolMax = 2
  MaxFaults = 0
  NoEntry = NoEntry
SPECIFICATION Spec
INVARIANTS
  SubmissionsCreateOrders
CHECK_DEADLOCK FALSE
