\* Two workers, a market sell of one and a bid of two, with rounded quotes.
CONSTANTS
  u1 = u1
  u2 = u2
  o1 = o1
  o2 = o2
  User = {u1, u2}
  Order = {o1, o2}
  Worker = {w1, w2}
  Canceller = {}
  Owner <- CrossOwner
  Side <- CrossSide
  Type <- OverlapType
  Price <- OverlapPrice
  Quantity <- OverlapQuantity
  Scale = 2
  FeeRate = 1
  FeeDivisor = 2
  InitialBalance <- StartBalance
  OrderStatusCheck <- AllStatuses
  Attempts = 2
  MaxStalls = 1
  PoolMax = 3
  MaxFaults = 0
  NoEntry = NoEntry
SPECIFICATION Spec
INVARIANTS
  TypeOK
  FillsWereTraded
  FillsFitTheOrder
  LocksCoverTrades
SYMMETRY WorkerSymmetry
CHECK_DEADLOCK FALSE
