CONSTANTS
  m1 = m1
  m2 = m2
  e1 = e1
  e2 = e2
  Market = {m1, m2}
  Call = {c1}
  Event = {}
  About <- NoEvents
  Decision <- NoEvents
  Worker = {w1, w2}
  Symbol <- SharedSymbol
  Usdc = "usdc"
  Polled = {}
  Attempts = 2
  MaxStalls = 0
  Failures = {"crash"}
  None = None
SPECIFICATION FairSpec
INVARIANTS
  PairsHaveTokens
PROPERTIES
  ActivationSettles
CHECK_DEADLOCK FALSE
