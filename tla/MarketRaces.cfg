CONSTANTS
  m1 = m1
  m2 = m2
  e1 = e1
  e2 = e2
  Market = {m1}
  Call = {c1, c2}
  Event = {e1, e2}
  About <- OneAbout
  Decision <- BothDecisions
  Worker = {w1}
  Symbol <- OneSymbol
  Usdc = "usdc"
  Polled = {e2}
  Attempts = 1
  MaxStalls = 1
  Failures = {"api", "call", "crash"}
  None = None
SPECIFICATION Spec
INVARIANTS
  TypeOK
  DeployedWasApproved
  SuccessWasDecided
PROPERTIES
  DeploymentsKeepPromise
SYMMETRY CallSymmetry
CHECK_DEADLOCK FALSE
