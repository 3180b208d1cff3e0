\* Two settlements share a rate-limited client.
CONSTANTS
  t1 = t1  t2 = t2
  w1 = w1  w2 = w2
  None = None
  Trade = {t1, t2}
  Worker = {w1, w2}
  RpcAttempts = 2
  GiveUpAt = 2
  Attempts = 2
  MaxStalls = 1
  MaxFaults = 3
  MaxTokens = 2
  Interval = 2
SPECIFICATION FairSpec
INVARIANTS
  TypeOK
  RateBounded
PROPERTIES
  SettlementsKeepPromise
  SettlementQueueDrains
