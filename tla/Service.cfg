\* The process starts, stops and dies under a transaction and two requests.
CONSTANTS
  t1 = t1
  r1 = r1  r2 = r2
  n1 = n1
  NoTx = NoTx
  Tx = {t1}
  Request = {r1, r2}
  NonceKey = {n1}
  KeyOf <- MCKeyOf
  Expiry <- MCExpiry
  Ttl = 1
  MaxTime = 1
  Attempts = 2
  MaxStalls = 1
  MaxSignals = 2
  MaxFaults = 2
  MaxLeft = 1
SPECIFICATION FairSpec
INVARIANTS
  TypeOK
  DeadLettersWereExhausted
  WorkHasItsComponents
  ShutdownsInterruptNothing
PROPERTIES
  NoncesApart
  ShutdownEnds
CHECK_DEADLOCK FALSE
