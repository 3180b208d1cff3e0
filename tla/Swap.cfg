\* Two swaps that settle the same accounts.
CONSTANTS
  s1 = s1  s2 = s2
  w1 = w1  w2 = w2
  acc1 = acc1  acc2 = acc2
  None = None
  Swap = {s1, s2}
  Worker = {w1, w2}
  Account = {acc1, acc2}
  Source <- MCSource
  Target <- MCTarget
  Amount <- MCAmount
  Quotes <- MCQuotes
  Decimals <- MCDecimals
  Deposit <- MCDeposit
  Attempts = 2
  MaxStalls = 1
  MaxFaults = 2
SPECIFICATION FairSpec
INVARIANTS
  TypeOK
  CompletedWasSettled
  CreditsWereSwapped
  LedgerMatchesSettlements
PROPERTIES
  SwapsKeepPromise
  SwapQueueDrains
CHECK_DEADLOCK FALSE
