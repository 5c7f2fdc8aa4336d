SPECIFICATION Spec
CONSTANTS
  Pairs = {"atom/osmo"}
  PoolOf <- OnePool
  Quotes <- SmallQuotes
  NoPrice = NoPrice
  MaxSpotPrice = 4
  Log <- SmallLog
  KeepPeriod = 2
  MaxTime = 6
INVARIANTS
  TwapIsAverage
  ErrorIsReported
  KeptIsQueryable
CHECK_DEADLOCK FALSE
