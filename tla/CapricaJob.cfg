SPECIFICATION FairSpec
CONSTANTS
  a1 = a1  a2 = a2  a3 = a3  p1 = p1  p2 = p2
  Awaiter = {a1, a2}
  Poller = {p1}
  Null = Null
  CanThrow = TRUE
INVARIANTS
  ReturnMeansRan
PROPERTIES
  ThrownStaysUnfinished
  EveryAwaitReturns
  PoolSpec
CHECK_DEADLOCK FALSE
