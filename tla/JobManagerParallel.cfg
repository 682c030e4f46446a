SPECIFICATION FairSpec
CONSTANTS
  DefaultJob = DefaultJob  Null = Null  Main = Main
  r1 = r1  r2 = r2  w1 = w1  w2 = w2  l1 = l1  l2 = l2  k1 = k1  k2 = k2
  Job = {r1, r2, w1, w2}
  Early = {r1, r2}
  Awaited = {r1}
  Lazy = {}
  Worker = {k1}
  Deps <- ScriptDeps
  Fails = {w1}
INVARIANTS
  NullFrontOwned
  FrontNeverReturns
  QueueAccounting
  DrainedJobsRan
  ExitQuiescent
  NoFalseSuccess
PROPERTIES
  StopEnds
  PoolSpec
CHECK_DEADLOCK FALSE
