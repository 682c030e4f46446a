SPECIFICATION FairSpec
CONSTANTS
  DefaultJob = DefaultJob  Null = Null  Main = Main
  r1 = r1  r2 = r2  w1 = w1  w2 = w2  l1 = l1  l2 = l2  k1 = k1  k2 = k2
  Job = {r1, r2, w1, l1, l2}
  Early = {r1, r2}
  Awaited = {}
  Lazy = {l1, l2}
  Worker = {}
  Deps <- LibraryDeps
  Fails = {}
INVARIANTS
  NoJobAbandoned
PROPERTIES
  CompileEnds
CHECK_DEADLOCK FALSE
