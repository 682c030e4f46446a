SPECIFICATION Spec
CONSTANTS
  DefaultJob = DefaultJob  Null = Null  Main = Main
  r1 = r1  r2 = r2  w1 = w1  w2 = w2  l1 = l1  l2 = l2  k1 = k1  k2 = k2
  Job = {r1, w1}
  Early = {r1}
  Awaited = {r1}
  Lazy = {}
  Worker = {}
  Deps <- ScriptDeps
  Fails = {}
INVARIANTS
  NoJobAbandoned
CHECK_DEADLOCK FALSE
