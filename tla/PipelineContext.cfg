SPECIFICATION Spec
CONSTANTS
  A = A  B = B  C = C  Main = Main  Pool = Pool  Null = Null
  Script = {A, B, C}
  Thread = {Main, Pool}
  Program <- CommandLine
  Again = {}
  MaxMade = 0
INVARIANT ParallelFailureIsDeserved
CHECK_DEADLOCK FALSE
