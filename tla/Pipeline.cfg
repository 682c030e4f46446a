SPECIFICATION Spec
CONSTANTS
  A = A  B = B  C = C  Main = Main  Pool = Pool  Null = Null
  Script = {A, B, C}
  Thread = {Main, Pool}
  Program <- AllPrograms
  Again <- Following
  MaxMade = 2
INVARIANTS
  AncestorsFirst
  AwaitsDescend
  ResultIsDeserved
PROPERTY CompileEnds
CHECK_DEADLOCK FALSE
