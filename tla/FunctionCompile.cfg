SPECIFICATION Spec
CONSTANTS
  Null = Null
  TempTypes <- MCTypes
  EnableCKOptimizations = TRUE
  Programs <- Well
  Inputs = {0, 1, 2}
  MaxInputs = 4
INVARIANTS
  BehaviourPreserved
  CodeIsWhole
  GuardsBalanced
  NoErrorNoCrash
  FallOffIsWarned
PROPERTY RunsToItsEnd
CHECK_DEADLOCK FALSE
