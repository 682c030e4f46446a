SPECIFICATION Spec
CONSTANTS
  Null = Null
  TempTypes <- MCTypes
  EnableCKOptimizations = TRUE
  Programs <- AfterComparison
  Inputs = {0, 1, 2}
  MaxInputs = 4
INVARIANT ForIsThatOfVBNet
CHECK_DEADLOCK FALSE
