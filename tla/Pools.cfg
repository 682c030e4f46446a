SPECIFICATION Spec
CONSTANTS
  a = a
  b = b
  c = c
  huge = huge
  out = out
  Strings <- MCStrings
  SizeOf <- MCSizeOf
  HashOf <- MCHashOf
  HeapSize = 5
  MaxCapacity = 4
  MaxGeneration = 3
  MaxPushed = 4
INVARIANTS TableFaithful StreamInOrder
CHECK_DEADLOCK FALSE
