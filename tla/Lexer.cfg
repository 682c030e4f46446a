SPECIFICATION Spec
CONSTANTS
  MaxFragments = 3
  Texts <- MCTexts
  MaxIntegerDigits = 3
  OffsetsPerHeap = 2
INVARIANTS LookaheadInvisible LineFound DocTextKept
CHECK_DEADLOCK FALSE
