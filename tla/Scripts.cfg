SPECIFICATION Spec
CONSTANTS
  NoString = NoString
  Nothing = Nothing
  UserFlagsDefinition <- MCFlags
  SkyrimNativeClasses <- MCNative
  Qualified <- MCQualified
  ElementNames <- MCElements
  EventNames <- MCEvents
  Code <- MCCode
  Library <- MCLibrary
  Inputs <- MCInputs
INVARIANTS
  ParsesAsWritten
  AcceptedIsKept
  ReadIsInverseOfWrite
  AssemblyIsInverse
  SourceAndPexAgree
  SignaturesKept
  NamesStayApart
CHECK_DEADLOCK FALSE
