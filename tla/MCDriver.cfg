CONSTANTS
  Errnos = {2, 12}
  Codes = {0, 1, 2}
  Signals = {9}
SPECIFICATION Spec
INVARIANTS
  SuccessMeansRan
  ExitCodeIsPrograms
  NoChildLeft
  FreshExecutable
PROPERTIES
  BuildEnds
CHECK_DEADLOCK FALSE
