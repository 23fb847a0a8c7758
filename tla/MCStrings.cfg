SPECIFICATION Spec
CONSTANTS
  Empty_Jump = 1023
  Max_Length = 5
  Programs <- MC_Programs
INVARIANTS
  DecodesUnlessBackslashEscaped
  IdsFollowTexts
  CharsAreTheirBytesOrReported
CHECK_DEADLOCK FALSE
