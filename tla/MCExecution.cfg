CONSTANTS
  Empty_Jump = 255
  Max_Control = 6
  Max_Operands = 4
  Max_Function = 3
  Max_Frames = 4
  Max_Calls = 4
  Programs <- MC_Programs
SPECIFICATION Spec
INVARIANTS
  NoUnderflow
  OperandsAsTyped
  EffectsHonoured
  CallersDataKept
PROPERTY CheckerTerminates
CHECK_DEADLOCK FALSE
