SPECIFICATION Spec
CONSTANTS
  Empty_Jump = 1023
  Main = Main
  Max_Tokens = 5
  Names <- MC_Names
  Intrinsics <- MC_Intrinsics
  Anonymous <- MC_Anonymous
  Sources <- MC_Sources
INVARIANTS
  FunctionNameFound
  EndsCloseBlocks
  IdsDiffer
  OpsInSourceOrder
PROPERTY ParserEnds
CHECK_DEADLOCK FALSE
