CONSTANTS
  Empty_Jump = 255
  Callstack_Size = 2
  Sites = {10, 11}
  Functions = {20, 21}
  Values = {1, 20, 21}
  Max_Depth = 4
  Max_Data = 2
SPECIFICATION Spec
INVARIANTS
  ReturnsToCaller
PROPERTIES
  ImplementsCalls
CHECK_DEADLOCK FALSE
