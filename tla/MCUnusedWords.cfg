CONSTANTS
  Names <- MC_Names
  Main = Main
  Programs <- MC_Programs
  Orders <- Array_First
  Max_Length = 2
SPECIFICATION Spec
INVARIANT NothingUsedErased
INVARIANT WordFound
INVARIANT OnlyReachableKept
PROPERTY CallsEnd
CHECK_DEADLOCK FALSE
