CONSTANTS
  Empty_Jump = 255
  Max_Length = 6
  Bodies <- AllBodies
SPECIFICATION Spec
INVARIANTS
  JumpsAreWritten
  LinksFollowBlocks
  AssertNeverFires
  AcceptsWellFormed
CHECK_DEADLOCK FALSE
