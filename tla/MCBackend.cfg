SPECIFICATION Spec
CONSTANTS
  Width = 4
  Empty_Jump = 1023
  Calls = 4
  Fuel = 7
  Steps = 20
  Family = "all"
  Max_Length = 2
  Main = Main
  Nullopt = Nullopt
  No_Body = No_Body
  Names <- MC_Names
  Programs <- MC_Programs
  Randoms <- MC_Randoms
INVARIANTS
  CallsResolved
  Settled
  PassesKeepMeaning
  PassesSurvive
  GraphFollowsRuns
PROPERTIES
  OptimizeEnds
  GraphEnds
CHECK_DEADLOCK FALSE
