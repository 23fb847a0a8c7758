SPECIFICATION Spec
CONSTANTS
  Empty_Jump = 1023
  Width = 4
  Max_Digits <- MC_Max_Digits
  Keywords <- MC_Keywords
  Max_Layout = 6
  Max_Number = 5
  Files <- MC_Files
INVARIANTS
  LocationsRight
  LiteralsEndUnlessBackslashEscaped
  NumbersAsWritten
CHECK_DEADLOCK FALSE
