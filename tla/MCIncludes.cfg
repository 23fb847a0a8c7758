CONSTANTS
  Projects <- MC_Projects
  Source <- MC_Source
  Search_Paths <- MC_Search
  Dirs = {"cwd", "lib"}
  Canonical <- MC_Canonical
  With_Extension <- MC_Extension
  Broken <- MC_Broken
  Short = {}
  Max_Splices = 6
  Keyword_Set = {"Include", "Import"}
SPECIFICATION Spec
INVARIANTS
  ExpandsInPlace
PROPERTY ImportsTerminate
CHECK_DEADLOCK FALSE
