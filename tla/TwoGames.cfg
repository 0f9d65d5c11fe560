SPECIFICATION FairSpec
CONSTANTS
  Commands = {"loadconf", "gen", "start", "stop", "reset", "load", "save"}
  MaxGames = 2
  MaxAutosaves = 0
INVARIANTS
  SamosborWillEnd
  ChainsFromGames
PROPERTIES
  SamosborsKeepComing
CHECK_DEADLOCK FALSE
