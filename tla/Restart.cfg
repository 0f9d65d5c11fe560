SPECIFICATION FairSpec
CONSTANTS
  Commands = {"loadconf", "gen", "start", "stop"}
  MaxGames = 1
  MaxAutosaves = 0
PROPERTIES
  ServesWhileRunning
CHECK_DEADLOCK FALSE
