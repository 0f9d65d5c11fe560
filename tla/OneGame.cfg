SPECIFICATION FairSpec
CONSTANTS
  Commands = {"loadconf", "gen", "start", "stop", "reset", "exit", "save", "load", "autosave start", "autosave stop"}
  MaxGames = 1
  MaxAutosaves = 1
INVARIANTS
  TypeOK
PROPERTIES
  StartsAsAnnounced
  CycleSpec
  ExitEnds
CHECK_DEADLOCK FALSE
