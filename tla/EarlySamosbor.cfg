SPECIFICATION Spec
CONSTANTS
  Commands = {"loadconf", "gen", "reset", "start"}
  MaxGames = 2
  MaxAutosaves = 0
PROPERTIES
  StartsAsAnnounced
CHECK_DEADLOCK FALSE
