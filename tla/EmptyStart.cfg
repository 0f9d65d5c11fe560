SPECIFICATION Spec
CONSTANTS
  Commands = {"loadconf", "load", "start"}
  MaxGames = 1
  MaxAutosaves = 0
INVARIANTS
  RunsWithWorld
CHECK_DEADLOCK FALSE
