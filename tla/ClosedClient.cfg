SPECIFICATION Spec
CONSTANTS
  MaxSessions = 2
  Nicks = {"anna", "boris"}
  MaxObjects = 2
  Commands = {}
  NoSession = NoSession
  NoNick = NoNick
  NoObject = NoObject
INVARIANTS
  ClosingIsHarmless
CHECK_DEADLOCK FALSE
