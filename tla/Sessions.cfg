SPECIFICATION FairSpec
CONSTANTS
  NoSession = NoSession
  NoNick = NoNick
  NoObject = NoObject
  MaxSessions = 2
  Nicks = {"anna", "boris"}
  MaxObjects = 3
  Commands = {"gen", "reset"}
INVARIANTS
  TypeOK
  Exclusive
  NobodyLockedOut
PROPERTIES
  GhostsAreRefused
  Returns
CHECK_DEADLOCK FALSE
