SPECIFICATION Spec
CONSTANTS
  Pages = {"actor", "listener"}
  Actors = {"actor"}
  Kinds = {"good", "unread", "unbuilt", "unloaded"}
  MaxSaves = 1
  MaxLoads <- MCMaxLoads
  MaxNow = 3
PROPERTY ReloadShowsNewProgram
CHECK_DEADLOCK FALSE
