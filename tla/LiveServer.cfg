SPECIFICATION FairSpec
CONSTANTS
  Pages = {"actor", "listener"}
  Actors = {"actor"}
  Kinds = {"good", "unread", "unbuilt", "unloaded"}
  MaxSaves = 1
  MaxLoads <- MCMaxLoads
  MaxNow = 3
INVARIANTS IInv ReloadQueued ListenersCurrent
PROPERTY SavesAreBuilt
CHECK_DEADLOCK FALSE
