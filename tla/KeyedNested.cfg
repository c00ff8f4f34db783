SPECIFICATION Spec
CONSTANTS
  Keys = {"a", "a__b"}
  Extends <- MCNested
  Values = {1}
  Lists <- MCLists
  None = None
  MaxUpdates = 2
  MaxCount = 1
INVARIANT RegistryMatchesDocument
CHECK_DEADLOCK FALSE
