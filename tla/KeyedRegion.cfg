SPECIFICATION Spec
CONSTANTS
  Keys = {"a", "b"}
  Extends <- MCApart
  Values = {1, 2}
  Lists <- MCLists
  None = None
  MaxUpdates = 2
  MaxCount = 1
INVARIANTS IInv RegistryMatchesDocument
PROPERTY ImplementsContract
CHECK_DEADLOCK FALSE
