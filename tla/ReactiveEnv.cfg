SPECIFICATION FairSpec
CONSTANTS
  Vars = {"x", "y", "a", "b", "c", "log"}
  Values <- MCValues
  Formulas <- MCFormulas
  Deps <- MCDeps
  Apply <- MCApply
  Shown <- Exactly
  Falsy = {0}
  Argument = "arg"
  NoFormula = NoFormula
  Actions = {"bump", "record", "forward", "note"}
  Body <- MCBody
  Initial <- MCInitial
  Writes <- OneWrite
  Derives <- Diamond
  Unbinds = {"a"}
  Subscriptions <- Listeners
  Handlers <- Bump
  MaxStatements = 5
INVARIANTS DerivedCurrent SubscribersCurrent DirtyClosed EdgesMatch ReadsAreFresh
PROPERTY RestsAgain
CHECK_DEADLOCK FALSE
