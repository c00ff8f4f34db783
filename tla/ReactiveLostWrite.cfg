SPECIFICATION Spec
CONSTANTS
  Vars = {"x", "y", "a", "b", "c", "log"}
  Values <- MCValues
  Formulas <- MCFormulas
  Deps <- MCDeps
  Apply <- MCApply
  Shown <- Exactly
  Falsy = {0}
  Argument = "arg"
  NoFormula = NoFormula
  Actions = {"once"}
  Body <- MCBody
  Initial <- MCInitial
  Writes <- OneWrite
  Derives <- Cascade
  Unbinds = {}
  Subscriptions <- WriteOnce
  Handlers = {}
  MaxStatements = 6
INVARIANT DerivedCurrent
CHECK_DEADLOCK FALSE
