SPECIFICATION Spec
CONSTANTS
  Lets = {"x", "y", "z"}
  Gets = {"d", "e"}
  Others = {"v", "feed"}
  Values <- MCValues
  Scalars <- MCScalars
  Falsy = {0}
  Thrown = Thrown
  NoCall = NoCall
  Formulas <- MCFormulas
  Deps <- MCDeps
  Apply <- MCApply
  ScalarFormulas <- MCScalarFormulas
  CollectionFormulas = {}
  Actions <- MCActions
  Params <- MCParams
  Body <- MCBody
  Programs <- MCPrograms
  Definitions <- MCDefinitions
  Dispatches <- MCDispatches
  Arrivals <- MCArrivals
  Initial <- MCInitial
  MaxEffects = 3
  MaxTurns = 3
INVARIANTS EffectsHeard GettersPublished ParametersRestored OrderIsStable OnlyCyclesRefused IInv
CHECK_DEADLOCK FALSE
