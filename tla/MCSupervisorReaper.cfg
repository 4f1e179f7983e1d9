SPECIFICATION Spec
CONSTANTS
  base = base
  app = app
  Services = {app}
  Order <- OneOrder
  Deps <- OneDeps
  policy <- BothPolicy
  Forks = {app}
  MaxSpawns = 2
INVARIANT FinishedStaysFinished
CHECK_DEADLOCK FALSE
