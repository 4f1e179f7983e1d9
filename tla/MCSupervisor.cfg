SPECIFICATION Spec
CONSTANTS
  base = base
  app = app
  Services = {base, app}
  Order <- BothOrder
  Deps <- BothDeps
  policy <- OncePolicy
  Forks = {app}
  MaxSpawns = 2
INVARIANTS TypeOK NoRestartAfterStop LeadersDie FinalStatus DependentsFirst
CHECK_DEADLOCK FALSE
