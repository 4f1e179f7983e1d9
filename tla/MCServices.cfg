SPECIFICATION MCSpec
CONSTANTS
  base = base
  app = app
  Services = {base, app}
  Order <- BothOrder
  Deps <- BothDeps
  policy <- BothPolicy
  Forks = {app}
  MaxSpawns = 1
  Configs <- MCConfigs
  Runs <- MCRuns
  Window = 6
INVARIANTS OrderRight RestartsPaced
PROPERTIES StopCompletes AlwaysComesBack
CHECK_DEADLOCK FALSE
