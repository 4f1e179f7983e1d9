SPECIFICATION MCSpec
CONSTANTS
  Images = {v0, v1}
  Installed = v0
  Lacking = {v0}
  Pi = TRUE
  MishapSets = {{}, {"seal", "fsync", "cut"}, {"seal", "write", "cut"}}
  m1 = m1
  m2 = m2
  m3 = m3
  Builds = {b1, b2}
  MaxFaults = 3
  All = {m1, m2, m3}
  MaxDepth = 3
  Artifacts <- MCArtifacts
  Manifests <- MCManifests
  Declared <- MCDeclared
  Tables <- MCTables
  RootLists <- MCRoots
INVARIANTS SlotsSafe ImageRight UsedIsPinned ModulesLoad
PROPERTIES KeepsPromise EveryBuildFetches
CHECK_DEADLOCK FALSE
