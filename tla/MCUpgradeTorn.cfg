SPECIFICATION Spec
CONSTANTS
  Images = {v0, v1}
  Installed = v0
  Lacking = {}
  Pi = FALSE
  MishapSets = {{"cut"}}
INVARIANT AlwaysBootable
CHECK_DEADLOCK FALSE
