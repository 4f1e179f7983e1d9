SPECIFICATION Spec
CONSTANTS
  None = None
  Unseen = Unseen
  Self = Self
  Keys = {i1, i2, x1}
  Inputs = {i1, i2}
  Specs = {s1}
  Owners = {}
  Finalizers = {}
  Writers = {w1}
  Capacity = 1
  Resync = TRUE
  MaxWrites = 3
INVARIANT NoLostWakeup
PROPERTIES LevelTriggered CancelStopsLoop
CHECK_DEADLOCK FALSE
