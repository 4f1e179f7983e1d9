SPECIFICATION MCSpec
CONSTANTS
  c1 = c1
  c2 = c2
  f1 = f1
  f2 = f2
  None = None
  Keys = {k1}
  Specs = {s1, s2}
  Owners = {o1}
  Finalizers = {f1, f2}
  Clients = {c1, c2}
  finalizerOf <- MCFinalizerOf
  MaxVersion = 4
  MaxGen = 2
SYMMETRY Perms
INVARIANTS StoreTyped VersionIdentifiesContent HeldAlive
PROPERTY ObjectLifecycle
