SPECIFICATION Spec
CONSTANTS
  None = None
  Producer = Producer
  Other = Other
  Finalizer = Finalizer
  Keys = {k1}
  Specs = {s1, s2}
  Owners = {Producer, Other}
  Finalizers = {Finalizer}
  Patience = {TRUE, FALSE}
  MaxChanges = 3
  MaxFaults = 2
INVARIANT EffectHeld
PROPERTIES ForeignSurvives Converges
