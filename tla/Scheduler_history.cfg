SPECIFICATION Spec
CONSTANTS
  None = None
  Source = {s1}
  Hook = {h1}
  Child = {c1}
  Manual = {m1}
  Life = {}
  Faults = {}
  MaxEvents = 2
  MaxManual = 1
  MaxHistory = 1
INVARIANT NoLostEvent
SYMMETRY Symmetry
CHECK_DEADLOCK FALSE
