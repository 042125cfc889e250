SPECIFICATION Spec
CONSTANTS
  None = None
  Source = {s1}
  Hook = {h1}
  Child = {c1, c2}
  Manual = {}
  Life = {}
  Faults = {}
  MaxEvents = 2
  MaxManual = 0
  MaxHistory = 0
INVARIANT NoStranded
SYMMETRY Symmetry
CHECK_DEADLOCK FALSE
