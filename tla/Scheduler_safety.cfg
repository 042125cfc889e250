SPECIFICATION PartsSpec
CONSTANTS
  None = None
  Source = {s1}
  h2 = h2
  l1 = l1
  Hook = {h1, h2}
  Child = {c1, c2}
  Manual = {m1}
  Life = {l1}
  Faults = {}
  MaxEvents = 2
  MaxManual = 2
  MaxHistory = 0
INVARIANTS TypeOK NoLostEvent DisconnectClean
PROPERTIES AttemptedOnce NothingAfterDisconnect
SYMMETRY Symmetry
CHECK_DEADLOCK FALSE
