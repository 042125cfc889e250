SPECIFICATION Spec
CONSTANTS
  None = None
  Error = Error
  Source = {s1}
  Content = {A, B}
  Bad = {}
  Chunks = 0
  Faults = {"compaction"}
  MaxChanges = 2
  MaxMade = 3
  MaxLost = 0
INVARIANT FingerprintIsDurable
CHECK_DEADLOCK FALSE
