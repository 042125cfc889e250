SPECIFICATION LocalSpec
CONSTANTS
  None = None
  Error = Error
  Source = {s1}
  Content = {A, B}
  Bad = {B}
  Chunks = 1
  Faults = {"network", "lost", "crash", "collector", "disconnect", "stateLost"}
  MaxChanges = 2
  MaxMade = 3
  MaxLost = 2
  Absent = Absent
  o1 = o1  o2 = o2
  Opener = {o1, o2}
  Free = Free
  Orphaned = Orphaned
  MaxEdits = 1
  l1 = l1
  Login = {l1, l2}
  Unbound = Unbound
  MaxAccounts = 2
  MaxSwitches = 2
  MaxReadings = 3
  MaxTroubles = 2
  MaxRollouts = 2
  MaxTurns = 2
  MaxCollections = 2
  MaxCodexDay = 1
  MaxOdd = 1
  MaxSkips = 1
  MaxEffort = 4
  MaxDuring = 2
  c1 = c1  c2 = c2
  Console = {c1, c2}
  Hooked = {d1, d2}
  Codex = d1
  Foreign = {f1}
  LastVersion = 2
  Unlocked = Unlocked
  MaxCommands = 2
  MaxTouches = 1
INVARIANTS LocalInvariant FingerprintIsDurable ChunkAcknowledged
PROPERTY ImplementsOutbox
CHECK_DEADLOCK FALSE
