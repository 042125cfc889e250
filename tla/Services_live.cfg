SPECIFICATION ServicesSpec
CONSTANTS
  None = None
  Error = Error
  Source = {s1, s2}
  Content = {A, B}
  Bad = {B}
  Chunks = 0
  Faults = {"collector", "compaction"}
  MaxChanges = 0
  MaxMade = 1
  MaxLost = 0
  Grant = {g1, g2}
  Handler = {h1, h2}
  NoGrant = NoGrant
  NSources = 2
  NCodes = 1
  PhaseOf <- MCPhaseOf
  EventLimit = 3
  KeyLimit = 2
  r1 = r1
  r2 = r2
  c1 = c1
  c2 = c2
  Request = {r1, r2}
  ClientOf <- MCClientOf
  Cleaner = Cleaner
  MaxActive = 1
  MaxWaiting = 2
  PublicLimit = 2
  GlobalLimit = 2
  ClientLimit = 1
  WindowSize = 3
  TTL = 2
  MaxKeys = 1
  MaxTime = 4
  Own = Own
  NoFile = NoFile
  MaxEdits = 2
  MaxCrashes = 2
  EditKinds = {"append", "prepend", "delete"}
  Nil = Nil
  YearLength = 4
  RangeDays = 1
  FirstDay = 1
  LastDay = 2
  MaxFails = 1
  MaxAborts = 1
  MaxGenerations = 0
  MaxFull = 0
  NoPath = NoPath
  Home = {x1, x2}
  MaxCommands = 2
  MaxUserEdits = 1
  MaxDeaths = 1
INVARIANTS DeliveredWhenDone  ServicesInvariant SlotsAccounted 
PROPERTIES SyncEnds RejectionsFade EveryoneLeaves EventuallyUnblocked EventuallySettled HistorySettles
CHECK_DEADLOCK FALSE
