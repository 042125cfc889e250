SPECIFICATION FairSpec
CONSTANTS
  None = None
  Source = {s1}
  Hook = {h1}
  Child = {c1, c2}
  Manual = {m1}
  Life = {l1}
  Faults = {"lockTimeout", "revoked", "crash", "spawn", "network"}
  MaxEvents = 1
  MaxManual = 1
  MaxHistory = 1
PROPERTY SchedulerEnds
PROPERTY LifecycleEnds
CHECK_DEADLOCK FALSE
