SPECIFICATION ConnectorSpec
CONSTANTS
  g1 = g1
  g2 = g2
  g3 = g3
  g4 = g4
  h1 = h1
  k1 = k1
  k2 = k2
  k3 = k3
  session = session
  acctA = acctA
  acctB = acctB
  Run = {h1}
  Stop = {g1, g2, g3, g4}
  KeyOf <- MCKeyOf
  RunOf <- MCRunOf
  SessionOf <- MCSessionOf
  AccountOf <- MCAccountOf
  TokensOf <- MCTokensOf
  EndSession <- MCEndSession
  Absent = Absent
  Timeout = 1
  MaxPending = 1
  MaxSlots = 1
  MaxTime = 3
  MaxRefusals = 1
  MaxResets = 1
  NoLedger = NoLedger
  MaxRecords = 3
  MaxInodes = 3
  MaxFaults = 3
  r1 = r1
  r2 = r2
  x1 = x1
  Record = {r1, r2, x1}
  IdOf <- MCIdOf
  DayOf <- MCDayOf
  Broken = Broken
  Torn = Torn
  NoCheck = NoCheck
  Window = 2
  LedgerLimit = 2
  Path = {p1, p2}
  Gone = Gone
  MaxDay = 2
  MaxWrites = 3
  MaxDeaths = 1
  NoProof = NoProof
  Retention = 1
  CaptureMaxDay = 4
  CaptureMaxLost = 1
  Nil = Nil
  YearLength = 3
  RangeDays = 1
  FirstDay = 2
  LastDay = 5
  MaxFails = 1
  MaxAborts = 1
  MaxGenerations = 0
  MaxFull = 0
INVARIANTS ConnectorInvariant LedgerIsDurable NoSilentLoss TurnCountsOnce
INVARIANTS CompleteIsWhole RemovedWasAccepted CompleteYearIsWhole
SYMMETRY Symmetry
CHECK_DEADLOCK FALSE
