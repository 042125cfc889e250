SPECIFICATION PartsSpec
CONSTANTS
  p1 = p1
  p2 = p2
  p3 = p3
  p4 = p4
  Proc = {p1, p2, p3, p4}
  Gone = {p1, p2}
  Mortal = {p3}
  GuardMortal = {p2, p3}
  Rounds = {1, 2}
  NoFile = NoFile
  Empty = Empty
INVARIANTS TypeOK HolderOwnsFile
PROPERTIES OnlyOwnerRemoves ImplementsMutex EveryAcquireReturns
CHECK_DEADLOCK FALSE
