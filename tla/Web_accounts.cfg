SPECIFICATION WebSpec
CONSTANTS
  None = None
  Nil = Nil
  s1 = s1
  a1 = a1
  b1 = b1
  b2 = b2
  compA = compA
  compB = compB
  c1 = c1
  c2 = c2
  Inst = {i1, i2}
  Client = {s1, s2}
  Token = {t1, t2}
  Conn = {p1, p2}
  Cmd = {d1}
  MaxCmds = 2
  PairFaults = {"lost", "crash"}
  Src = {a1, b1, b2}
  ComputerOf <- MCComputerOf
  ClientOf <- MCClientOf
  Days = {1, 2}
  Snaps <- MCSnaps
  MinMatched = 1
  MinDistinct = 1
  MinSpan = 0
  DailyLimit = 3
  JumpRatio = 1
  MaxAccount = 3
  MaxTickets = 3
  MaxEdits = 3
INVARIANTS WebTypeOK PairingConsistent  MergesAreReversible
PROPERTIES AbandonedIsHarmless DecisionsStand LateIsMasked
SYMMETRY Symmetry
CHECK_DEADLOCK FALSE
