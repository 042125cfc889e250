SPECIFICATION PairingSpec
CONSTANTS
  None = None
  Inst = {i1, i2}
  Client = {s1}
  Token = {t1, t2, t3}
  Conn = {p1}
  Cmd = {d1}
  MaxCmds = 1
  PairFaults = {}
PROPERTY HistoryRetained
SYMMETRY Symmetry
CHECK_DEADLOCK FALSE
