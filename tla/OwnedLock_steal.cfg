SPECIFICATION Spec
CONSTANTS
  Proc = {p1, p2, p3, p4, p5}
  Gone = {p1, p2}
  Mortal = {}
  GuardMortal = {p2}
  Rounds = {1}
  NoFile = NoFile
  Empty = Empty
SYMMETRY Symmetry
INVARIANTS MutualExclusion
CHECK_DEADLOCK FALSE
