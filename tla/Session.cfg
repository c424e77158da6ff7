SPECIFICATION Spec
CONSTANTS
  Caller = {k1, k2}
  Collector = {c1, c2}
  MaxTransitions = 4
  MaxConnections = 3
CHECK_DEADLOCK FALSE
SYMMETRY MCSymmetry
INVARIANTS TypeOK ExportersFollowSession
