SPECIFICATION Spec
CONSTANTS
  Caller = {k1, k2}
  Collector = {c1}
  MaxTransitions = 2
  MaxConnections = 1
CHECK_DEADLOCK FALSE
SYMMETRY MCSymmetry
INVARIANT PauseStopsExporters
