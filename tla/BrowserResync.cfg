SPECIFICATION Spec
CONSTANTS
  TraceID = {t1}
  MaxTraces = 1
  MaxBatch = 1
  Reader = {r1}
  Collector = {c1}
  c1 = c1
  CollectorOf <- MCCollectorOf
  Handler = {}
  Own = {}
  Ticker = Ticker
  Conn = Conn
  None = None
  MaxOps = 2
  MaxOpens = 2
INVARIANT Resynchronized
CHECK_DEADLOCK FALSE
