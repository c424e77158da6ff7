SPECIFICATION FairSpec
CONSTANTS
  TraceID = {t1}
  MaxTraces = 1
  MaxBatch = 1
  Reader = {r1, r2}
  Collector = {c1}
  c1 = c1
  CollectorOf <- MCCollectorOf
  Handler = {h1}
  Own = {h1}
  Ticker = Ticker
  Conn = Conn
  None = None
  MaxOps = 3
  MaxOpens = 2
INVARIANTS TypeOK TracesShown SettingsShown CollectorsShown OnlyEvictedLinger
PROPERTY Settles
CHECK_DEADLOCK FALSE
