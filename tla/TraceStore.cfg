SPECIFICATION Spec
CONSTANTS
  t1 = t1
  t2 = t2
  t3 = t3
  small = small
  large = large
  TraceID <- MCTraceID
  Span <- MCSpan
  SpanSize <- MCSpanSize
  MaxTraces = 2
  MaxAge = 1
  MaxMemory = 3
  DecisionWaits = {1}
  MaxBatch = 2
  MaxLag = 1
  MaxClock = 4
  MaxEvicted = 2
SYMMETRY MCSymmetry
INVARIANTS TypeOK IndexConsistent BytesAccounted WithinLimits RecencyOrder
PROPERTY FreshAfterIngest
