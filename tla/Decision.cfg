SPECIFICATION Spec
CONSTANTS
  good = good
  bad = bad
  errors = errors
  everything = everything
  ottl = ottl
  TraceID = {t1, t2}
  Span <- MCSpan
  SpanSize <- MCSpanSize
  MaxTraces = 2
  MaxAge = 2
  MaxMemory = 2
  MaxBatch = 1
  MaxLag = 0
  MaxClock = 3
  MaxEvicted = 9
  None = None
  Policy = {errors, ottl}
  KeepsOn <- MCKeepsOn
  FailsOn <- MCFailsOn
  Wait <- MCWait
  Setter = {s1, s2}
  MaxFrames = 4
  MaxUpdates = 2
INVARIANTS TypeOK DecisionsFollowPolicy ReadyIsPending NoEarlyDecision StatsMatchVerdicts
PROPERTIES ImplementsPreview
SYMMETRY MCSymmetry
