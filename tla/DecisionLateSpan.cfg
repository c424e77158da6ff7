SPECIFICATION Spec
CONSTANTS
  good = good
  bad = bad
  errors = errors
  everything = everything
  ottl = ottl
  TraceID = {t1}
  Span <- MCSpan
  SpanSize <- MCSpanSize
  MaxTraces = 1
  MaxAge = 2
  MaxMemory = 4
  MaxBatch = 1
  MaxLag = 0
  MaxClock = 2
  MaxEvicted = 9
  None = None
  Policy = {errors}
  KeepsOn <- MCKeepsOn
  FailsOn <- MCFailsOn
  Wait <- MCWait
  Setter = {s1}
  MaxFrames = 2
  MaxUpdates = 0
INVARIANT AlwaysFollowPolicy
