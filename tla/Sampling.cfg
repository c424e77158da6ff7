SPECIFICATION Spec
CONSTANTS
  TicksPerMs = 2
  NoParent = NoParent
  NoName = NoName
  None = None
  t1 = t1
  t2 = t2
  TraceID = {t1, t2}
  HashOf <- MCHashOf
  Group <- MCGroup
  Configs <- MCConfigs
  InitialConfigs <- MCInitialConfigs
  Policy <- MCPolicy
  Query <- MCQuery
  Ticker = Ticker
  Updater = Updater
  Comparer = Comparer
  MaxBatches = 2
  MaxNow = 1
  MaxEvaluators = 2
INVARIANTS TypeOK PreviewIsFaithful LatencyMeansDuration AttributesMean ResultsFollowPolicies AndSparesTokens BurstBound MatchersShared CompareAccounts SelfCompareEmpty QueriesAgree
CHECK_DEADLOCK FALSE
