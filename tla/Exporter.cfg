SPECIFICATION PipelineSpec
CONSTANTS
  Consumer = {p1, p2}
  QueueSize = 2
  Reconnect = TRUE
  Interval = 2
  MaxBackoff = 5
  Window = 1
  MaxOffered = 5
INVARIANTS TypeOK Ledger GaugeTracksQueue NothingAccumulates ConnOwned
PROPERTIES ConsumeReturns BrokenIsReplaced QueueDrains
CHECK_DEADLOCK FALSE
