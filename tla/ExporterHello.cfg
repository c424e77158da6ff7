SPECIFICATION Spec
CONSTANTS
  Consumer = {p1}
  QueueSize = 1
  Reconnect = TRUE
  Interval = 2
  MaxBackoff = 5
  Window = 1
  MaxOffered = 1
INVARIANT HelloFirst
CHECK_DEADLOCK FALSE
