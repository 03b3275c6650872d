SPECIFICATION TimedFairSpec
CONSTANTS
  window_max_lines = 2
  window_max_ms = 1
  IntMax = 7
  NLoops = 3
  RequestsOutlive = TRUE
  MaxInserts = 2
  MaxIdle = 3
  WindowTicks = 1
  timeout_ms = 3
  DefaultMs = 5
  Quiet = 5
  Grace = 4
INVARIANTS
  WaitCovers
  NoCallbackAfterDestroy
PROPERTY
  WaitEnds
CHECK_DEADLOCK FALSE
