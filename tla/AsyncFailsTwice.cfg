SPECIFICATION Spec
CONSTANTS
  window_max_lines = 2
  window_max_ms = 100
  IntMax = 7
  NLoops = 4
  RequestsOutlive = FALSE
  MaxInserts = 2
  MaxIdle = 0
INVARIANT
  OneEventPerRequest
CHECK_DEADLOCK FALSE
