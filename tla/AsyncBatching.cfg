SPECIFICATION Spec
CONSTANTS
  window_max_lines = 2
  window_max_ms = 100
  IntMax = 7
  NLoops = 3
  RequestsOutlive = FALSE
  MaxInserts = 3
  MaxIdle = 1
INVARIANTS
  TypeOK
  WindowsPartition
  WithinMaxLines
  NoSilentLoss
  EventsTruthful
  AtMostOnce
PROPERTIES
  FewRequestsAfterStop
CHECK_DEADLOCK FALSE
