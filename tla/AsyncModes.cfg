SPECIFICATION Spec
CONSTANTS
  IntMax = 7
  NLoops = 3
  RequestsOutlive = FALSE
  MaxInserts = 3
  MaxIdle = 0
INVARIANTS
  SerialWithoutBatching
  InOrderWithoutBatching
  OneEventWithoutBatching
PROPERTIES
  ImplementsDelivery
CHECK_DEADLOCK FALSE
