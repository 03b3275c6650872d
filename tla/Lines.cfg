SPECIFICATION Spec
CONSTANTS
  Measurements <- MCMeasurements
  Pairs <- MCPairs
  Raws <- MCRaws
  window_max_lines = 2
  MaxText = 8
PROPERTY PointerLasts
INVARIANTS
  BatchSays
  CacheShowsAll
