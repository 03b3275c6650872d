SPECIFICATION Spec
CONSTANTS
  Precision = 5
  Fraction = 2
  Binades = 9
  SmallExponent = 4
  Points = {"."}
  MaxKey = 1
INVARIANTS
  Shortest
CHECK_DEADLOCK FALSE
