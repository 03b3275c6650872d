SPECIFICATION Spec
CONSTANTS
  Precision = 5
  Fraction = 5
  Binades = 12
  SmallExponent = 1
  Points = {".", ","}
  MaxKey = 6
INVARIANTS
  AcceptsOneName
  ReadsBack
CHECK_DEADLOCK FALSE
