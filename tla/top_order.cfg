CONSTANTS
  IntRange = 8
  Counts = {0, 3, 5, 11}
  MaxKeys = 3
SPECIFICATION TopSpec
INVARIANT TopIsHeaviest
\* The program ends.
CHECK_DEADLOCK FALSE
