SPECIFICATION FairSpec
CONSTANTS
  Node = {a, b}
  a = a
  b = b
  Links <- MCLinks
  Limit = 2
  FieldMax = 4
  MaxFaults = 2
INVARIANTS SilenceIsNoticed
PROPERTIES DeafnessIsNoticed Heals
CHECK_DEADLOCK FALSE
