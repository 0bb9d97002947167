SPECIFICATION Spec
INVARIANTS MovesCount SectorsNeverBug LoopInv
CHECK_DEADLOCK FALSE
CONSTANTS
  LinearMax = 8191
  Counts <- MCCounts
