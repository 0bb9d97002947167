SPECIFICATION Spec
INVARIANTS TypeOK RepeatPeriodFollowsWaitPeriod
PROPERTIES ImplementsKeyQueue FirstKeyWakesSleepers
SYMMETRY Symmetry
CONSTANTS
  BufferSize = 3
  WithRC6 = FALSE
  Codes = {k1, k2}
  Packets = {}
  NoKey = NoKey
  Readers = {r1}
  ReadCounts = {1, 2}
  WaitPeriods = {1, 2}
  KeyTables = {{k1, k2}}
  JiffiesSpan = 64
  MaxElapsed = 5
