SPECIFICATION FairSpec
PROPERTIES PacketTailInOrder ReadReturns
CONSTANTS
  BufferSize = 6
  WithRC6 = TRUE
  Codes = {}
  Packets = {d1}
  NoKey = NoKey
  Readers = {r1}
  ReadCounts = {1, 2}
  WaitPeriods = {1}
  KeyTables = {}
  JiffiesSpan = 32
  MaxElapsed = 1
