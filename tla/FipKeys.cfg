SPECIFICATION Spec
INVARIANTS TypeOK OneHolder
PROPERTY ImplementsKeyQueue
CONSTANTS
  BufferSize = 2
  Keys = {k1, k2}
  NoKey = NoKey
  Procs = {p1, p2}
  ReadCounts = {1, 2}
  WaitPeriod = 2
  PollPeriod = 2
