SPECIFICATION Spec
INVARIANT NeverAddsPendingTimer
CONSTANTS
  BufferSize = 2
  Keys = {k1}
  NoKey = NoKey
  Procs = {p1, p2}
  ReadCounts = {1}
  WaitPeriod = 2
  PollPeriod = 2
