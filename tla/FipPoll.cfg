SPECIFICATION FairSpec
INVARIANT PolledWhileOpen
PROPERTIES TimerExpiresDuringWait ReaderGetsKeys
CONSTANTS
  BufferSize = 2
  Keys = {k1, k2}
  NoKey = NoKey
  Procs = {p1}
  ReadCounts = {1, 2}
  WaitPeriod = 2
  PollPeriod = 2
