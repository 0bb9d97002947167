SPECIFICATION FairSpec
INVARIANTS TypeOK ReadyMeansActivated NoSleepWithBytes WriteOnItsWay
PROPERTY CardBecomesReady
CONSTANTS
  Cards <- MCCards
  NoCard = NoCard
  Modes = {TRUE}
  RdSize = 2
  WrSize = 3
  FifoSize = 1
