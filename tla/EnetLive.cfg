SPECIFICATION FairSpec
PROPERTIES QueueWoken CloseReturns PolledFramesDelivered
CONSTANTS
  TxCount = 2
  TxLow = 1
  RxCount = 2
  Weight = 1
  Frames = {f1}
  None = None
