SPECIFICATION Spec
INVARIANTS TypeOK NeverOutOfDescriptors TxWindow NeverDeaf
PROPERTIES TxImplementsFifo RxImplementsFifo
CONSTANTS
  TxCount = 2
  TxLow = 1
  RxCount = 2
  Weight = 2
  Frames = {f1, f2}
  None = None
