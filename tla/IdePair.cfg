SPECIFICATION Spec
INVARIANTS TypeOK NothingHeldWhenIdle HandlerInTransfer
CONSTANTS
  Ifaces = {"dvd", "flash"}
  None = "none"
  MaxSegs = 3
  Cdrom = FALSE
