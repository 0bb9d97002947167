SPECIFICATION FairSpec
INVARIANTS SegmentsInOrder
PROPERTIES RequestEnds
CONSTANTS
  Ifaces = {"dvd"}
  None = "none"
  MaxSegs = 3
  Cdrom = TRUE
