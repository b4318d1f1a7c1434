CONSTANTS
  Lengths <- Equal
  Cap = 4
  FifoLen = 2
  Ops = {"pio", "dma"}
  Late = TRUE
SPECIFICATION FairSpec
INVARIANTS OkWithoutStalePost CallsLeaveNothing
PROPERTIES XferSucceeds
