CONSTANTS
  MaxLen = 3
  Cap = 2
  Wirings = {"own", "shared"}
  Late = TRUE
SPECIFICATION FairSpec
INVARIANTS CallIsOwn
PROPERTIES CallReturns
