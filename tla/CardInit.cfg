SPECIFICATION SlotSpec
CONSTANTS
  Hosts <- MCHosts
  Cards <- MCCards
  MaxOps = 3
  MaxFaults = 2
INVARIANTS HostAndCardAgree UsableIsReady SameCard
CHECK_DEADLOCK FALSE
