SPECIFICATION Spec
CONSTANTS
  Clients = {c1, c2}
  Requests <- MCRequests
  Cards <- MCCards
  Options <- MCOptions
  Blocks <- MCBlocks
  StartCcbMax = 1
  MaxRequests <- MCMaxRequests
  MaxFaults = 1
  MaxTimers = 2
  HcPm = FALSE
  HcSleep = FALSE
  HcAcmd12 = FALSE
  SecSys = {"s0", "s1"}
  NcTicks = 2
  ImpTicks = 1
  Word = 16
  EraseGroup = 2
  FfuState = "denied"
SYMMETRY Symmetric
INVARIANTS  RequestFindsItsTarget NoLostWakeup
CHECK_DEADLOCK FALSE
