SPECIFICATION Spec
CONSTANTS
  NumCpu = 3
  Ids <- MCIds
  Machines <- MCMachines
  QSlots = 8
  Claims <- MCClaims
  Cmds = {"tlb", "resched"}
  TheSpi = 32
  TheLpi = 8193
  MaxOps = 3
INVARIANTS OneCpuAtATime HandoverSound InterruptsArrive
CHECK_DEADLOCK FALSE
