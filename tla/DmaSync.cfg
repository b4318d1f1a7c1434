CONSTANTS
  Procs = {p1, p2}
  Channels = {c1, c2}
  None = None
  MaxUsers = 2
  MaxCrashes = 2
  Staggered = TRUE
  InitMayFail = TRUE
  IrqMayFail = TRUE
SPECIFICATION Spec
SYMMETRY Symmetric
INVARIANTS MutexExclusive EnableIsRight HeldIsOwned HolderIsInside
CHECK_DEADLOCK FALSE
