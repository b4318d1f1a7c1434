CONSTANTS
  Io = {driver, other}
  Driver = driver
  MaxCards = 3
  CdModes = {"intr", "poll"}
  Cmdlines <- MCCmdlines
  Targets = {0, 1}
SPECIFICATION ConnectSpec
INVARIANTS HandlesSound NothingLeft
PROPERTIES PresenceSettles ConnectionSettles
CHECK_DEADLOCK FALSE
