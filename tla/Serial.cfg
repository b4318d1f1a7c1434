SPECIFICATION Spec
CONSTANTS
  Cap = 2
  Trigger = 1
  Burst = 2
  MaxWrites = 3
  MaxRx = 2
  MaxStty = 1
  Settings <- MCSettings
INVARIANTS CharactersFlow  RateIsRight
CHECK_DEADLOCK FALSE
