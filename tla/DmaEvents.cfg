CONSTANTS
  MaxFrags = 3
  NumCbs = 2
  CountMod = 4
  MaxStarts = 2
  AttachModes <- EventModes
  RepeatModes = {FALSE}
  Threaded = FALSE
  ReSetup = TRUE
  Coalesce = FALSE
  ReleaseBusy = FALSE
SPECIFICATION FairSpec
PROPERTIES ImplementsApi
