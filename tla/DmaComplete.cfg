CONSTANTS
  MaxFrags = 3
  NumCbs = 2
  CountMod = 4
  MaxStarts = 2
  AttachModes <- CompleteModes
  RepeatModes = {TRUE, FALSE}
  Threaded = FALSE
  ReSetup = FALSE
  Coalesce = TRUE
  ReleaseBusy = FALSE
SPECIFICATION FairSpec
INVARIANTS TypeOK EngineImpliesBusy CompletionIsHonest
PROPERTIES TransfersEnd
