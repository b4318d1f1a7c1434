CONSTANTS
  Kinds <- AllKinds
  HcCaps = {"ACMD12", "ACMD23"}
  MaxRetries = 1
  MaxPolls = 2
  IdMod = 3
  LateAnswers = FALSE
  Removal = TRUE
SPECIFICATION FairSpec
INVARIANTS CompletionIsOwn CommandsAccounted CapsFollowCommand
PROPERTIES SendReturns
