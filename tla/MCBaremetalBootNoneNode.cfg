CONSTANTS
  ShortPolls = 2
  LongPolls = 3
  CallbackRedeploys = FALSE
  CleanupDisassociates = TRUE
SPECIFICATION Spec
INVARIANT FailsWithStageTimeout
CHECK_DEADLOCK FALSE
