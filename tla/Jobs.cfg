\* One job of every tool, with a cancel, a reader and Host.stop.
SPECIFICATION LiveSpec
CONSTANTS
  Jobs = {j1}
  Tools = {"cook", "look", "render", "press"}
  Keep = 1
  Total = 2
  Polled = {j1}
  Unwanted = {j1}
  MayStop = TRUE
INVARIANTS
  AnswerIsOutcome
  DoneIsComplete
PROPERTIES
  EveryCallIsAnswered
  JobsEnd
