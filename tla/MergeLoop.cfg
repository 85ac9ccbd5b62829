SPECIFICATION LoopSpec
CONSTANTS
  NLights = 1
  NShutters = 1
  Bit = {0, 1}
  Text = {"x"}
  Inputs <- ShortLists
  Starts <- LampStarts
INVARIANTS
  MergeIsLastIntent
  SameLamps
CHECK_DEADLOCK FALSE
