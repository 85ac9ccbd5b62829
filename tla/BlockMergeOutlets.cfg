SPECIFICATION Spec
CONSTANTS
  NLights = 1
  NShutters = 1
  Bit = {0, 1}
  Text = {}
  OtherIndex = {100, 101}
  MaxFirmwareParamsPerAction = 7
  Batches <- OnlyLong
  MaxQueue = 3
INVARIANT CutsOnlyOnRequest
CHECK_DEADLOCK FALSE
