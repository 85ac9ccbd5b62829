SPECIFICATION Spec
CONSTANTS
  NLights = 1
  NShutters = 1
  Bit = {0, 1}
  Text = {"x"}
  OtherIndex = {100, 101}
  MaxFirmwareParamsPerAction = 7
  Batches <- AllBatches
  MaxQueue = 3
INVARIANTS
  SameEffect
  FitsFirmware
  CutsOnlyOnRequestUnlessSplit
CHECK_DEADLOCK FALSE
