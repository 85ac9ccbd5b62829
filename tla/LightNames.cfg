SPECIFICATION FairSpec
CONSTANTS
  Light = {l1}
  Raw <- Typed
  Reset = ""
  Invalid = "refused"
  Normalize <- Trimmed
  Request = {r1, r2}
  LightNameMaxFuture = 1
  MaxTime = 2
  GatewayTime = {0, 2, 4}
  MaxRenames = 2
  MaxFaults = 1
PROPERTIES
  LaterNameWins
  Converges
CHECK_DEADLOCK FALSE
