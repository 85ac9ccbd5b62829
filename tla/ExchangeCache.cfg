SPECIFICATION FairSpec
CONSTANTS
  Key = {1, 2, 3, 4, 5, 6, 7, 8}
  Value = {0, 1, 2}
  Unknown = unknown
  Factory <- Zeros
  SlotCount = 2
  ParamCount = 2
  Scenario1Base = 1
  OffsetEfface = 1
  Trigger = 6
  Alarm = 7
  Timers = {5}
  MaxFirmwareParamsPerAction = 1
  Definitions <- Bodies
  Batches <- Lists
  Minutes = {1}
  AtHome <- Home
  Pushed = {{3}, {4}}
  Groups <- PollGroups
  Request = {q1}
  Gateway = gw
  MaxOrders = 1
  MaxChanges = 1
  MaxFaults = 1
INVARIANTS
  CacheBacked
PROPERTIES
  KeysNeverLost
  PushesPrevail
  PollsRecur
