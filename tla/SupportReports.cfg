SPECIFICATION FairSpec
CONSTANTS
  Report = {a}
  Handler = {h1}
  Instance = {i1, i2}
  Limit = 1
  MaxAttempts = 3
  MaxFaults = 2
  NoInstance = NoInstance
INVARIANTS
  OneIssue
PROPERTIES
  SettledIsFinal
  EventuallyFiled
  ClosedShows
