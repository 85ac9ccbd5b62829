SPECIFICATION FairSpec
CONSTANTS
  Profile = {pf1}
  Gateway = {g1}
  Owner = {everyone, g2}
  Everyone = everyone
  Absent = absent
  Result = {"success", "partial"}
  Request = {q1, q2}
  syncConsecutiveFailureThreshold = 2
  MaxRuns = 2
  MaxEdits = 1
  MaxReports = 1
  MaxFaults = 1
INVARIANTS
  AlertRaised
  LastRunCovers
PROPERTIES
  NoLineLost
  FollowsLifeCycle
  EveryRunEnds
