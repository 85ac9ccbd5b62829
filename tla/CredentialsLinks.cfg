SPECIFICATION Spec
CONSTANTS
  Token = {t1, t2}
  Session = {s1}
  Request = {r1, r2}
  maxTokensPerAccountPerHour = 1
  MaxSessionsPerUser = 1
SYMMETRY Symmetry
INVARIANTS
  SingleUse
  LinksSuperseded
  OneLiveLink
  IssueLimit
  TemporaryPasswordLocks
CHECK_DEADLOCK FALSE
