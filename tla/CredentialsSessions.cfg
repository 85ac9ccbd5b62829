SPECIFICATION Spec
CONSTANTS
  Token = {t1}
  Session = {s1, s2}
  Request = {r1, r2}
  maxTokensPerAccountPerHour = 1
  MaxSessionsPerUser = 1
SYMMETRY Symmetry
INVARIANTS
  SessionsEndWithPassword
  SessionCap
CHECK_DEADLOCK FALSE
