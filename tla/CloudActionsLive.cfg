SPECIFICATION FairSpec
CONSTANTS
  Guid = {g1, g2}
  m1 = m1
  m2 = m2
  p1 = p1
  p2 = p2
  p3 = p3
  Machine = {m1, m2}
  Poller = {p1, p2, p3}
  MachineOf <- TwoMachines
  Limit = 1
  MaxFailures = 1
INVARIANTS
  ReceivedInOrder
PROPERTY EveryCommandAnswered
CHECK_DEADLOCK FALSE
