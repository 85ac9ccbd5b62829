SPECIFICATION Spec
CONSTANTS
  Guid = {g1, g2, g3}
  m1 = m1
  m2 = m2
  p1 = p1
  p2 = p2
  p3 = p3
  Machine = {m1}
  Poller = {p1, p2}
  MachineOf <- OneMachine
  Limit = 3
  MaxFailures = 1
SYMMETRY Symmetry
INVARIANTS
  NoCommandVanishes
  DeliveredOnce
  AckSettlesRun
  MergeKeepsOrder
PROPERTIES
  DoneIsFinal
CHECK_DEADLOCK FALSE
