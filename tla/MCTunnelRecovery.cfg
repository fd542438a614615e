SPECIFICATION FairSpec
CONSTANTS
  Lanes = {l1, l2}
  Conns = {c1, c2, c3}
  MaxFaults = 1
  MaxInFlight = 1
  None = None
INVARIANTS TypeOK Isolation
PROPERTIES Recovers
CHECK_DEADLOCK FALSE
