SPECIFICATION FairSpec
CONSTANTS
  Rows = {r1, r2, r3, r4, r5}
  MaxAttempts = 2
  MaxFaults = 2
  NoRow = NoRow
INVARIANTS ChainAlive ChainsBounded
PROPERTIES RunsForever
CHECK_DEADLOCK FALSE
