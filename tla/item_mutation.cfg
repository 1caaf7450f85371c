SPECIFICATION FairSpec
CONSTANTS
  Procs = {p1, p2}
  Ops = {o1, o2}
  Gens = {g1, g2}
  MaxCrashes = 2
  MaxErrors = 1
  NoOp = NoOp
  NoGen = NoGen
  NoProc = NoProc
INVARIANTS ProjectionCurrent PreimageArchived
PROPERTIES FailedNotCanonical RefinesRegister ReceiptImmutable IntentSettled
CHECK_DEADLOCK FALSE
