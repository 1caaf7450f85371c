SPECIFICATION Spec
CONSTANTS
  Workers = {w1, w2}
  Operators = {o1, o2}
  Auths = {a1, a2}
  Gens = {g1, g2}
  MaxCrashes = 1
  Free = Free
  NoAuth = NoAuth
  NoGen = NoGen
INVARIANTS EngagedNotSuperseded SentOnce OneUnresolved SucceededApplied
PROPERTIES RefinesLedger SettledStays
SYMMETRY Symmetry
CHECK_DEADLOCK FALSE
