SPECIFICATION FairSpec
CONSTANTS
  Rows = {r1, r2, r3}
  Clients = {c1, c2, c3}
  Modes = {"plain", "idempotent", "supersede", "debounce"}
  Manifests = {m1, m2}
  NoRow = NoRow
  NoClient = NoClient
  NoBody = NoBody
INVARIANTS ReplacedNotDropped IdempotentAgree
PROPERTIES WorkedRowSpared IdempotentSerialised EveryCallReturns
CHECK_DEADLOCK FALSE
