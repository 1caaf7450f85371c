SPECIFICATION Spec
CONSTANTS
  Rows = {r1, r2}
  Clients = {c1, c2}
  Modes = {"debounce"}
  Manifests = {}
  NoRow = NoRow
  NoClient = NoClient
  NoBody = NoBody
INVARIANTS NeverLost
CHECK_DEADLOCK FALSE
