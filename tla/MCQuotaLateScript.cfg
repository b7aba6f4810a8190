SPECIFICATION GatewaySpec
CONSTANTS
  Attempts = {a1, a2}
  Requests = {r1}
  Nobody = Nobody
  Limit = 1
  MaxPlan = 1
  LastDay = 3
  Overlap = FALSE
  LateScripts = TRUE
SYMMETRY Symmetry
INVARIANTS
  ChargedToNeighboursOnce
CHECK_DEADLOCK FALSE
