SPECIFICATION GatewaySpec
CONSTANTS
  Attempts = {a1, a2, a3}
  Requests = {r1, r2}
  Nobody = Nobody
  Limit = 1
  MaxPlan = 1
  LastDay = 1
  Overlap = TRUE
  LateScripts = TRUE
SYMMETRY Symmetry
CONSTRAINT Undisturbed
INVARIANTS
  DeliveredWithinLimit
CHECK_DEADLOCK FALSE
