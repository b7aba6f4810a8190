SPECIFICATION GatewaySpec
CONSTANTS
  Attempts = {a1, a2}
  Requests = {r1, r2}
  Nobody = Nobody
  Limit = 1
  MaxPlan = 1
  LastDay = 3
  Overlap = FALSE
  LateScripts = FALSE
SYMMETRY Symmetry
CONSTRAINT Bound
INVARIANTS
  DeliveredIsCharged
  DeliveredWithinLimit
  ChargedForReplies
  HeldForOpenMessages
  ChargedToNeighboursOnce
CHECK_DEADLOCK FALSE
