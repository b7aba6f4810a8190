SPECIFICATION LiveSpec
CONSTANTS
  Calls = {c1, c2}
  Requests = {r1, r2}
  Nobody = Nobody
  MaxPlan = 1
  LastDay = 1
PROPERTIES
  LeaseIsFreed
  CallsReturn
CHECK_DEADLOCK FALSE
