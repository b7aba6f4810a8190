SPECIFICATION MaintenanceSpec
CONSTANTS
  Calls = {c1, c2}
  Requests = {r1, r2}
  Nobody = Nobody
  MaxPlan = 2
  LastDay = 2
  Runs = {m1, m2}
SYMMETRY Symmetry
CONSTRAINT Bound
INVARIANTS
  EndedBatchesAreKept
  ArchiveMatchesHistory
CHECK_DEADLOCK FALSE
