CONSTANTS
  Attempts = {a1, a2, a3}
  Requests = {r1, r2}
  Limit = 1
  LastDay = 3
SPECIFICATION Spec
SYMMETRY Symmetry
CHECK_DEADLOCK FALSE
INVARIANTS LedgerAddsUp SnapshotsAgree
PROPERTIES DeliveredIsFinal
