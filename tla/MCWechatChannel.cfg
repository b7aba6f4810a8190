SPECIFICATION Spec
CONSTANTS
  Calls = {c1, c2, c3}
  Gateways = {g1, g2}
  None = None
  Messages = {m1, m2, m3}
  Margin = 2
  CopyTime = 2
  Transit = 1
  LastTime = 3
  Limit = 1
  Window = 2
  Budgets <- MCBudgets
SYMMETRY Symmetry
CONSTRAINT Bound
INVARIANTS
  RepliedOnce
  SilenceHasAReason
  MemoryWithinLife
  AtMostTwicePerWindow
  RefusedForReason
