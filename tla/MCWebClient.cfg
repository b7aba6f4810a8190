SPECIFICATION Spec
CONSTANTS
  Users = {u1, u2}
  Spaces = {s1, s2}
  FirstSpace = s1
  None = None
  Budgets <- MCBudgets
INVARIANTS
  ShownBelongsHere
  OneSubmissionPerSpace
  LockedForReason
  ShownIsCurrent
SYMMETRY Symmetry
CHECK_DEADLOCK FALSE
