SPECIFICATION Spec
CONSTANTS
  Calls = {c1, c2, c3, c4}
  Before = c0
  Nobody = Nobody
  MaxAttempts = 2
SYMMETRY CallSymmetry
CONSTRAINT Bound
INVARIANTS SessionsAreListed StaleSessionsHaveAReason GuessesAreCounted NewestCodeCounts
CHECK_DEADLOCK FALSE
