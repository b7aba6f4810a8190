SPECIFICATION Spec
CONSTANTS
  Calls = {c1, c2, c3}
  Requests = {r1, r2}
  Nobody = Nobody
  MaxPlan = 2
  LastDay = 2
SYMMETRY Symmetry
CONSTRAINT Bound
INVARIANTS
  NoRegeneration
  OutcomeFitsPlan
  SequenceIsPosition
  UserMessagesAreListed
  HistoryAgreesWithLedger
  LeaseNamesOpenBatch
  AnswersAreRecorded
PROPERTIES
  RepliesOnlyGrow
  EndedIsFinal
  ImplementsPromise
CHECK_DEADLOCK FALSE
