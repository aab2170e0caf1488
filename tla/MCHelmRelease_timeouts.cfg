SPECIFICATION FairSpec
CONSTANTS
  Operations = {1, 2}
  Keys = {MATRIX_STACK_MSC3861}
  MarkerKey = MATRIX_STACK_MSC3861
  Unset = Unset
  BackoffLimit = 2
  MaxFaults = 2
  Failures = TRUE
  Timeouts = TRUE
  Rollbacks = TRUE
  Leftovers = TRUE
INVARIANT AccountsReachable
PROPERTIES OnlyPostRecords CheckHoldsAtSuccess RecordedAtSuccess OperationsEnd
