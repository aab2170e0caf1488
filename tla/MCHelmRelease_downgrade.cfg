SPECIFICATION Spec
CONSTANTS
  Operations = {1, 2}
  Keys = {MATRIX_STACK_MSC3861}
  MarkerKey = MATRIX_STACK_MSC3861
  Unset = Unset
  BackoffLimit = 0
  MaxFaults = 0
  Failures = FALSE
  Timeouts = TRUE
  Rollbacks = FALSE
  Leftovers = FALSE
PROPERTY NoDowngrade
