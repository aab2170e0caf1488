SPECIFICATION Spec
CONSTANTS
  Operations = {1, 2}
  Keys = {MATRIX_STACK_MSC3861}
  MarkerKey = MATRIX_STACK_MSC3861
  Unset = Unset
  BackoffLimit = 0
  MaxFaults = 0
  Failures = TRUE
  Timeouts = FALSE
  Rollbacks = FALSE
  Leftovers = FALSE
PROPERTY NoMasBeforeSyn2Mas
