SPECIFICATION Spec
CONSTANTS
  Operations = {1, 2, 3, 4}
  Keys = {MATRIX_STACK_MSC3861}
  MarkerKey = MATRIX_STACK_MSC3861
  Unset = Unset
  BackoffLimit = 1
  MaxFaults = 1
  Failures = TRUE
  Timeouts = FALSE
  Rollbacks = TRUE
  Leftovers = FALSE
INVARIANTS ReleaseTypeOK AccountsReachable DeployedIsTruthful
PROPERTIES NoSecondMigration ImplementsAuthMigration
