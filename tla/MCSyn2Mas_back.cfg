SPECIFICATION Spec
CONSTANTS
  main = main  worker = worker
  Sets = {main, worker}
  Original <- OneAndOne
  MaxRetries = 1
  MaxErrors = 0
  MaxDisruptions = 0
  MaxRuns = 1
  CheckPod = FALSE
INVARIANT ScaledBackAtTheEnd
