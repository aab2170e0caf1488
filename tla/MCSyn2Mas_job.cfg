SPECIFICATION MCSpec
CONSTANTS
  main = main  worker = worker
  Sets = {main, worker}
  Original <- OneAndOne
  MaxRetries = 1
  MaxErrors = 1
  MaxDisruptions = 1
  MaxRuns = 2
  CheckPod = TRUE
INVARIANTS TypeOK QuietWhileMigrating RestoredUnlessRefused
PROPERTY JobEnds
