SPECIFICATION RFairSpec
CONSTANTS
  Workers = {w1, w2}
  Jobs = {0, 1, 2}
  TrackersCount = 3
  MaxJobs = 3
  MinWorkers = 0
  Main = Main
  NoJob = NoJob
  NoOwner = NoOwner
INVARIANTS RTypeOK RemainingExact ResolvedExactly NoUseAfterFree AbortAfterAllRan
PROPERTIES EndsUnlessStuck
CHECK_DEADLOCK FALSE
