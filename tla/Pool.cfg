SPECIFICATION FairSpec
CONSTANTS
  Workers = {w1, w2}
  Jobs = {j1, j2, j3}
  MaxJobs = 3
  MinWorkers = 1
  Main = Main
  NoJob = NoJob
  NoOwner = NoOwner
INVARIANTS TypeOK CountersExact OnlyCapacityAborts LeakedLockHidesNoJob IInv
PROPERTIES ImplementsJobPool FalseOnlyInGap EveryJobRuns
CHECK_DEADLOCK FALSE
