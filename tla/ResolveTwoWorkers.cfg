SPECIFICATION RFairSpec
CONSTANTS
  Workers = {w1, w2}
  Jobs = {0, 1}
  TrackersCount = 2
  MaxJobs = 3
  MinWorkers = 1
  Main = Main
  NoJob = NoJob
  NoOwner = NoOwner
PROPERTIES ResolveEnds
CHECK_DEADLOCK FALSE
