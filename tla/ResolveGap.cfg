SPECIFICATION RSpec
CONSTANTS
  Workers = {w1, w2}
  Jobs = {0, 1}
  TrackersCount = 2
  MaxJobs = 3
  MinWorkers = 0
  Main = Main
  NoJob = NoJob
  NoOwner = NoOwner
SYMMETRY WorkerSymmetry
INVARIANTS AllProcessedWhenIdle
CHECK_DEADLOCK FALSE
