SPECIFICATION TSpec
CONSTANTS
  MaxFd = 6
  FdLimit = 6
  FirstFd = 3
  TrackersCount = 1
  MaxTries = 2
  GarbageTries = {0}
  GarbageAges = {}
  HasCallback = TRUE
  ClockMayFail = FALSE
  MaxSends = 8
  MaxRx = 1
INVARIANTS IndexesPositive
CHECK_DEADLOCK FALSE
