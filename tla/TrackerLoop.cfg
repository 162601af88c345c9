SPECIFICATION TFairSpec
CONSTANTS
  MaxFd = 6
  FdLimit = 6
  FirstFd = 3
  TrackersCount = 3
  MaxTries = 2
  GarbageTries = {0, 2, 3}
  GarbageAges = {1, 257}
  HasCallback = TRUE
  ClockMayFail = TRUE
  MaxSends = 8
  MaxRx = 1
INVARIANTS TTypeOK SocketsMatchTrackers OnlyKnownAborts RequestPattern PeersFromLastAnnounce
PROPERTIES AllReleased
CHECK_DEADLOCK FALSE
