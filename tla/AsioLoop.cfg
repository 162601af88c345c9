SPECIFICATION ACFairSpec
CONSTANTS
  MaxFd = 6
  FdLimit = 7
  FirstFd = 3
  MaxOpens = 4
INVARIANTS ACTypeOK TablesAgree WatchedIffOpen
PROPERTIES OncePerSweep SkippedWereMoved ReadyServed
CHECK_DEADLOCK FALSE
