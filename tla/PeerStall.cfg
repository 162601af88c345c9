SPECIFICATION PFairSpec
CONSTANTS
  MaxFd = 7
  FdLimit = 7
  FirstFd = 3
  NoPeer = NoPeer
  p1 = p1
  p2 = p2
  p3 = p3
  p4 = p4
  Peers = {p1, p2, p3, p4}
  SetupBatch <- Two
  Batches <- NoTrackers
  PiecesCount = 8
  Lengths = {16384, 16385, 4194303, 4194304}
  ZeroHash = FALSE
  Kinds = {"other"}
  MaxMessages = 2
  MaxRx = 2
  MaxCuts = 0
PROPERTIES DataIsRead
CHECK_DEADLOCK FALSE
