SPECIFICATION PSpec
CONSTANTS
  MaxFd = 7
  FdLimit = 8
  FirstFd = 3
  NoPeer = NoPeer
  p1 = p1
  p2 = p2
  p3 = p3
  p4 = p4
  Peers = {p1, p2, p3, p4}
  SetupBatch <- One
  Batches <- OneTracker
  PiecesCount = 16
  Lengths = {16384, 16385, 4194303, 4194304}
  ZeroHash = FALSE
  Kinds = {"choke", "unchoke", "bitfield", "keepalive"}
  MaxMessages = 3
  MaxRx = 2
  MaxCuts = 1
INVARIANTS PTypeOK SlotsDense PointersRightUnlessMoved OnlyFailedAddsLeak ChokeRespected AskedForPieces
CHECK_DEADLOCK FALSE
