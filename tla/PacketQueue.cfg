SPECIFICATION FairSpec
CONSTANTS
  Limit = 2
  NoDecKeep = 1
  Gop = 3
  MaxPkt = 5
INVARIANTS InOrder SearchStillHolds
PROPERTIES GapOnlyBeforeIFrame PutReturns IFrameIsDecoded
