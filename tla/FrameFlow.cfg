SPECIFICATION FairSpec
CONSTANTS
  NFrame = 3
  MaxBits = 2
  QueueMax = 3
INVARIANTS OneOwner InOrder ShownIsDisplayed
PROPERTIES StopReturns PictureMoves
