SPECIFICATION FairSpec
CONSTANTS
  PreviewMax = 2
  FileMax = 3
  NearEndMax = 2
  PlayRange = 2
  NptMax = 1
  NearEnd = 1
  MaxQueue = 1
  Grace = 1
INVARIANTS NoSessionLeak PauseAgrees
PROPERTIES NoCallOfDestroyed ClosedForAReason CloseReturns CameraComesBack EndedIsClosed
