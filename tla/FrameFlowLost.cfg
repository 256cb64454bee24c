SPECIFICATION Spec
CONSTANTS
  NFrame = 3
  MaxBits = 2
  QueueMax = 3
INVARIANT UnshownIsReleased
