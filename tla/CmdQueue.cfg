SPECIFICATION Spec
CONSTANTS
  MaxPut = 5
  CanClean = TRUE
INVARIANTS InOrderOnce HarmOnlyByRace
PROPERTY ImplementsFifo
CHECK_DEADLOCK FALSE
