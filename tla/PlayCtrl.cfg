SPECIFICATION FairSpec
CONSTANTS
  NGroup = 3
  NPos = 2
  VideoNum = 3
  UiGroup <- MCUiGroup
  UiPos <- MCUiPos
  Point = {"door", "pecu", "fire", "fire2"}
  PointCam <- MCPointCam
  AlarmState <- MCAlarmState
  MaxOdd = 1
INVARIANTS NoMediaLeak HandlesFollowIndexes OneLayerDraws TimersArmedOnce
PROPERTIES AlarmNotOverridden AlarmShownUnlessStylePending CycleReachesEveryCamera
