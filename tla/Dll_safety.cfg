SPECIFICATION FairStreakSpec
CONSTANTS
  CyclicType = TRUE
  OdLen = 1
  PdOutLens = {}
  PdOutLen = 1
  PdOutMax = 32
  FrameBufSize = 48
  Threshold = 3
  TRenLimits = {}
  PowerOnDelay = FALSE
  MinCycleTime = TRUE
  SilenceTicks = 1
  ClockMayBeZero = FALSE
  ModeSetters = FALSE
  MaxStat = 1
INVARIANTS LongFrameIsCyclic OperateIsCyclic SioAboveComOneIsFresh ErrorAccounting PartialFrameIsTimed
PROPERTIES LeavingSdciIsClean OperateFallbacksAreConsecutive SilenceEndsInSio
