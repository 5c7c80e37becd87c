SPECIFICATION RecoverySpec
CONSTANTS
  CyclicType = TRUE
  OdLen = 1
  PdOutLens = {1}
  PdOutLen = 1
  PdOutMax = 32
  FrameBufSize = 48
  Threshold = 3
  TRenLimits = {}
  PowerOnDelay = FALSE
  MinCycleTime = FALSE
  SilenceTicks = 1
  ClockMayBeZero = FALSE
  ModeSetters = FALSE
  MaxStat = 0
  MaxNoise = 3
PROPERTY RecoversToOperate
