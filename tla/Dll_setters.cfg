SPECIFICATION Spec
CONSTANTS
  CyclicType = TRUE
  OdLen = 1
  PdOutLens = {0, 33}
  PdOutLen = 1
  PdOutMax = 32
  FrameBufSize = 48
  Threshold = 3
  TRenLimits = {0, 500}
  PowerOnDelay = TRUE
  MinCycleTime = TRUE
  SilenceTicks = 1
  ClockMayBeZero = TRUE
  ModeSetters = TRUE
  MaxStat = 0
INVARIANTS TypeOK FrameFits LongFrameIsHandled
