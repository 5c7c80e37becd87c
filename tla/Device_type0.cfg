SPECIFICATION MCSpec
CONSTANTS
  CyclicType = FALSE
  OdLen = 1
  PdOutLens = {}
  PdOutLen = 0
  PdOutMax = 32
  FrameBufSize = 48
  Threshold = 3
  TRenLimits = {}
  PowerOnDelay = FALSE
  MinCycleTime = FALSE
  SilenceTicks = 1
  ClockMayBeZero = FALSE
  ModeSetters = FALSE
  MaxStat = 0
  Bytes <- MCBytes
  BufferSize = 256
  Info <- MCInfo
  Strings = {16}
  DefaultInfo = TRUE
  AppTag <- MCAppTag
  Stats <- MCStats
  QueueSize = 1
  AppCodes = {}
  Request <- WriteTag
  Patience = 2
  MaxNoise = 0
  MaxAborts = 0
PROPERTY WriteIsExecuted
