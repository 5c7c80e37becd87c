SPECIFICATION MCSpec
CONSTANTS
  CyclicType = TRUE
  OdLen = 2
  PdOutLens = {}
  PdOutLen = 0
  PdOutMax = 32
  FrameBufSize = 48
  Threshold = 3
  TRenLimits = {}
  PowerOnDelay = FALSE
  MinCycleTime = FALSE
  SilenceTicks = 1
  ClockMayBeZero = FALSE
  ModeSetters = FALSE
  MaxStat = 0
  Bytes <- MCBytes
  BufferSize = 256
  Info <- MCInfo
  Strings = {16}
  DefaultInfo = TRUE
  AppTag <- MCAppTag
  Stats <- MCStats
  QueueSize = 4
  AppCodes = {20752, 20768}
  Request <- ReadEvent
  Patience = 2
  MaxNoise = 3
  MaxAborts = 1
INVARIANTS CallsKeepTurn DeliveredInOrder OneLossPerAbort
PROPERTY EventsReachMaster
