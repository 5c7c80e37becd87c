SPECIFICATION QuietSpec
CONSTANTS
  Bytes <- QuietBytes
  BufferSize = 256
  Info <- QuietInfo
  Strings = {16}
  DefaultInfo = TRUE
  AppTag <- QuietAppTag
  Stats <- QuietStats
  EventCodes = {}
  QueueSize = 1
PROPERTY QuietEndsInIdle
