SPECIFICATION MCSpec
CONSTANTS
  Bytes <- MCBytes
  BufferSize = 256
  Info <- MCInfo
  Strings = {16}
  DefaultInfo = TRUE
  AppTag <- MCAppTag
  Stats <- MCStats
  EventCodes = {6145}
  QueueSize = 1
INVARIANTS TypeOK BufferFits ResponseFits RequestIsWhole ResponseIsWhole
