CONSTANTS
  Producers = {p1, p2}
  Readers = {r1}
  PdInMax = 2
  PdOutMax = 2
  PdInLen = 1
  PdOutLen = 2
  UpdateLens = {1, 2, 3}
  ReadLens = {1, 3}
  WireLens = {1, 2, 3}
  MaxUpdates = 2
  MaxFrames = 2
SPECIFICATION Spec
INVARIANTS TypeOK CopiesFit RestingInputIsSerial ResponseIsRecent ReadMixesNoThirdFrame
