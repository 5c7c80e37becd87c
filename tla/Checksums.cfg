CONSTANTS
  FrameBytes = {{0, 1, 2, 3}, {0, 2, 4, 7}}
  StoreBytes = {0, 1, 128, 254, 255}
  LongLen = 7
  MaxFlips = 3
  ShortLen = 3
  StoreLen = 4
SPECIFICATION Spec
INVARIANTS AcceptedIsMultiple BurstsAreRefused PairsAre15Apart ChangeIsSeen
CHECK_DEADLOCK FALSE
