SPECIFICATION SettleSpec
CONSTANTS
  Texts <- MCTexts
  LongTexts = {"aa", "aaa"}
  WrappedTexts = {"aaa"}
  Cut <- MCCut
  Rest <- MCRest
  Empty = ""
  DefaultTag = "DefaultTag"
  UserTag = "user"
  OtherTags = {"fun"}
  LockBits = {"DS"}
  Platforms = {"cell"}
  InfoCalls = {"default"}
  Checksums = {0, 1}
  Written = {"a"}
INVARIANT ApplicationTagPersists
