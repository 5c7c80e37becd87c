SPECIFICATION SettleSpec
CONSTANTS
  Texts <- MCTexts
  LongTexts = {"aa", "aaa"}
  WrappedTexts = {"aaa"}
  Cut <- MCCut
  Rest <- MCRest
  Empty = ""
  DefaultTag = "DefaultTag"
  UserTag = "user"
  OtherTags = {"fun"}
  LockBits = {"DS"}
  Platforms = {"none", "cell", "file"}
  InfoCalls = {"default", "user"}
  Checksums = {0, 1, 2}
  Written = {"a", "aa"}
INVARIANTS TypeOK ReadsAsAcknowledged SavesAllTags LockIsObeyed
PROPERTIES BrokenOffIsNotAdopted SyncSettles
