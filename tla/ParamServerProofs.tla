-------------------------- MODULE ParamServerProofs -------------------------
(***************************************************************************)
(* Parameters, locks and data storage for every set of texts, tags, locks, *)
(* checksums and ports, and for any number of failed writes and restarts.  *)
(*                                                                         *)
(* What is read, saved and obeyed rests on three facts that no property of *)
(* ParamServer states: the shadow always holds what the next record should *)
(* hold; a device info that was the writable one when iolink_params_init   *)
(* ran stays it until the next restart; and nothing survives a restart but *)
(* the record.  They are proved together with the types.                   *)
(***************************************************************************)
EXTENDS ParamServer, TLAPS

(* The shadow is what the next successful write stores.                    *)
ShadowIsMeant == g_nvm_shadow = meant

(* No text is so long that its length does not fit the uint8_t of          *)
(* iolink_device_info_set_application_tag.                                 *)
NoneWrapped == Written \cap WrappedTexts = {}

(* The application tag and the locks, as device_info.c keeps them.         *)
DeviceAgrees ==
  phase = "run" /\ known = "default" =>
    /\ g_device_info = "default"
    /\ NoneWrapped => g_app_tag_buffer = acked["app"]
    /\ access_locks = acked_locks

TagsAgree == phase = "run" => \A i \in OtherTags : g_nvm_shadow[i] = acked[i]

BootIsClear == phase = "boot" => access_locks = {} /\ acked_locks = {}

(* Only a download that is being followed is in a download state.          *)
DownloadIsFollowed == ds_state \in {"DOWNLOAD_REQ", "DOWNLOADING"} => transfer = "download"

ServerInv ==
  /\ TypeOK
  /\ ShadowIsMeant /\ DeviceAgrees /\ TagsAgree /\ BootIsClear
  /\ SavesAllTags /\ LockIsObeyed
  /\ DownloadIsFollowed

-----------------------------------------------------------------------------
(* Constants and operators *)

LEMMA TagFacts ==
  /\ "app" \in Tags /\ "app" \notin OtherTags /\ OtherTags \subseteq Tags
  /\ Blank \in [Tags -> Texts]
BY ParamsConstants DEF Tags, Blank

LEMMA NoRecordIsNone == NoRecord \notin [Tags -> Texts]
<1>1. DOMAIN NoRecord = {}
  BY DEF NoRecord
<1> QED BY <1>1, TagFacts

LEMMA TagTextType ==
  ASSUME NEW t \in Written
  PROVE  /\ TagText(t) \in Texts
         /\ t \notin LongTexts \ WrappedTexts => AppTagText(t) \in Texts
         /\ t \notin LongTexts => TagText(t) = AppTagText(t)
BY ParamsConstants, WrittenConstant DEF TagText, AppTagText

(* A record is a value for every tag, and is only there after a write.     *)
LEMMA NvmAfterIs ==
  ASSUME TypeOK, NEW record \in [Tags -> Texts], NEW saved \in BOOLEAN
  PROVE  /\ NvmAfter(record, saved) \in {NoRecord} \cup [Tags -> Texts]
         /\ ~saved => NvmAfter(record, saved) = nvm
         /\ saved /\ platform = "cell" => NvmAfter(record, saved) = record
BY DEF NvmAfter, TypeOK, ParamsTypeOK

-----------------------------------------------------------------------------
LEMMA InitServer == ServerInit => ServerInv
<1> SUFFICES ASSUME ServerInit PROVE ServerInv
  OBVIOUS
<1>1. TypeOK
  <2>1. ParamsTypeOK
    BY TagFacts, ParamsConstants DEF ServerInit, ParamsInit, ParamsTypeOK, Locks
  <2>2. DsTypeOK
    BY NoDataConstant DEF ServerInit, DsInit, DsCleared, DsTypeOK, DsStates
  <2>3. accepted \in BOOLEAN
    BY Zenon DEF ServerInit
  <2> QED BY <2>1, <2>2, <2>3, TagFacts DEF ServerInit, TypeOK, Locks
<1>2. ShadowIsMeant /\ DeviceAgrees /\ TagsAgree /\ BootIsClear /\ SavesAllTags /\ LockIsObeyed
  BY DEF ServerInit, ParamsInit, ShadowIsMeant, DeviceAgrees, TagsAgree, BootIsClear,
     SavesAllTags, LockIsObeyed
<1>3. DownloadIsFollowed
  BY DEF ServerInit, DsInit, DsCleared, DownloadIsFollowed
<1> QED BY <1>1, <1>2, <1>3 DEF ServerInv

(* What the steps on the parameters leave of data storage.                 *)
LEMMA ParamsOnlyKeeps ==
  ASSUME ServerInv, ParamsOnly
  PROVE  /\ DsTypeOK' /\ DownloadIsFollowed' /\ LockIsObeyed'
         /\ transfer' \in {"none", "download"} /\ accepted' \in BOOLEAN
<1>1. accepted' = FALSE /\ UNCHANGED <<ds_state, current_checksum, master_checksum, ds_ret, transfer>>
  BY DEF ParamsOnly, dsVars
<1>2. accepted' \in BOOLEAN
  BY <1>1, Zenon
<1> QED BY <1>1, <1>2 DEF ServerInv, TypeOK, DsTypeOK, DownloadIsFollowed, LockIsObeyed

LEMMA InfoInitStep ==
  ASSUME ServerInv, InfoInit PROVE ServerInv'
<1>1. PICK info \in InfoCalls : device_info_init(info)
  BY DEF InfoInit
<1>2. /\ phase = "boot" /\ g_device_info' = info /\ info \in {"default", "user"}
      /\ UNCHANGED <<phase, g_app_tag_buffer, access_locks, g_nvm_shadow, nvm, platform,
                     acked, acked_locks, meant, durable, known>>
  BY <1>1, ParamsConstants DEF device_info_init, InfoInit, history
<1>3. TypeOK'
  BY <1>2, ParamsOnlyKeeps DEF InfoInit, ServerInv, TypeOK, ParamsTypeOK
<1> QED BY <1>2, <1>3, ParamsOnlyKeeps DEF InfoInit, ServerInv, ShadowIsMeant, DeviceAgrees,
        TagsAgree, BootIsClear, SavesAllTags

(* iolink_params_init: the shadow is the record, or what it is set to when *)
(* there is none; a writable device info takes the stored tag over.        *)
LEMMA StartStep ==
  ASSUME ServerInv, Start PROVE ServerInv'
<1>1. PICK read_ok \in BOOLEAN :
        params_init(read_ok) /\ acked' = IF read_ok THEN nvm ELSE g_nvm_shadow'
  BY DEF Start
<1>2. /\ phase = "boot" /\ phase' = "run" /\ meant' = acked' /\ known' = g_device_info'
      /\ UNCHANGED <<access_locks, nvm, platform, acked_locks, durable>>
  BY <1>1 DEF Start, params_init
<1>3. /\ g_nvm_shadow' \in [Tags -> Texts] /\ acked' = g_nvm_shadow'
      /\ g_app_tag_buffer' \in Texts /\ g_device_info' \in {"null", "default", "user"}
      /\ g_device_info' = "default" => g_app_tag_buffer' = acked'["app"]
  <2>1. CASE read_ok
    <3>1. /\ nvm \in [Tags -> Texts] /\ g_nvm_shadow' = nvm /\ acked' = nvm
          /\ g_app_tag_buffer' = IF AppTagRefused(g_device_info, nvm["app"])
                                 THEN g_app_tag_buffer ELSE nvm["app"]
          /\ g_device_info' = g_device_info
      BY <1>1, <2>1 DEF params_init, ServerInv, TypeOK, ParamsTypeOK
    <3>2. nvm["app"] \in Texts /\ nvm["app"] \notin LongTexts
      BY <3>1, TagFacts, ParamsConstants
    <3> QED BY <3>1, <3>2 DEF AppTagRefused, ServerInv, TypeOK, ParamsTypeOK
  <2>2. CASE ~read_ok
    <3>1. /\ g_device_info' = Resolved /\ g_app_tag_buffer' = g_app_tag_buffer
          /\ g_nvm_shadow' = [Blank EXCEPT !["app"] = DeviceAppTag(Resolved)]
          /\ acked' = g_nvm_shadow'
      BY <1>1, <2>2 DEF params_init
    <3>2. DeviceAppTag(Resolved) \in Texts /\ Resolved \in {"default", "user"}
          /\ g_app_tag_buffer \in Texts
      BY ParamsConstants DEF ServerInv, TypeOK, ParamsTypeOK, DeviceAppTag, Resolved
    <3>3. g_nvm_shadow' \in [Tags -> Texts] /\ g_nvm_shadow'["app"] = DeviceAppTag(Resolved)
      BY <3>1, <3>2, TagFacts
    <3>4. Resolved = "default" => DeviceAppTag(Resolved) = g_app_tag_buffer
      BY DEF DeviceAppTag
    <3> QED BY <3>1, <3>2, <3>3, <3>4
  <2> QED BY <2>1, <2>2
<1>4. TypeOK'
  BY <1>2, <1>3, ParamsOnlyKeeps DEF Start, ServerInv, TypeOK, ParamsTypeOK
<1>5. ShadowIsMeant' /\ TagsAgree' /\ BootIsClear' /\ SavesAllTags'
  BY <1>2, <1>3 DEF ServerInv, ShadowIsMeant, TagsAgree, BootIsClear, SavesAllTags
<1>6. DeviceAgrees'
  BY <1>2, <1>3 DEF ServerInv, BootIsClear, DeviceAgrees
<1> QED BY <1>4, <1>5, <1>6, ParamsOnlyKeeps DEF Start, ServerInv

(* iolink_params_set, whoever calls it: the shadow and what is meant to be *)
(* stored change together, and the record only becomes the whole shadow.   *)
LEMMA SetTagStep ==
  ASSUME ServerInv, NEW info \in {Resolved, g_device_info}, NEW i \in Tags, NEW t \in Written,
         NEW persist \in BOOLEAN, NEW saved \in BOOLEAN, SetTag(info, i, t, persist, saved)
  PROVE  ServerInv'
<1>1. /\ phase = "run" /\ g_device_info' = info
      /\ UNCHANGED <<phase, access_locks, platform, acked_locks, known>>
  BY DEF SetTag, params_set
<1>2. /\ info \in {"null", "default", "user"}
      /\ known = "default" => info = "default"
  BY <1>1 DEF ServerInv, TypeOK, ParamsTypeOK, DeviceAgrees, Resolved
<1>3. CASE i = "app" /\ AppTagRefused(info, t)
  <2>1. UNCHANGED <<g_app_tag_buffer, g_nvm_shadow, nvm, acked, meant, durable>>
    BY <1>3 DEF SetTag, params_set
  <2>2. TypeOK'
    BY <1>1, <1>2, <2>1, ParamsOnlyKeeps DEF SetTag, ServerInv, TypeOK, ParamsTypeOK
  <2> QED BY <1>1, <1>2, <2>1, <2>2, ParamsOnlyKeeps DEF SetTag, ServerInv, ShadowIsMeant,
          DeviceAgrees, TagsAgree, BootIsClear, SavesAllTags
<1>4. CASE ~(i = "app" /\ AppTagRefused(info, t))
  <2>1. /\ g_app_tag_buffer' = IF i = "app" THEN AppTagText(t) ELSE g_app_tag_buffer
        /\ g_nvm_shadow' = IF i = "app" /\ ~persist THEN g_nvm_shadow
                           ELSE [g_nvm_shadow EXCEPT ![i] = TagText(t)]
        /\ nvm' = NvmAfter(g_nvm_shadow', saved)
        /\ acked' = [acked EXCEPT ![i] = TagText(t)]
        /\ meant' = IF i = "app" /\ ~persist THEN meant ELSE [meant EXCEPT ![i] = TagText(t)]
        /\ durable' = IF saved /\ platform = "cell" THEN meant' ELSE durable
    BY <1>4 DEF SetTag, params_set
  <2>2. /\ TagText(t) \in Texts
        /\ i = "app" => AppTagText(t) \in Texts
        /\ i = "app" /\ NoneWrapped => TagText(t) = AppTagText(t)
    BY <1>4, TagTextType DEF AppTagRefused, NoneWrapped
  <2>3. /\ g_nvm_shadow' \in [Tags -> Texts] /\ acked' \in [Tags -> Texts]
        /\ meant' \in [Tags -> Texts] /\ durable' \in [Tags -> Texts]
        /\ g_app_tag_buffer' \in Texts
    BY <2>1, <2>2 DEF ServerInv, TypeOK, ParamsTypeOK
  <2>4. /\ nvm' \in {NoRecord} \cup [Tags -> Texts]
        /\ ~saved => nvm' = nvm
        /\ saved /\ platform = "cell" => nvm' = g_nvm_shadow'
    BY <2>1, <2>3, NvmAfterIs DEF ServerInv
  <2>5. TypeOK'
    BY <1>1, <1>2, <2>3, <2>4, ParamsOnlyKeeps DEF SetTag, ServerInv, TypeOK, ParamsTypeOK
  <2>6. ShadowIsMeant'
    BY <2>1 DEF ServerInv, ShadowIsMeant
  <2>7. SavesAllTags'
    BY <1>1, <2>1, <2>4, <2>6 DEF ServerInv, SavesAllTags, ShadowIsMeant
  <2>8. TagsAgree'
    <3> SUFFICES ASSUME NEW j \in OtherTags PROVE g_nvm_shadow'[j] = acked'[j]
      BY DEF TagsAgree
    <3>1. j \in Tags /\ j # "app" /\ g_nvm_shadow[j] = acked[j]
      BY <1>1, TagFacts DEF ServerInv, TagsAgree
    <3> QED BY <2>1, <3>1 DEF ServerInv, TypeOK, ParamsTypeOK
  <2>9. DeviceAgrees'
    <3>1. acked'["app"] = IF i = "app" THEN TagText(t) ELSE acked["app"]
      BY <2>1, <2>2, TagFacts DEF ServerInv, TypeOK
    <3> QED BY <1>1, <1>2, <2>1, <2>2, <3>1 DEF ServerInv, DeviceAgrees
  <2>10. BootIsClear'
    BY <1>1 DEF BootIsClear
  <2> QED BY <2>5, <2>6, <2>7, <2>8, <2>9, <2>10, ParamsOnlyKeeps DEF SetTag, ServerInv
<1> QED BY <1>3, <1>4

(* A pointer that is resolved, and nothing else of the parameters.         *)
LEMMA LookKeeps ==
  ASSUME ServerInv, Look, UNCHANGED history
  PROVE  /\ ParamsTypeOK' /\ acked_locks' = acked_locks /\ known' = known
         /\ ShadowIsMeant' /\ DeviceAgrees' /\ TagsAgree' /\ BootIsClear' /\ SavesAllTags'
         /\ acked' \in [Tags -> Texts] /\ meant' \in [Tags -> Texts] /\ durable' \in [Tags -> Texts]
<1>1. /\ phase = "run" /\ g_device_info' = Resolved
      /\ UNCHANGED <<phase, g_app_tag_buffer, access_locks, g_nvm_shadow, nvm, platform,
                     acked, acked_locks, meant, durable, known>>
  BY DEF Look, history
<1>2. Resolved \in {"default", "user"} /\ (g_device_info = "default" => Resolved = "default")
  BY DEF ServerInv, TypeOK, ParamsTypeOK, Resolved
<1> QED BY <1>1, <1>2 DEF ServerInv, TypeOK, ParamsTypeOK, ShadowIsMeant, DeviceAgrees, TagsAgree,
        BootIsClear, SavesAllTags

LEMMA ReadStep ==
  ASSUME ServerInv, Read PROVE ServerInv'
<1>1. TypeOK'
  BY LookKeeps, ParamsOnlyKeeps DEF Read, ServerInv, TypeOK
<1> QED BY <1>1, LookKeeps, ParamsOnlyKeeps DEF Read, ServerInv

LEMMA WriteLocksStep ==
  ASSUME ServerInv, WriteLocks PROVE ServerInv'
<1>1. PICK locks \in Locks : set_access_locks(locks) /\ acked_locks' = locks
  BY DEF WriteLocks
<1>2. /\ phase = "run"
      /\ access_locks' = IF g_device_info = "default" THEN locks ELSE access_locks
      /\ UNCHANGED <<phase, g_device_info, g_app_tag_buffer, g_nvm_shadow, nvm, platform,
                     acked, meant, durable, known>>
  BY <1>1 DEF set_access_locks, WriteLocks
<1>3. TypeOK'
  BY <1>1, <1>2, ParamsOnlyKeeps DEF WriteLocks, ServerInv, TypeOK, ParamsTypeOK
<1> QED BY <1>1, <1>2, <1>3, ParamsOnlyKeeps DEF WriteLocks, ServerInv, ShadowIsMeant,
        DeviceAgrees, TagsAgree, BootIsClear, SavesAllTags

LEMMA WriteLocksShortStep ==
  ASSUME ServerInv, WriteLocksShort PROVE ServerInv'
<1>1. UNCHANGED <<phase, g_device_info, g_app_tag_buffer, access_locks, g_nvm_shadow, nvm,
                  platform, acked, acked_locks, meant, durable, known>>
  BY DEF WriteLocksShort, paramVars, history
<1>2. TypeOK'
  BY <1>1, ParamsOnlyKeeps DEF WriteLocksShort, ServerInv, TypeOK, ParamsTypeOK
<1> QED BY <1>1, <1>2, ParamsOnlyKeeps DEF WriteLocksShort, ServerInv, ShadowIsMeant,
        DeviceAgrees, TagsAgree, BootIsClear, SavesAllTags

LEMMA ResetStep ==
  ASSUME ServerInv, Reset PROVE ServerInv'
<1>1. PICK saved \in BOOLEAN :
        /\ factory_reset(saved)
        /\ durable' = IF saved /\ platform = "cell" THEN Blank ELSE durable
  BY DEF Reset
<1>2. /\ phase = "run" /\ g_nvm_shadow' = Blank /\ acked' = Blank /\ meant' = Blank
      /\ g_app_tag_buffer' = IF AppTagRefused(g_device_info, Empty) THEN g_app_tag_buffer ELSE Empty
      /\ nvm' = NvmAfter(Blank, saved)
      /\ UNCHANGED <<phase, g_device_info, access_locks, platform, acked_locks, known>>
  BY <1>1 DEF factory_reset, Reset
<1>3. /\ nvm' \in {NoRecord} \cup [Tags -> Texts]
      /\ ~saved => nvm' = nvm
      /\ saved /\ platform = "cell" => nvm' = Blank
  BY <1>2, NvmAfterIs, TagFacts DEF ServerInv
<1>4. Empty \in Texts /\ Empty \notin LongTexts /\ Blank["app"] = Empty
  BY ParamsConstants, TagFacts DEF Blank
<1>5. TypeOK'
  BY <1>1, <1>2, <1>3, <1>4, TagFacts, ParamsOnlyKeeps DEF Reset, ServerInv, TypeOK, ParamsTypeOK
<1>6. ShadowIsMeant' /\ TagsAgree' /\ BootIsClear' /\ SavesAllTags'
  BY <1>1, <1>2, <1>3 DEF ServerInv, ShadowIsMeant, TagsAgree, BootIsClear, SavesAllTags
<1>7. DeviceAgrees'
  BY <1>2, <1>4 DEF ServerInv, DeviceAgrees, AppTagRefused
<1> QED BY <1>5, <1>6, <1>7, ParamsOnlyKeeps DEF Reset, ServerInv

-----------------------------------------------------------------------------
(* Data storage *)

Downloading == {"DOWNLOAD_REQ", "DOWNLOADING"}

(* What any call of data_storage.c does to a download: one is opened from  *)
(* IDLE or goes on, and the announced checksum is adopted at its end only. *)
DsMoves ==
  /\ DsTypeOK'
  /\ ds_state' \in Downloading =>
       ds_state \in Downloading \/ (ds_state = "IDLE" /\ ds_state' = "DOWNLOAD_REQ")
  /\ current_checksum' # current_checksum => ds_state \in Downloading

LEMMA OpenMoves ==
  ASSUME DsTypeOK, NEW request \in {"UPLOAD_REQ", "DOWNLOAD_REQ"}, Open(request)
  PROVE  DsMoves
BY DEF Open, DsMoves, DsTypeOK, DsStates, Downloading

LEMMA EndMoves ==
  ASSUME DsTypeOK, NEW running \in {"UPLOADING", "DOWNLOADING"}, End(running)
  PROVE  DsMoves
BY DEF End, DsMoves, DsTypeOK, DsStates, Downloading

LEMMA RefuseMoves ==
  ASSUME DsTypeOK, NEW code \in {-2, -3}, Refuse(code)
  PROVE  DsMoves
BY DEF Refuse, DsMoves, DsTypeOK, DsStates, Downloading

LEMMA AbortMoves ==
  ASSUME DsTypeOK, ds_abort PROVE DsMoves /\ ds_state' = "IDLE"
BY DEF ds_abort, DsMoves, DsTypeOK, DsStates, Downloading

LEMMA CommandMoves ==
  ASSUME DsTypeOK, NEW cmd, NEW locked \in BOOLEAN, handle_command(cmd, locked)
  PROVE  DsMoves
BY OpenMoves, EndMoves, RefuseMoves, AbortMoves DEF handle_command

LEMMA CheckMoves ==
  ASSUME DsTypeOK, NEW c \in Checksums, ds_check(c) PROVE DsMoves
BY DEF ds_check, DsMoves, DsTypeOK, DsStates, Downloading

LEMMA ProcessMoves ==
  ASSUME DsTypeOK, ds_process PROVE DsMoves
BY DEF ds_process, Adopt, DsMoves, DsTypeOK, DsStates, Downloading

(* transfer follows every such move.                                       *)
LEMMA TrackFollows ==
  ASSUME ServerInv, DsMoves, Track
  PROVE  DownloadIsFollowed' /\ transfer' \in {"none", "download"}
<1>1. transfer \in {"none", "download"} /\ (ds_state \in Downloading => transfer = "download")
  BY DEF ServerInv, TypeOK, DownloadIsFollowed, Downloading
<1>2. CASE ds_state' = "IDLE"
  BY <1>2 DEF Track, DownloadIsFollowed
<1>3. CASE ds_state' # "IDLE" /\ ds_state = "IDLE" /\ ds_state' = "DOWNLOAD_REQ"
  BY <1>3 DEF Track, DownloadIsFollowed
<1>4. CASE ds_state' # "IDLE" /\ ~(ds_state = "IDLE" /\ ds_state' = "DOWNLOAD_REQ")
  BY <1>1, <1>4 DEF Track, DsMoves, DownloadIsFollowed, Downloading
<1> QED BY <1>2, <1>3, <1>4

(* Calls of data storage that leave the parameters alone.                  *)
LEMMA DsOnlyStep ==
  ASSUME ServerInv, DsMoves, DownloadIsFollowed', transfer' \in {"none", "download"},
         accepted' = FALSE, UNCHANGED <<paramVars, history>>
  PROVE  ServerInv'
<1>1. accepted' \in BOOLEAN
  BY Zenon
<1>2. UNCHANGED <<phase, g_device_info, g_app_tag_buffer, access_locks, g_nvm_shadow, nvm,
                  platform, acked, acked_locks, meant, durable, known>>
  BY DEF paramVars, history
<1>3. TypeOK'
  BY <1>1, <1>2 DEF ServerInv, DsMoves, TypeOK, ParamsTypeOK
<1> QED BY <1>2, <1>3 DEF ServerInv, ShadowIsMeant, DeviceAgrees, TagsAgree, BootIsClear,
        SavesAllTags, LockIsObeyed

(* A standard command reads the locks; while the device info is the        *)
(* writable one, these are the locks the master was told of.               *)
LEMMA StandardStep ==
  ASSUME ServerInv,
         NEW cmd \in {"UPLOAD_START", "UPLOAD_END", "DOWNLOAD_START", "DOWNLOAD_END"},
         DsCommand(cmd)
  PROVE  ServerInv' /\ DsMoves
<1> DEFINE locked == "DS" \in DeviceLocks(Resolved)
<1>1. /\ Look /\ handle_command(cmd, locked) /\ Track /\ UNCHANGED history
      /\ accepted' = (cmd \in {"DOWNLOAD_START", "DOWNLOAD_END"} /\ ds_ret' = 0)
  BY DEF DsCommand
<1>2. /\ locked \in BOOLEAN
      /\ accepted' \in BOOLEAN
      /\ accepted' => cmd \in {"DOWNLOAD_START", "DOWNLOAD_END"} /\ ds_ret' = 0
  <2>1. locked \in BOOLEAN
    OBVIOUS
  <2>2. accepted' \in BOOLEAN
    BY <1>1, Zenon
  <2>3. accepted' => cmd \in {"DOWNLOAD_START", "DOWNLOAD_END"} /\ ds_ret' = 0
    BY <1>1, Zenon
  <2> QED BY <2>1, <2>2, <2>3
<1>3. DsMoves
  BY <1>1, <1>2, CommandMoves DEF ServerInv, TypeOK
<1>4. TypeOK'
  BY <1>1, <1>2, <1>3, LookKeeps, TrackFollows DEF DsMoves, ServerInv, TypeOK
<1>5. accepted' => ~locked
  BY <1>1, <1>2 DEF handle_command, Refuse
<1>6. known = "default" => (locked <=> "DS" \in acked_locks)
  BY <1>1 DEF Look, ServerInv, DeviceAgrees, Resolved, DeviceLocks
<1>7. LockIsObeyed'
  BY <1>1, <1>5, <1>6, LookKeeps DEF LockIsObeyed
<1> QED BY <1>1, <1>3, <1>4, <1>7, LookKeeps, TrackFollows DEF ServerInv

LEMMA DsSteps ==
  ASSUME ServerInv,
         \/ AppCommand \/ LegacyCommand \/ Break \/ DsStep
         \/ \E c \in Checksums : Announce(c)
  PROVE  ServerInv' /\ DsMoves
<1>1. DsMoves
  BY CommandMoves, OpenMoves, AbortMoves, CheckMoves, ProcessMoves
     DEF AppCommand, LegacyCommand, start_upload, start_download, Break, DsStep, Announce,
         ServerInv, TypeOK
<1>2. accepted' = FALSE /\ UNCHANGED <<paramVars, history>>
  BY DEF AppCommand, LegacyCommand, Break, DsStep, Announce
<1>3. CASE Break
  <2>1. ds_state' = "IDLE" /\ transfer' = "none"
    BY <1>3 DEF Break, ds_abort
  <2> QED BY <1>1, <1>2, <2>1, DsOnlyStep DEF DownloadIsFollowed
<1>4. CASE ~Break
  <2>1. Track
    BY <1>4 DEF AppCommand, LegacyCommand, DsStep, Announce
  <2> QED BY <1>1, <1>2, <2>1, TrackFollows, DsOnlyStep
<1> QED BY <1>3, <1>4

-----------------------------------------------------------------------------
(* Power is lost: all that is left is the record.                          *)
LEMMA PowerLossStep ==
  ASSUME ServerInv, PowerLoss PROVE ServerInv'
<1>1. /\ phase' = "boot" /\ g_device_info' = "null" /\ g_app_tag_buffer' = DefaultTag
      /\ access_locks' = {} /\ acked_locks' = {} /\ known' = "null"
      /\ g_nvm_shadow' = Blank /\ acked' = Blank /\ meant' = Blank
      /\ UNCHANGED <<nvm, platform, durable>>
      /\ transfer' = "none" /\ accepted' = FALSE
  BY DEF PowerLoss, Restart
<1>2. DsTypeOK' /\ ds_state' = "IDLE"
  BY NoDataConstant DEF PowerLoss, ds_init, DsCleared, DsTypeOK, DsStates
<1>3. accepted' \in BOOLEAN
  BY <1>1, Zenon
<1>4. TypeOK'
  BY <1>1, <1>2, <1>3, TagFacts, ParamsConstants DEF ServerInv, TypeOK, ParamsTypeOK, Locks
<1> QED BY <1>1, <1>2, <1>4 DEF ServerInv, ShadowIsMeant, DeviceAgrees, TagsAgree, BootIsClear,
        SavesAllTags, LockIsObeyed, DownloadIsFollowed

LEMMA ParamSteps ==
  ASSUME ServerInv, ParamStep PROVE ServerInv' /\ UNCHANGED dsVars
<1>1. UNCHANGED dsVars
  BY DEF ParamStep, InfoInit, Start, WriteTag, AppSetTag, SetTag, Read, WriteLocks,
     WriteLocksShort, Reset, ParamsOnly
<1>2. WriteTag => ServerInv'
  <2> SUFFICES ASSUME NEW i \in Tags, NEW t \in Written, NEW saved \in BOOLEAN,
                      SetTag(Resolved, i, t, TRUE, saved)
               PROVE  ServerInv'
    BY DEF WriteTag
  <2> QED BY SetTagStep
<1>3. AppSetTag => ServerInv'
  <2> SUFFICES ASSUME NEW i \in Tags, NEW t \in Written, NEW persist \in BOOLEAN,
                      NEW saved \in BOOLEAN, SetTag(g_device_info, i, t, persist, saved)
               PROVE  ServerInv'
    BY DEF AppSetTag
  <2> QED BY SetTagStep
<1> QED BY <1>1, <1>2, <1>3, InfoInitStep, StartStep, ReadStep, WriteLocksStep,
        WriteLocksShortStep, ResetStep DEF ParamStep

LEMMA StutterStep ==
  ASSUME ServerInv, UNCHANGED vars PROVE ServerInv'
<1>1. /\ UNCHANGED <<phase, g_device_info, g_app_tag_buffer, access_locks, g_nvm_shadow, nvm,
                     platform, acked, acked_locks, meant, durable, known>>
      /\ UNCHANGED <<ds_state, current_checksum, master_checksum, ds_ret, transfer, accepted>>
  BY DEF vars, paramVars, dsVars, history
<1>2. TypeOK'
  BY <1>1 DEF ServerInv, TypeOK, ParamsTypeOK, DsTypeOK
<1> QED BY <1>1, <1>2 DEF ServerInv, ShadowIsMeant, DeviceAgrees, TagsAgree, BootIsClear,
        SavesAllTags, LockIsObeyed, DownloadIsFollowed

LEMMA NextServer == ServerInv /\ [ServerNext]_vars => ServerInv'
BY ParamSteps, StandardStep, DsSteps, PowerLossStep, StutterStep
   DEF ServerNext, StandardCommand

LEMMA SpecServer == Spec => []ServerInv
BY InitServer, NextServer, PTL DEF Spec

-----------------------------------------------------------------------------
(* Every variable of params.c, device_info.c, data_storage.c and of the    *)
(* NVM keeps its type; in particular no text longer than a tag is stored,  *)
(* and a record is only ever a value for every tag.                        *)
THEOREM ParamServerTypeCorrect == Spec => []TypeOK
<1>1. ServerInv => TypeOK
  BY DEF ServerInv
<1> QED BY <1>1, SpecServer, PTL

(* If no tag is written with more than 255 bytes, a parameter reads as it  *)
(* was acknowledged, for any other tags, texts and locks, whichever NVM    *)
(* writes failed and however often the device was restarted.               *)
THEOREM ParamServerReadsAsAcknowledged ==
  ASSUME NoneWrapped
  PROVE  Spec => []ReadsAsAcknowledged
<1>1. ServerInv => ReadsAsAcknowledged
  BY TagFacts DEF ServerInv, DeviceAgrees, TagsAgree, ReadsAsAcknowledged, TagRead, DeviceAppTag,
     DeviceLocks, Resolved
<1> QED BY <1>1, SpecServer, PTL

(* On a port whose writes replace the record, the record is the            *)
(* acknowledged value of every tag as of the last write that succeeded.    *)
THEOREM ParamServerSavesAllTags == Spec => []SavesAllTags
<1>1. ServerInv => SavesAllTags
  BY DEF ServerInv
<1> QED BY <1>1, SpecServer, PTL

(* Where the device info was the writable one when iolink_params_init ran, *)
(* no download command is accepted that the access locks, as the master    *)
(* was told of them, forbid, whatever texts and locks are written.         *)
THEOREM ParamServerLockIsObeyed == Spec => []LockIsObeyed
<1>1. ServerInv => LockIsObeyed
  BY DEF ServerInv
<1> QED BY <1>1, SpecServer, PTL

(* The device adopts a checksum only at the end of a download that was     *)
(* opened and neither broken off nor cut by a restart since.               *)
THEOREM ParamServerBrokenOffIsNotAdopted == Spec => BrokenOffIsNotAdopted
<1>1. ServerInv /\ [ServerNext]_vars =>
        [current_checksum' # current_checksum => transfer = "download" \/ phase' = "boot"]_vars
  <2> SUFFICES ASSUME ServerInv, ServerNext, current_checksum' # current_checksum
               PROVE  transfer = "download" \/ phase' = "boot"
    OBVIOUS
  <2>1. CASE PowerLoss
    BY <2>1 DEF PowerLoss, Restart
  <2>2. CASE ~PowerLoss
    <3>1. DsMoves
      BY <2>2, ParamSteps, StandardStep, DsSteps DEF ServerNext, StandardCommand, dsVars
    <3> QED BY <3>1 DEF DsMoves, ServerInv, DownloadIsFollowed, Downloading
  <2> QED BY <2>1, <2>2
<1> QED BY <1>1, SpecServer, PTL DEF Spec, BrokenOffIsNotAdopted
=============================================================================
