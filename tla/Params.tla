------------------------------- MODULE Params -------------------------------
(***************************************************************************)
(* The parameter manager (params.c), the device info it works on           *)
(* (device_info.c) and the non-volatile memory below it.                   *)
(*                                                                         *)
(* The application tag lives in the device info and a copy of it, with the *)
(* two other tags, in g_nvm_shadow, which is what is written to the NVM,   *)
(* as a whole.  Power may be lost between any two steps; a loss within a   *)
(* write is a write that failed followed by a restart.                     *)
(*                                                                         *)
(* Texts are abstract; LongTexts are longer than the 32 bytes a tag holds, *)
(* and WrappedTexts so long (256 to 288 bytes, say) that the uint8_t in    *)
(* which iolink_params_set passes the length on says 32 or less.           *)
(***************************************************************************)
CONSTANTS
  Texts, LongTexts, WrappedTexts,
  Cut,          \* the first 32 bytes of each long text
  Rest,         \* as many bytes of each wrapped text as its uint8_t length says
  Empty,        \* ""
  DefaultTag,   \* the application tag of g_default_info
  UserTag,      \* the application tag of the application's own device info
  OtherTags,    \* the tags that only params.c keeps: function and location
  LockBits,     \* the access lock bits that are used
  Platforms,    \* see NvmAfter
  InfoCalls     \* what the application may call before iolink_init: "default"
                \* for iolink_device_info_init(NULL), "user" for its own info

ASSUME ParamsConstants ==
  /\ {Empty, DefaultTag, UserTag} \subseteq Texts
  /\ Texts \cap LongTexts = {}
  /\ Cut \in [LongTexts -> Texts]
  /\ WrappedTexts \subseteq LongTexts /\ Rest \in [WrappedTexts -> Texts]
  /\ OtherTags \subseteq {"fun", "loc"} /\ LockBits \subseteq {"PARAM", "DS"}
  /\ Platforms \subseteq {"none", "cell", "file"}
  /\ InfoCalls \subseteq {"default", "user"}

Tags  == {"app"} \cup OtherTags
Locks == SUBSET LockBits

VARIABLES
  phase,             \* "boot" until iolink_init has called iolink_params_init
  g_device_info,     \* where the pointer points: "null", "default", "user"
  g_app_tag_buffer,
  access_locks,      \* of g_default_info
  g_nvm_shadow,
  nvm,               \* the record a read at offset 0 finds, or none
  platform

paramVars == <<phase, g_device_info, g_app_tag_buffer, access_locks, g_nvm_shadow, nvm, platform>>

NoRecord == [t \in {} |-> Empty]

Blank == [t \in Tags |-> Empty]

ParamsInit ==
  /\ phase = "boot" /\ g_device_info = "null"
  /\ g_app_tag_buffer = DefaultTag /\ access_locks = {}
  /\ g_nvm_shadow = Blank
  /\ nvm = NoRecord /\ platform \in Platforms

-----------------------------------------------------------------------------
(* device_info.c *)

(* iolink_device_info_get makes a pointer that was never set the default.  *)
Resolved == IF g_device_info = "null" THEN "default" ELSE g_device_info

DeviceAppTag(info) == IF info = "user" THEN UserTag ELSE g_app_tag_buffer

DeviceLocks(info) == IF info = "user" THEN {} ELSE access_locks

(* iolink_device_info_init *)
device_info_init(info) ==
  /\ phase = "boot"
  /\ g_device_info' = info
  /\ UNCHANGED <<phase, g_app_tag_buffer, access_locks, g_nvm_shadow, nvm, platform>>

(* iolink_device_info_set_application_tag, which is given the length in    *)
(* eight bits: what it takes over of t, unless it refuses.                 *)
AppTagText(t) == IF t \in WrappedTexts THEN Rest[t] ELSE t

AppTagRefused(info, t) == t \in LongTexts \ WrappedTexts \/ info # "default"

(* iolink_device_info_set_access_locks: only the default info is writable, *)
(* and a pointer that was never set is not it.                             *)
set_access_locks(locks) ==
  /\ phase = "run"
  /\ access_locks' = IF g_device_info = "default" THEN locks ELSE access_locks
  /\ UNCHANGED <<phase, g_device_info, g_app_tag_buffer, g_nvm_shadow, nvm, platform>>

-----------------------------------------------------------------------------
(* The NVM.  "cell" is what params.c expects of a port: a write replaces   *)
(* the record.  "file" is the Linux port, which appends to a file opened   *)
(* with a+b and reads its beginning: the first record stays.  "none" are   *)
(* the weak stubs, which always fail.                                      *)

NvmAfter(record, saved) ==
  CASE ~saved -> nvm
    [] saved /\ platform = "file" /\ nvm # NoRecord -> nvm
    [] OTHER -> record

MaySave(saved) == saved => platform # "none"

-----------------------------------------------------------------------------
(* params.c *)

(* Mutant: a long text is not cut. *)
TagTextUncut(t) == t

TagText(t) == IF t \in LongTexts THEN Cut[t] ELSE t

(* Mutant: without a device info the stored tag gives way to the default. *)
params_init_forgets_tag(read_ok) ==
  /\ phase = "boot" /\ phase' = "run"
  /\ IF read_ok
     THEN /\ nvm # NoRecord
          /\ g_device_info' = Resolved
          /\ g_nvm_shadow' = IF AppTagRefused(g_device_info, nvm["app"])
                             THEN [nvm EXCEPT !["app"] = g_app_tag_buffer] ELSE nvm
          /\ g_app_tag_buffer' = IF AppTagRefused(g_device_info, nvm["app"])
                                 THEN g_app_tag_buffer ELSE nvm["app"]
     ELSE /\ g_device_info' = Resolved
          /\ g_nvm_shadow' = [Blank EXCEPT !["app"] = DeviceAppTag(Resolved)]
          /\ UNCHANGED g_app_tag_buffer
  /\ UNCHANGED <<access_locks, nvm, platform>>

(* Mutant: the device info is not told of the stored tag. *)
params_init_no_sync(read_ok) ==
  /\ phase = "boot" /\ phase' = "run"
  /\ IF read_ok
     THEN nvm # NoRecord /\ g_nvm_shadow' = nvm /\ UNCHANGED <<g_device_info, g_app_tag_buffer>>
     ELSE /\ g_device_info' = Resolved
          /\ g_nvm_shadow' = [Blank EXCEPT !["app"] = DeviceAppTag(Resolved)]
          /\ UNCHANGED g_app_tag_buffer
  /\ UNCHANGED <<access_locks, nvm, platform>>

(* iolink_params_init; the read fails for want of a record, or for some    *)
(* other reason.                                                           *)
params_init(read_ok) ==
  /\ phase = "boot" /\ phase' = "run"
  /\ IF read_ok
     THEN /\ nvm # NoRecord
          /\ g_nvm_shadow' = nvm
          /\ g_app_tag_buffer' = IF AppTagRefused(g_device_info, nvm["app"])
                                 THEN g_app_tag_buffer ELSE nvm["app"]
          /\ UNCHANGED g_device_info
     ELSE /\ g_device_info' = Resolved
          /\ g_nvm_shadow' = [Blank EXCEPT !["app"] = DeviceAppTag(Resolved)]
          /\ UNCHANGED g_app_tag_buffer
  /\ UNCHANGED <<access_locks, nvm, platform>>

(* iolink_params_set with the device info at info: an application tag that *)
(* is not to persist leaves the shadow alone, the other tags do not; the   *)
(* result of the NVM write is ignored.  The shadow takes 32 bytes of a     *)
(* long text, whatever the device info took.                               *)
params_set(info, i, t, persist, saved) ==
  /\ phase = "run"
  /\ saved => persist /\ MaySave(saved)
  /\ g_device_info' = info
  /\ IF i = "app" /\ AppTagRefused(info, t)
     THEN ~saved /\ UNCHANGED <<g_app_tag_buffer, g_nvm_shadow, nvm>>
     ELSE /\ g_app_tag_buffer' = IF i = "app" THEN AppTagText(t) ELSE g_app_tag_buffer
          /\ g_nvm_shadow' = IF i = "app" /\ ~persist THEN g_nvm_shadow
                             ELSE [g_nvm_shadow EXCEPT ![i] = TagText(t)]
          /\ nvm' = NvmAfter(g_nvm_shadow', saved)
  /\ UNCHANGED <<phase, access_locks, platform>>

(* iolink_params_get *)
TagRead(i) == IF i = "app" THEN DeviceAppTag(Resolved) ELSE g_nvm_shadow[i]

(* The calls that only look resolve the device info: iolink_params_get     *)
(* and every index that handle_mandatory_indices serves.                   *)
Look ==
  /\ phase = "run"
  /\ g_device_info' = Resolved
  /\ UNCHANGED <<phase, g_app_tag_buffer, access_locks, g_nvm_shadow, nvm, platform>>

(* iolink_params_factory_reset *)
factory_reset(saved) ==
  /\ phase = "run" /\ MaySave(saved)
  /\ g_nvm_shadow' = Blank
  /\ g_app_tag_buffer' = IF AppTagRefused(g_device_info, Empty) THEN g_app_tag_buffer ELSE Empty
  /\ nvm' = NvmAfter(Blank, saved)
  /\ UNCHANGED <<phase, g_device_info, access_locks, platform>>

(* Power is lost: the static variables start again, the NVM keeps its      *)
(* record.                                                                 *)
Restart ==
  /\ phase' = "boot" /\ g_device_info' = "null"
  /\ g_app_tag_buffer' = DefaultTag /\ access_locks' = {}
  /\ g_nvm_shadow' = Blank
  /\ UNCHANGED <<nvm, platform>>

ParamsTypeOK ==
  /\ phase \in {"boot", "run"}
  /\ g_device_info \in {"null", "default", "user"}
  /\ g_app_tag_buffer \in Texts /\ access_locks \in Locks
  /\ g_nvm_shadow \in [Tags -> Texts]
  /\ nvm \in {NoRecord} \cup [Tags -> Texts]
  /\ platform \in Platforms
=============================================================================
