----------------------------- MODULE ParamServer ----------------------------
(***************************************************************************)
(* Parameters, device info, access locks and data storage as the ISDU      *)
(* services of isdu.c drive them, one request at a time, with ds_ctx wired *)
(* as tests/test_isdu.c wires it; beside them the application's own calls, *)
(* and a supply that may fail at any moment.                               *)
(*                                                                         *)
(* acked is what the callers were told the parameters are, meant what the  *)
(* next record should hold, durable what the last written one should hold. *)
(***************************************************************************)
EXTENDS Params, DataStorage

CONSTANT Written   \* the texts that are written to the tags

ASSUME WrittenConstant == Written \subseteq Texts \cup LongTexts

VARIABLES
  acked, acked_locks,
  meant, durable,
  known,      \* the device info iolink_params_init left: "null", "default", "user"
  transfer,   \* "download" from its opening until it ends or is broken off
  accepted    \* the last call was a standard download command that succeeded

history == <<acked, acked_locks, meant, durable, known>>
vars == <<paramVars, dsVars, history, transfer, accepted>>

ServerInit ==
  /\ ParamsInit /\ DsInit
  /\ acked = Blank /\ meant = Blank /\ durable = Blank
  /\ acked_locks = {}
  /\ known = "null" /\ transfer = "none" /\ accepted = FALSE

-----------------------------------------------------------------------------
(* The parameters *)

ParamsOnly == UNCHANGED <<dsVars, transfer>> /\ accepted' = FALSE

InfoInit ==
  /\ \E info \in InfoCalls : device_info_init(info)
  /\ ParamsOnly /\ UNCHANGED history

Start ==
  /\ \E read_ok \in BOOLEAN :
       /\ params_init(read_ok)
       /\ acked' = IF read_ok THEN nvm ELSE g_nvm_shadow'
  /\ meant' = acked'
  /\ known' = g_device_info'
  /\ ParamsOnly /\ UNCHANGED <<acked_locks, durable>>

(* A tag of an ISDU write request, of at most 255 bytes, or of an          *)
(* iolink_params_set of the application, which takes any length and does   *)
(* not resolve the device info first.                                      *)
SetTag(info, i, t, persist, saved) ==
  /\ params_set(info, i, t, persist, saved)
  /\ IF i = "app" /\ AppTagRefused(info, t)
     THEN UNCHANGED <<acked, meant>>
     ELSE /\ acked' = [acked EXCEPT ![i] = TagText(t)]
          /\ meant' = IF i = "app" /\ ~persist THEN meant ELSE [meant EXCEPT ![i] = TagText(t)]
  /\ durable' = IF saved /\ platform = "cell" THEN meant' ELSE durable
  /\ ParamsOnly /\ UNCHANGED <<acked_locks, known>>

WriteTag ==
  \E i \in Tags, t \in Written \ WrappedTexts, saved \in BOOLEAN :
    SetTag(Resolved, i, t, TRUE, saved)

AppSetTag ==
  \E i \in Tags, t \in Written, persist, saved \in BOOLEAN :
    SetTag(g_device_info, i, t, persist, saved)

Read == Look /\ ParamsOnly /\ UNCHANGED history

(* handle_access_locks, a write of two bytes or more *)
WriteLocks ==
  \E locks \in Locks :
    /\ set_access_locks(locks)
    /\ acked_locks' = locks
    /\ ParamsOnly /\ UNCHANGED <<acked, meant, durable, known>>

(* A shorter one names no locks: it is acknowledged and changes nothing.   *)
WriteLocksShort ==
  /\ phase = "run"
  /\ ParamsOnly /\ UNCHANGED <<paramVars, history>>

(* The system commands 0x82 and 0x83 *)
Reset ==
  \E saved \in BOOLEAN :
    /\ factory_reset(saved)
    /\ acked' = Blank /\ meant' = Blank
    /\ durable' = IF saved /\ platform = "cell" THEN Blank ELSE durable
    /\ ParamsOnly /\ UNCHANGED <<acked_locks, known>>

-----------------------------------------------------------------------------
(* Data storage *)

Track ==
  transfer' = CASE ds_state' = "IDLE" -> "none"
                [] ds_state = "IDLE" /\ ds_state' = "DOWNLOAD_REQ" -> "download"
                [] OTHER -> transfer

(* handle_system_command, 0x05 to 0x08; it reads the locks. *)
DsCommand(cmd) ==
  /\ Look
  /\ handle_command(cmd, "DS" \in DeviceLocks(Resolved))
  /\ accepted' = (cmd \in {"DOWNLOAD_START", "DOWNLOAD_END"} /\ ds_ret' = 0)
  /\ Track /\ UNCHANGED history

StandardCommand ==
  \E cmd \in {"UPLOAD_START", "UPLOAD_END", "DOWNLOAD_START", "DOWNLOAD_END"} : DsCommand(cmd)

(* iolink_ds_handle_command by the application, with locks of its choice,  *)
(* as tests/test_ds.c calls it.                                            *)
AppCommand ==
  /\ phase = "run"
  /\ \E cmd \in Commands, locked \in BOOLEAN : handle_command(cmd, locked)
  /\ Track /\ accepted' = FALSE /\ UNCHANGED <<paramVars, history>>

(* 0x95 and 0x96, which do not read the locks. *)
LegacyCommand ==
  /\ phase = "run"
  /\ start_upload \/ start_download
  /\ Track /\ accepted' = FALSE /\ UNCHANGED <<paramVars, history>>

(* 0x97 *)
Break ==
  /\ phase = "run"
  /\ ds_abort
  /\ transfer' = "none" /\ accepted' = FALSE /\ UNCHANGED <<paramVars, history>>

Announce(c) ==
  /\ phase = "run"
  /\ ds_check(c)
  /\ Track /\ accepted' = FALSE /\ UNCHANGED <<paramVars, history>>

DsStep ==
  /\ phase = "run"
  /\ ds_process
  /\ Track /\ accepted' = FALSE /\ UNCHANGED <<paramVars, history>>

-----------------------------------------------------------------------------
PowerLoss ==
  /\ phase = "run"
  /\ Restart /\ ds_init
  /\ acked' = Blank /\ meant' = Blank /\ acked_locks' = {} /\ known' = "null"
  /\ transfer' = "none" /\ accepted' = FALSE
  /\ UNCHANGED durable

ParamStep ==
  \/ InfoInit \/ Start
  \/ WriteTag \/ AppSetTag \/ Read
  \/ WriteLocks \/ WriteLocksShort
  \/ Reset

ServerNext ==
  \/ ParamStep
  \/ StandardCommand \/ AppCommand \/ LegacyCommand \/ Break
  \/ \E c \in Checksums : Announce(c)
  \/ DsStep
  \/ PowerLoss

Spec == ServerInit /\ [][ServerNext]_vars

-----------------------------------------------------------------------------
(* Properties *)

TypeOK ==
  /\ ParamsTypeOK /\ DsTypeOK
  /\ acked \in [Tags -> Texts] /\ meant \in [Tags -> Texts] /\ durable \in [Tags -> Texts]
  /\ acked_locks \in Locks
  /\ known \in {"null", "default", "user"}
  /\ transfer \in {"none", "download"} /\ accepted \in BOOLEAN

(* A parameter reads as the last acknowledged write, reset or start left   *)
(* it, whichever writes to the NVM failed and however often the device was *)
(* restarted.  For the application tag and the access locks, which         *)
(* device_info.c keeps, this takes a device info that was the writable one *)
(* when iolink_params_init ran, and for the tag no write of more than 255  *)
(* bytes.  A write of the locks that is too short counts as none.          *)
ReadsAsAcknowledged ==
  phase = "run" =>
    /\ \A i \in OtherTags : TagRead(i) = acked[i]
    /\ known = "default" =>
         TagRead("app") = acked["app"] /\ DeviceLocks(Resolved) = acked_locks

(* On a port whose writes replace the record, the NVM holds the            *)
(* acknowledged value of every tag as of the last write that succeeded:    *)
(* saving one tag never brings an old value of another back, whether or    *)
(* not the device info took the application tag over at the last start.    *)
SavesAllTags == platform = "cell" /\ nvm # NoRecord => nvm = durable

(* Where the device info was the writable one when iolink_params_init ran: *)
(* a download command that handle_command accepted was not one the master  *)
(* had locked with the access locks.  (After a start from the NVM it is    *)
(* NULL, and a lock written before the first read is acknowledged, dropped *)
(* and not obeyed.)                                                        *)
LockIsObeyed ==
  accepted /\ known = "default" => "DS" \notin acked_locks

(* A download that the master broke off, or that a restart cut, is not     *)
(* completed by a later iolink_ds_process or DOWNLOAD_END.                 *)
BrokenOffIsNotAdopted ==
  [][current_checksum' # current_checksum => transfer = "download" \/ phase' = "boot"]_vars

-----------------------------------------------------------------------------
(* What the repository says of the program and the code does not do        *)

(* The application tag that was written, acknowledged and stored is the    *)
(* one that is read after a restart.                                       *)
ApplicationTagPersists ==
  phase = "run" /\ Resolved = "default" => TagRead("app") = acked["app"]
=============================================================================
