----------------------------- MODULE DataStorage ----------------------------
(***************************************************************************)
(* The data storage state machine (data_storage.c).  A transfer is opened  *)
(* by the checksum the master announces (iolink_ds_check), by a standard   *)
(* system command or by a legacy one; iolink_ds_process, which the         *)
(* application calls, carries it on; it ends there, at an END command or   *)
(* at BREAK.                                                               *)
(***************************************************************************)
EXTENDS Integers

CONSTANT Checksums   \* the checksums a master may announce; 0: it holds no data

ASSUME ChecksumsConstant == Checksums \subseteq 0..65535
ASSUME NoDataConstant == 0 \in Checksums

DsStates == {"IDLE", "UPLOAD_REQ", "UPLOADING", "DOWNLOAD_REQ", "DOWNLOADING"}

Commands == {"UPLOAD_START", "UPLOAD_END", "DOWNLOAD_START", "DOWNLOAD_END", "BREAK", "unknown"}

VARIABLES ds_state, current_checksum, master_checksum,
          ds_ret   \* what the last call returned: 0, -1 busy, -2 locked, -3 unknown

dsVars == <<ds_state, current_checksum, master_checksum, ds_ret>>

(* iolink_ds_init, at every start of the stack. *)
DsCleared ==
  [state |-> "IDLE", current |-> 0, master |-> 0]

DsInit ==
  /\ ds_state = DsCleared.state
  /\ current_checksum = DsCleared.current /\ master_checksum = DsCleared.master
  /\ ds_ret = 0

ds_init ==
  /\ ds_state' = DsCleared.state
  /\ current_checksum' = DsCleared.current /\ master_checksum' = DsCleared.master
  /\ ds_ret' = 0

-----------------------------------------------------------------------------
(* Mutant: a mismatch is looked for in the checksum announced before. *)
ds_check_stale(c) ==
  /\ master_checksum' = c
  /\ ds_state' = CASE ds_state # "IDLE" -> ds_state
                   [] ds_state = "IDLE" /\ c = 0 -> "UPLOAD_REQ"
                   [] ds_state = "IDLE" /\ c # 0 /\ c # master_checksum -> "DOWNLOAD_REQ"
                   [] OTHER -> "IDLE"
  /\ ds_ret' = 0
  /\ UNCHANGED current_checksum

(* The master announces its checksum: noted at any time, acted on in IDLE. *)
ds_check(c) ==
  /\ master_checksum' = c
  /\ ds_state' = CASE ds_state # "IDLE" -> ds_state
                   [] ds_state = "IDLE" /\ c = 0 -> "UPLOAD_REQ"
                   [] ds_state = "IDLE" /\ c # 0 /\ c # current_checksum -> "DOWNLOAD_REQ"
                   [] OTHER -> "IDLE"
  /\ ds_ret' = 0
  /\ UNCHANGED current_checksum

(* The end of a download: the device now holds what the master announced.  *)
Adopt == current_checksum' = master_checksum /\ ds_state' = "IDLE"

ds_process ==
  /\ \/ ds_state = "UPLOAD_REQ" /\ ds_state' = "UPLOADING" /\ UNCHANGED current_checksum
     \/ ds_state = "DOWNLOAD_REQ" /\ ds_state' = "DOWNLOADING" /\ UNCHANGED current_checksum
     \/ ds_state = "DOWNLOADING" /\ Adopt
     \/ ds_state \in {"UPLOADING", "IDLE"} /\ ds_state' = "IDLE" /\ UNCHANGED current_checksum
  /\ ds_ret' = 0
  /\ UNCHANGED master_checksum

Open(request) ==
  /\ IF ds_state = "IDLE"
     THEN ds_state' = request /\ ds_ret' = 0
     ELSE ds_state' = ds_state /\ ds_ret' = -1
  /\ UNCHANGED <<current_checksum, master_checksum>>

start_upload   == Open("UPLOAD_REQ")
start_download == Open("DOWNLOAD_REQ")

(* Mutant: an upload is aborted, a download goes on. *)
ds_abort_upload_only ==
  /\ ds_state' = IF ds_state \in {"DOWNLOAD_REQ", "DOWNLOADING"} THEN ds_state ELSE "IDLE"
  /\ ds_ret' = 0
  /\ UNCHANGED <<current_checksum, master_checksum>>

ds_abort ==
  /\ ds_state' = "IDLE" /\ ds_ret' = 0
  /\ UNCHANGED <<current_checksum, master_checksum>>

(* An END ends a transfer that is under way; before that it is accepted    *)
(* and does nothing.                                                       *)
End(running) ==
  /\ IF ds_state = running
     THEN /\ ds_state' = "IDLE"
          /\ current_checksum' = IF running = "DOWNLOADING" THEN master_checksum
                                                            ELSE current_checksum
     ELSE UNCHANGED <<ds_state, current_checksum>>
  /\ ds_ret' = 0
  /\ UNCHANGED master_checksum

Refuse(code) == ds_ret' = code /\ UNCHANGED <<ds_state, current_checksum, master_checksum>>

(* Mutant: only the end of a download looks at the lock. *)
handle_command_unlocked_start(cmd, locked) ==
  \/ locked /\ cmd = "DOWNLOAD_END" /\ Refuse(-2)
  \/ cmd = "UPLOAD_START" /\ Open("UPLOAD_REQ")
  \/ cmd = "UPLOAD_END" /\ End("UPLOADING")
  \/ cmd = "DOWNLOAD_START" /\ Open("DOWNLOAD_REQ")
  \/ ~locked /\ cmd = "DOWNLOAD_END" /\ End("DOWNLOADING")
  \/ cmd = "BREAK" /\ ds_abort
  \/ cmd = "unknown" /\ Refuse(-3)

handle_command(cmd, locked) ==
  \/ locked /\ cmd \in {"DOWNLOAD_START", "DOWNLOAD_END"} /\ Refuse(-2)
  \/ cmd = "UPLOAD_START" /\ Open("UPLOAD_REQ")
  \/ cmd = "UPLOAD_END" /\ End("UPLOADING")
  \/ ~locked /\ cmd = "DOWNLOAD_START" /\ Open("DOWNLOAD_REQ")
  \/ ~locked /\ cmd = "DOWNLOAD_END" /\ End("DOWNLOADING")
  \/ cmd = "BREAK" /\ ds_abort
  \/ cmd = "unknown" /\ Refuse(-3)

DsTypeOK ==
  /\ ds_state \in DsStates
  /\ current_checksum \in Checksums /\ master_checksum \in Checksums
  /\ ds_ret \in {0, -1, -2, -3}
=============================================================================
