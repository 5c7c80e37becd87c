---------------------------- MODULE MCParamServer ---------------------------
(***************************************************************************)
(* ParamServer with a master that may settle: from some moment on it sends *)
(* no more requests and announces one and the same checksum, again and     *)
(* again.                                                                  *)
(***************************************************************************)
EXTENDS ParamServer, TLC

VARIABLE settled   \* the checksum it keeps announcing, 0 while it has not settled

SettleInit == ServerInit /\ settled = 0

Settle ==
  /\ settled = 0 /\ phase = "run"
  /\ settled' \in Checksums \ {0}
  /\ UNCHANGED vars

Busy == settled = 0 /\ ServerNext /\ UNCHANGED settled

Repeat == settled # 0 /\ Announce(settled) /\ UNCHANGED settled

Carry == settled # 0 /\ DsStep /\ UNCHANGED settled

SettleVars == <<vars, settled>>

(* The application keeps calling iolink_ds_process and iolink_ds_check, as *)
(* tests/test_ds.c does.                                                   *)
SettleSpec ==
  /\ SettleInit /\ [][Settle \/ Busy \/ Repeat \/ Carry]_SettleVars
  /\ WF_SettleVars(Repeat) /\ WF_SettleVars(Carry)

(* Whatever transfer was open, and with whatever checksum, the device ends *)
(* up holding the announced one and then requests no further transfer: it  *)
(* neither loops through downloads nor stays busy.                         *)
SyncSettles ==
  \A c \in Checksums \ {0} :
    settled = c ~> [](ds_state = "IDLE" /\ current_checksum = c)

-----------------------------------------------------------------------------
MCTexts == {"", "DefaultTag", "user", "a"}
MCCut == ("aa" :> "a") @@ ("aaa" :> "a")
MCRest == ("aaa" :> "")
=============================================================================
