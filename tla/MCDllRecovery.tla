---------------------------- MODULE MCDllRecovery ---------------------------
(***************************************************************************)
(* Dll with a master that wants the device in OPERATE: it wakes the device *)
(* whenever it can, sends the transition command until the link is         *)
(* established and cyclic frames from then on, without a pause.  The cable *)
(* corrupts at most MaxNoise of its frames.                                *)
(***************************************************************************)
EXTENDS Dll

CONSTANT MaxNoise

VARIABLE noise   \* how many frames may still be corrupted

MasterByte ==
  RecvByte(IF state \in {"ESTAB_COM", "OPERATE"} THEN "other" ELSE "transition", TRUE)

DeviceStep ==
  \/ Begin(FALSE, FALSE)
  \/ SioPoll(frame_index = 0)
  \/ SilenceCheck
  \/ DwuOver
  \/ LoopEnd
  \/ FrameTransition(FALSE)
  \/ FrameType0(FALSE)
  \/ FrameCyclic(FALSE, FALSE)

(* A device in SIO mode hears nothing, so time passes there.               *)
Pause == phy_mode = "SIO" /\ Tick

RecoveryInit == Init /\ noise = MaxNoise

Corrupt == noise > 0 /\ FrameBadCrc(FALSE) /\ noise' = noise - 1
Deliver == (MasterByte \/ DeviceStep \/ Pause) /\ UNCHANGED noise

RecoveryVars == <<vars, noise>>

(* The device keeps stepping and the master's bytes keep arriving.         *)
RecoverySpec ==
  /\ RecoveryInit /\ [][Corrupt \/ Deliver]_RecoveryVars
  /\ WF_RecoveryVars(Corrupt \/ Deliver)
  /\ WF_RecoveryVars(Pause /\ UNCHANGED noise)
  /\ SF_RecoveryVars(MasterByte /\ UNCHANGED noise)

(* Once the disturbance is over, the device is brought back to OPERATE.    *)
RecoversToOperate == noise = 0 ~> state = "OPERATE"

=============================================================================
