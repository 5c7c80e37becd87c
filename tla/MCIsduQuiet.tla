---------------------------- MODULE MCIsduQuiet ----------------------------
(***************************************************************************)
(* The ISDU engine with a master that may, at any moment and for good,     *)
(* stop its request and only send idle bytes: it was replaced, it gave up, *)
(* or the two sides lost their common phase.  Frames keep coming and the   *)
(* main loop keeps running.                                                *)
(***************************************************************************)
EXTENDS Isdu, TLC

VARIABLE quiet

QuietInit == Init /\ quiet = FALSE

GoQuiet == ~quiet /\ quiet' = TRUE /\ UNCHANGED vars

IdleByte == quiet /\ collect_byte(0) /\ UNCHANGED quiet

RequestByte == ~quiet /\ (\E b \in Bytes[state] : collect_byte(b)) /\ UNCHANGED quiet

Get == get_response_byte /\ UNCHANGED quiet

Execute == process /\ UNCHANGED quiet

QuietNext == GoQuiet \/ IdleByte \/ RequestByte \/ Get \/ Execute

(* The master keeps sending frames, which the DLL turns into collect and   *)
(* get calls, and iolink_dll_process keeps calling iolink_isdu_process.    *)
QuietSpec ==
  /\ QuietInit /\ [][QuietNext]_<<vars, quiet>>
  /\ WF_<<vars, quiet>>(IdleByte) /\ WF_<<vars, quiet>>(Get)
  /\ SF_<<vars, quiet>>(Execute)

(* From whatever point of a request or response it was left at, the engine *)
(* finds back to IDLE, where the next START opens a new request, and stays *)
(* there: no state of collect_byte waits for bytes for ever.               *)
QuietEndsInIdle == quiet ~> [](state = "IDLE")

-----------------------------------------------------------------------------
(* Values for TLC: one index of every kind.                                *)

QuietBytes ==
  [s \in States |->
     CASE s \in {"IDLE", "RESPONSE_READY"} -> {128}
       [] s = "SEGMENT_COLLECT" -> 1..6 \cup {128}
       [] s = "HEADER_INITIAL" -> {0, 128, 145, 159}
       [] s = "HEADER_EXT_LEN" -> {2}
       [] s = "HEADER_INDEX_HIGH" -> {0}
       [] s = "HEADER_INDEX_LOW" -> {2, 10, 12, 16, 24, 27, 28, 29, 37, 200}
       [] s = "HEADER_SUBINDEX" -> {0, 1}
       [] s = "DATA_COLLECT" -> {130}
       [] s = "SERVICE_EXECUTE" -> {128}]

QuietInfo == (10 :> <<255, 255>>) @@ (16 :> <<105>>)
QuietAppTag == <<68>>
QuietStats == [i \in 1..16 |-> 0]
=============================================================================
