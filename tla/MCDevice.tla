------------------------------ MODULE MCDevice ------------------------------
(***************************************************************************)
(* A device with a master that wakes it, may take it to cyclic exchange,   *)
(* and sends one request over and over, reading the answer after each.  In *)
(* frames of two bytes it sends one byte of the request, in cyclic ones    *)
(* OdLen; a frame that is not answered it sends again.  The cable corrupts *)
(* MaxNoise of its frames, and MaxAborts times it forgets where it was and *)
(* starts afresh.  Responses always arrive: after a lost one the master    *)
(* would repeat a frame the engine has taken, and nothing in the code lets *)
(* the engine tell.                                                        *)
(***************************************************************************)
EXTENDS Device, SequencesExt, TLC

CONSTANTS
  Request,     \* the bytes of the request, with their control bytes
  Patience,    \* the idle bytes the master waits for an answer
  MaxNoise, MaxAborts

ASSUME MasterConstants == Patience \in Nat /\ MaxAborts \in Nat

VARIABLES
  pos,                  \* the bytes of Request and idle bytes sent
  rx,                   \* the answer, as far as it was received
  noise, aborts,        \* what may still go wrong
  triggered, dropped,   \* history: all events, those lost to a full queue
  popped, delivered     \* history: those read off the queue, and received

master   == <<pos, rx, aborts, delivered>>
history  == <<triggered, dropped, popped>>
all_vars == <<device_vars, master, noise, history>>

NoRx == [on |-> FALSE, want_data |-> FALSE, seq |-> 0, last |-> FALSE, data |-> << >>]

MCInit ==
  /\ DeviceInit
  /\ pos = 0 /\ rx = NoRx /\ noise = MaxNoise /\ aborts = MaxAborts
  /\ triggered = << >> /\ dropped = {} /\ popped = << >> /\ delivered = << >>

-----------------------------------------------------------------------------
(* The master *)

OdByte(p) == IF p < Len(Request) THEN Request[p + 1] ELSE 0

(* The first byte of a frame decides its length; a cyclic frame carries no *)
(* transition command.                                                     *)
FirstByte == IF RequestLength("other") = 2 THEN ClassOf(OdByte(pos)) ELSE "other"

(* The master sends no frame before the last one is answered and the       *)
(* device has seen its receive FIFO empty.                                 *)
Answered == frame_index = 0 /\ out.frame # "good"

MasterByte ==
  /\ \/ Answered /\ QuietStep(RecvByte(FirstByte, TRUE))
     \/ frame_index > 0 /\ QuietStep(RecvByte("other", TRUE))
  /\ UNCHANGED <<master, noise, history>>

(* The command to establish cyclic exchange, from PREOPERATE.              *)
MasterTransition ==
  /\ CyclicType /\ Answered /\ state = "PREOPERATE"
  /\ QuietStep(RecvByte("transition", TRUE))
  /\ UNCHANGED <<master, noise, history>>

(* Following the control bytes of an answer.                               *)
Hear(r, b) ==
  CASE r.want_data -> [r EXCEPT !.want_data = FALSE, !.data = Append(@, b)]
    [] ~r.want_data /\ r.last -> r
    [] ~r.want_data /\ ~r.last /\ b >= 128 ->
         [on |-> TRUE, want_data |-> TRUE, seq |-> b % 64, last |-> (b \div 64) % 2 = 1,
          data |-> << >>]
    [] ~r.want_data /\ ~r.last /\ b < 128 /\ r.on /\ b % 64 = (r.seq + 1) % 64 ->
         [r EXCEPT !.want_data = TRUE, !.seq = b % 64, !.last = (b \div 64) % 2 = 1]
    [] OTHER -> NoRx

(* A response has one or two on-request bytes.                             *)
HearAll(r, bytes) ==
  CASE Len(bytes) = 0 -> r
    [] Len(bytes) = 1 -> Hear(r, bytes[1])
    [] Len(bytes) = 2 -> Hear(Hear(r, bytes[1]), bytes[2])

(* What the master has after the response: it listens once the request is  *)
(* out.                                                                    *)
Heard == IF pos < Len(Request) THEN NoRx ELSE HearAll(rx, od_out)

Complete(r) == r.last /\ ~r.want_data

(* An answer of two bytes is an event code, unless it is "no event" or an  *)
(* error.                                                                  *)
CodesIn(r) == IF Len(r.data) = 2 /\ r.data[1] \notin {0, 128}
              THEN <<256 * r.data[1] + r.data[2]>> ELSE << >>

(* The response to a frame.                                                *)
MasterHears ==
  /\ CallSend
  /\ IF Complete(Heard) \/ (pos >= Len(Request) + Patience /\ ~Heard.on)
     THEN pos' = 0 /\ rx' = NoRx /\ delivered' = delivered \o CodesIn(Heard)
     ELSE pos' = pos + Len(od_out) /\ rx' = Heard /\ UNCHANGED delivered
  /\ UNCHANGED <<aborts, noise, history>>

MasterAborts ==
  /\ aborts > 0 /\ frame_index = 0 /\ todo = << >> /\ pos > 0
  /\ aborts' = aborts - 1 /\ pos' = 0 /\ rx' = NoRx
  /\ UNCHANGED <<device_vars, noise, history, delivered>>

-----------------------------------------------------------------------------
(* The device, with what the histories record *)

Frame ==
  \/ QuietStep(FrameTransition(FALSE))
  \/ Type0Frame(FALSE, OdByte(pos))
  \/ CyclicFrame(FALSE, FALSE, [i \in 1..OdLen |-> OdByte(pos + i - 1)])

Corrupt == /\ noise > 0 /\ noise' = noise - 1
           /\ QuietStep(FrameBadCrc(FALSE))
           /\ UNCHANGED <<master, history>>

(* The bytes of a frame come without a pause, so that the receive FIFO     *)
(* runs empty between two frames only, or when nobody takes frames.        *)
Loop ==
  \/ BeginCall(FALSE, FALSE)
  \/ QuietStep(SioPoll(frame_index = 0))
  \/ QuietStep(SilenceCheck)
  \/ QuietStep(DwuOver)
  \/ (frame_index = 0 \/ phy_mode = "SIO") /\ QuietStep(LoopEnd)

(* A device in SIO mode hears nothing, so time passes there, between two   *)
(* calls of iolink_process.                                                *)
Pause == /\ phy_mode = "SIO" /\ pc = "idle" /\ QuietStep(Tick)
         /\ UNCHANGED <<master, noise, history>>

Recorded(e) ==
  /\ triggered' = Append(triggered, e.code)
  /\ dropped' = dropped \cup (IF Len(events) < QueueSize THEN {} ELSE {Head(events).code})
  /\ UNCHANGED popped

Calls ==
  \/ CallCollect /\ UNCHANGED history
  \/ CallGet /\ UNCHANGED history
  \/ /\ CallProcess
     /\ popped' = IF Len(events') < Len(events) THEN Append(popped, Head(events).code)
                                                ELSE popped
     /\ UNCHANGED <<triggered, dropped>>
  \/ CallTrigger /\ Recorded(EventNamed(todo[1].arg))

DeviceStep == \/ (Frame \/ Loop) /\ UNCHANGED <<master, noise, history>>
              \/ Calls /\ UNCHANGED <<master, noise>>

(* The application triggers each of its events once, in order.             *)
AppTriggers ==
  \E code \in AppCodes :
    LET e == [code |-> code, type |-> "NOTIFICATION"]
    IN  /\ ~Contains(triggered, code)
        /\ \A c \in AppCodes : c < code => Contains(triggered, c)
        /\ AppEvent(e) /\ Recorded(e)
        /\ UNCHANGED <<master, noise>>

MCNext ==
  \/ MasterByte \/ MasterTransition \/ MasterHears \/ MasterAborts
  \/ DeviceStep \/ Corrupt \/ Pause \/ AppTriggers

(* The device keeps running, time passes, and the master keeps sending.    *)
MCSpec ==
  /\ MCInit /\ [][MCNext]_all_vars
  /\ WF_all_vars(DeviceStep) /\ WF_all_vars(MasterHears) /\ SF_all_vars(Pause)
  /\ SF_all_vars(MasterByte)

-----------------------------------------------------------------------------
(* Properties *)

(* What the master receives are events that were triggered, in the order   *)
(* they were triggered in, so that one triggered once is not received      *)
(* twice, whatever was dropped from a full queue, however corrupted frames *)
(* were repeated, the link fell back to SIO and COM1 in the middle of an   *)
(* answer, or the master left a request open.                              *)
DeliveredInOrder ==
  \A i, j \in 1..Len(delivered) :
    /\ Contains(triggered, delivered[i])
    /\ i < j => \E m, n \in 1..Len(triggered) :
                  m < n /\ triggered[m] = delivered[i] /\ triggered[n] = delivered[j]

(* The answer to a read of index 2 is on its way.                          *)
InFlight == isdu_state = "RESPONSE_READY" \/ rx.on \/ todo # << >>

(* iolink_isdu_process takes an event off the queue before the answer is   *)
(* sent, so a master that starts afresh can lose it; but each time it does *)
(* so it loses at most one.  Frames that were corrupted on the way to the  *)
(* device, their repetitions and fallbacks lose none.                      *)
OneLossPerAbort ==
  Len(popped) - Len(delivered) <= MaxAborts - aborts + (IF InFlight THEN 1 ELSE 0)

(* Every event reaches the master, except those a full queue drops and     *)
(* those that the aborts cost, whatever frames towards the device are      *)
(* corrupted meanwhile and wherever in a request the link falls back.  It  *)
(* takes responses that arrive.  Since only a few events are triggered and *)
(* what was received, dropped or popped stays so, "each of them eventually *)
(* is" and "again and again all of them are" say the same.                 *)
EventsReachMaster ==
  []<>(\A i \in 1..Len(triggered) :
         LET code == triggered[i]
         IN  \/ Contains(delivered, code) \/ code \in dropped
             \/ aborts < MaxAborts /\ Contains(popped, code))

(* A write request that the master sends to the end, on a line without     *)
(* faults, is executed.                                                    *)
WriteIsExecuted == <>(isdu_state = "SERVICE_EXECUTE")

-----------------------------------------------------------------------------
(* Values for TLC *)

(* START, READ, index 0x0002, LAST, subindex 0: the oldest event.          *)
ReadEvent == <<128, 128, 1, 0, 2, 2, 67, 0>>

(* WRITE of thirteen bytes to the application tag: seventeen segments, so  *)
(* the last but one has number 15.                                         *)
WriteTag ==
  LET data == <<157, 0, 24, 0>> \o [i \in 1..13 |-> 65]
  IN  [i \in 1..34 |-> CASE i = 1 -> 128
                         [] i = 33 -> 64 + 16
                         [] i \notin {1, 33} /\ i % 2 = 1 -> i \div 2
                         [] i % 2 = 0 -> data[i \div 2]]

(* Any byte in every state of the ISDU engine.                             *)
MCBytes ==
  [s \in {"IDLE", "HEADER_INITIAL", "HEADER_EXT_LEN", "HEADER_INDEX_HIGH",
         "HEADER_INDEX_LOW", "HEADER_SUBINDEX", "DATA_COLLECT", "SEGMENT_COLLECT",
         "SERVICE_EXECUTE", "RESPONSE_READY"} |-> 0..255]
MCInfo == (16 :> <<105>>)
MCAppTag == <<68>>
MCStats == [i \in 1..16 |-> 0]
=============================================================================
