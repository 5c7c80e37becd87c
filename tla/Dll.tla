-------------------------------- MODULE Dll --------------------------------
(***************************************************************************)
(* The data link layer of the device (dll.c): one context that             *)
(* iolink_dll_process steps, from the main loop, through the IO-Link       *)
(* states STARTUP, AWAITING_COMM, PREOPERATE, ESTAB_COM and OPERATE.       *)
(*                                                                         *)
(* One call of iolink_dll_process is the sequence of actions whose order   *)
(* the variable pc forces: Begin (diagnostics and inactivity), one of      *)
(* TPdDrain / SioPoll / SilenceCheck, one of DwuWait / DwuOver, then the   *)
(* receive loop, in which RecvByte takes one byte and the Frame... actions *)
(* handle a complete frame.  The master, the cable and the clock are the   *)
(* environment: any byte may arrive at any time, a complete frame may or   *)
(* may not carry the right checksum, and time passes between any two       *)
(* steps.                                                                  *)
(*                                                                         *)
(* What the DLL asks of its neighbours is recorded, step by step, in the   *)
(* output port out: the bytes given to the ISDU engine, the events         *)
(* triggered, the response transmitted.                                    *)
(*                                                                         *)
(* iolink_init takes any configured length over.  What a copy past the end *)
(* of a buffer overwrites is not modelled: FrameFits says when there is    *)
(* none, and after one the module says nothing of the program.             *)
(***************************************************************************)
EXTENDS Integers, Sequences

CONSTANTS
  CyclicType,      \* m_seq_type # TYPE_0: the device has cyclic process data
  OdLen,           \* od_len, 1 or 2 on-request bytes per cyclic frame
  PdOutLens,       \* the PD output lengths that set_pd_length is called with
  PdOutLen,        \* the configured PD output length, any uint8_t
  PdOutMax,        \* IOLINK_PD_OUT_MAX_SIZE: 32
  FrameBufSize,    \* sizeof(frame_buf): 48
  Threshold,       \* sio_fallback_threshold: 3
  TRenLimits,      \* the limits the application passes to set_t_ren_limit_us
  PowerOnDelay,    \* t_pd_delay_us > 0
  MinCycleTime,    \* min_cycle_time_us > 0
  SilenceTicks,    \* the 1000 ms inactivity limit, in clock ticks
  ClockMayBeZero,  \* bytes may arrive while iolink_time_get_ms() = 0
  ModeSetters,     \* the application owns the context (it did not use
                   \* iolink_init) and sets rate and mode by itself
  MaxStat          \* bound: the error counters saturate here

ASSUME DllConstants ==
  /\ CyclicType \in BOOLEAN
  /\ OdLen \in 1..2
  /\ PdOutLens \subseteq 0..255
  /\ PdOutMax = 32
  /\ PdOutLen \in 0..255
  /\ FrameBufSize = 48
  /\ Threshold \in Nat \ {0}
  /\ TRenLimits \subseteq Nat
  /\ PowerOnDelay \in BOOLEAN
  /\ MinCycleTime \in BOOLEAN
  /\ SilenceTicks \in Nat
  /\ ClockMayBeZero \in BOOLEAN /\ ModeSetters \in BOOLEAN
  /\ MaxStat \in Nat

DllStates == {"STARTUP", "AWAITING_COMM", "PREOPERATE", "ESTAB_COM", "OPERATE"}
PhyModes  == {"SIO", "SDCI"}
Baudrates == {"COM1", "COM2", "COM3"}

(* The M-sequence control bytes the DLL tells apart: the transition        *)
(* command 0x0F, a byte of the page or reserved channel (0x20, 0x60), any  *)
(* other byte.                                                             *)
MCs == {"transition", "forbidden", "other"}

StatNames == {"crc_errors", "framing_errors", "timing_errors", "total_retries",
              "t_ren_violations", "t_cycle_violations", "t_byte_violations",
              "t_pd_violations"}

EventCodes == {"VOLTAGE_FAULT", "SHORT_CIRCUIT", "COMM_TIMING", "COMM_FRAMING"}

VARIABLES
  state, phy_mode, baudrate,
  frame_index, req_len, mc,      \* the frame being assembled; mc is frame_buf[0]
  fallback_count,
  pd_out_len_current,
  enforce_timing, t_ren_limit_us, t_ren_override,
  armed, idle,                   \* last_activity_ms # 0, and its age in ticks
  gap_over,                      \* now - last_byte_us > t_byte_limit_us
  t_pd_active, dwu_active,       \* the t_pd and t_dwu deadlines lie ahead
  cycle_started,                 \* last_cycle_start_us # 0
  stats,
  pc,                            \* where iolink_dll_process is
  line,                          \* "live": a master is connected
  out                            \* what this step asked of the neighbours

link   == <<state, phy_mode, baudrate, fallback_count>>
frame  == <<frame_index, req_len, mc>>
config == <<pd_out_len_current, enforce_timing, t_ren_override>>
timers == <<armed, idle, gap_over, t_pd_active, dwu_active, cycle_started>>
vars   == <<link, frame, config, t_ren_limit_us, timers, stats, pc, line, out>>

(* od: on-request bytes given to iolink_isdu_collect_byte; events: codes   *)
(* given to iolink_event_trigger; resp: the response given to phy->send;   *)
(* frame: the verdict on the frame the step ended, if it ended one.        *)
Outputs == [od : 0..2, events : Seq(EventCodes),
            resp : {"none", "type0", "cyclic"}, frame : {"none", "good", "bad"}]

Output(od, evs, resp, verdict) ==
  [od |-> od, events |-> evs, resp |-> resp, frame |-> verdict]

NoOut == Output(0, << >>, "none", "none")

Init ==
  /\ state = "STARTUP" /\ phy_mode = "SIO" /\ baudrate = "COM2"
  /\ frame_index = 0 /\ req_len = 0 /\ mc = "other"
  /\ fallback_count = 0
  /\ pd_out_len_current = PdOutLen
  /\ enforce_timing = FALSE
  /\ t_ren_limit_us = 1200 /\ t_ren_override = FALSE
  /\ armed = FALSE /\ idle = 0
  /\ gap_over = FALSE
  /\ t_pd_active = PowerOnDelay /\ dwu_active = FALSE
  /\ cycle_started = FALSE
  /\ stats = [s \in StatNames |-> 0]
  /\ pc = "idle"
  /\ line = "live"
  /\ out = NoOut

-----------------------------------------------------------------------------
(* Helpers of dll.c *)

Count(names) == [s \in StatNames |->
                   IF s \in names /\ stats[s] < MaxStat THEN stats[s] + 1 ELSE stats[s]]

TRenDefault(b) == CASE b = "COM1" -> 5000 [] b = "COM2" -> 1200 [] b = "COM3" -> 230

dll_get_t_ren_limit_us(b) == IF t_ren_override THEN t_ren_limit_us ELSE TRenDefault(b)

(* A frame of a device with cyclic data, once it is established: header,   *)
(* PD, OD and the check byte.                                              *)
CyclicLen == 2 + pd_out_len_current + OdLen + 1

set_baudrate(b) ==
  /\ baudrate' = b
  /\ t_ren_limit_us' = dll_get_t_ren_limit_us(b)

KeepBaudrate == UNCHANGED <<baudrate, t_ren_limit_us>>

(* Mutant: the rate is not lowered. *)
EnterFallbackKeepsRate(names, evs) ==
  LET give_up == fallback_count + 1 >= Threshold
      restart == state \notin {"OPERATE", "ESTAB_COM"}
  IN  /\ stats' = Count(names \cup {"total_retries"})
      /\ fallback_count' = IF give_up THEN 0 ELSE fallback_count + 1
      /\ phy_mode' = IF give_up THEN "SIO" ELSE phy_mode
      /\ state' = IF give_up \/ restart THEN "STARTUP" ELSE state
      /\ KeepBaudrate
      /\ out' = Output(0, evs \o (IF give_up THEN <<"COMM_FRAMING">> ELSE << >>),
                       "none", "bad")

(* Mutant: giving up leaves an established state alone. *)
EnterFallbackKeepsState(names, evs) ==
  LET give_up == fallback_count + 1 >= Threshold
      restart == state \notin {"OPERATE", "ESTAB_COM"}
  IN  /\ stats' = Count(names \cup {"total_retries"})
      /\ fallback_count' = IF give_up THEN 0 ELSE fallback_count + 1
      /\ phy_mode' = IF give_up THEN "SIO" ELSE phy_mode
      /\ state' = IF restart THEN "STARTUP" ELSE state
      /\ IF give_up \/ restart THEN set_baudrate("COM1") ELSE KeepBaudrate
      /\ out' = Output(0, evs \o (IF give_up THEN <<"COMM_FRAMING">> ELSE << >>),
                       "none", "bad")

(* dll_enter_fallback; the counters of its caller are in names, the events *)
(* the caller has already triggered in evs.                                *)
dll_enter_fallback(names, evs) ==
  LET give_up == fallback_count + 1 >= Threshold
      restart == state \notin {"OPERATE", "ESTAB_COM"}
  IN  /\ stats' = Count(names \cup {"total_retries"})
      /\ fallback_count' = IF give_up THEN 0 ELSE fallback_count + 1
      /\ phy_mode' = IF give_up THEN "SIO" ELSE phy_mode
      /\ state' = IF give_up \/ restart THEN "STARTUP" ELSE state
      /\ IF give_up \/ restart THEN set_baudrate("COM1") ELSE KeepBaudrate
      /\ out' = Output(0, evs \o (IF give_up THEN <<"COMM_FRAMING">> ELSE << >>),
                       "none", "bad")

TimingEvent(b) == IF b THEN <<"COMM_TIMING">> ELSE << >>

(* dll_poll_diagnostics: the events of a supply voltage out of range and   *)
(* of a short circuit, in every call as long as they last.                 *)
Diagnostics(voltage_fault, short_circuit) ==
  (IF voltage_fault THEN <<"VOLTAGE_FAULT">> ELSE << >>) \o
  (IF short_circuit THEN <<"SHORT_CIRCUIT">> ELSE << >>)

-----------------------------------------------------------------------------
(* iolink_dll_process, up to the receive loop *)

(* Mutant: the inactivity timeout forgets the partial frame. *)
BeginKeepsFrame(voltage_fault, short_circuit) ==
  /\ pc = "idle"
  /\ pc' = "gate"
  /\ out' = Output(0, Diagnostics(voltage_fault, short_circuit), "none", "none")
  /\ IF armed /\ idle > SilenceTicks
     THEN /\ armed' = FALSE /\ idle' = 0
          /\ IF phy_mode # "SIO" THEN set_baudrate("COM1") ELSE KeepBaudrate
          /\ phy_mode' = "SIO"
          /\ state' = "STARTUP"
          /\ frame_index' = frame_index
     ELSE UNCHANGED <<armed, idle, baudrate, t_ren_limit_us, phy_mode, state, frame_index>>
  /\ UNCHANGED <<fallback_count, req_len, mc, config, stats, line,
                 gap_over, t_pd_active, dwu_active, cycle_started>>

(* Mutant: the timeout resets the state in SDCI mode only. *)
BeginSkipsSio(voltage_fault, short_circuit) ==
  /\ pc = "idle"
  /\ pc' = "gate"
  /\ out' = Output(0, Diagnostics(voltage_fault, short_circuit), "none", "none")
  /\ IF armed /\ idle > SilenceTicks
     THEN /\ armed' = FALSE /\ idle' = 0
          /\ IF phy_mode # "SIO" THEN set_baudrate("COM1") ELSE KeepBaudrate
          /\ phy_mode' = "SIO"
          /\ state' = IF phy_mode # "SIO" THEN "STARTUP" ELSE state
          /\ frame_index' = 0
     ELSE UNCHANGED <<armed, idle, baudrate, t_ren_limit_us, phy_mode, state, frame_index>>
  /\ UNCHANGED <<fallback_count, req_len, mc, config, stats, line,
                 gap_over, t_pd_active, dwu_active, cycle_started>>

(* The ISDU engine runs, the PHY's diagnostics are polled, and a link that *)
(* has been silent for more than a second is given up.                     *)
Begin(voltage_fault, short_circuit) ==
  /\ pc = "idle"
  /\ pc' = "gate"
  /\ out' = Output(0, Diagnostics(voltage_fault, short_circuit), "none", "none")
  /\ IF armed /\ idle > SilenceTicks
     THEN /\ armed' = FALSE /\ idle' = 0
          /\ IF phy_mode # "SIO" THEN set_baudrate("COM1") ELSE KeepBaudrate
          /\ phy_mode' = "SIO"
          /\ state' = "STARTUP"
          /\ frame_index' = 0
     ELSE UNCHANGED <<armed, idle, baudrate, t_ren_limit_us, phy_mode, state, frame_index>>
  /\ UNCHANGED <<fallback_count, req_len, mc, config, stats, line,
                 gap_over, t_pd_active, dwu_active, cycle_started>>

(* Bytes that arrive within t_pd after power-on are drained and counted.   *)
TPdDrain(saw_byte) ==
  /\ pc = "gate" /\ t_pd_active
  /\ saw_byte => line = "live"
  /\ stats' = IF saw_byte THEN Count({"timing_errors", "t_pd_violations"}) ELSE stats
  /\ out' = Output(0, TimingEvent(saw_byte), "none", "none")
  /\ pc' = "idle"
  /\ UNCHANGED <<link, frame, config, t_ren_limit_us, timers, line>>

(* In SIO mode only a wake-up pulse is looked for, and only when no        *)
(* partial frame is pending; nothing is received.                          *)
SioPoll(wakeup) ==
  /\ pc = "gate" /\ ~t_pd_active /\ phy_mode = "SIO"
  /\ wakeup => line = "live" /\ frame_index = 0
  /\ IF wakeup
     THEN state' = "AWAITING_COMM" /\ phy_mode' = "SDCI" /\ dwu_active' = TRUE
     ELSE UNCHANGED <<state, phy_mode, dwu_active>>
  /\ out' = NoOut
  /\ pc' = "idle"
  /\ UNCHANGED <<baudrate, fallback_count, frame, config, t_ren_limit_us, armed, idle,
                 gap_over, t_pd_active, cycle_started, stats, line>>

(* A frame whose next byte is overdue is dropped and counts as a fallback. *)
(* The call goes on to the receive loop even when this was the last        *)
(* fallback, the one that switched the PHY to SIO.                         *)
SilenceCheck ==
  /\ pc = "gate" /\ ~t_pd_active /\ phy_mode = "SDCI"
  /\ pc' = "dwu"
  /\ IF frame_index > 0 /\ enforce_timing /\ gap_over
     THEN /\ frame_index' = 0
          /\ dll_enter_fallback({"timing_errors", "t_byte_violations", "framing_errors"},
                                TimingEvent(TRUE))
     ELSE /\ out' = NoOut
          /\ UNCHANGED <<link, frame_index, t_ren_limit_us, stats>>
  /\ UNCHANGED <<req_len, mc, config, timers, line>>

(* Nothing is received before t_dwu after a wake-up has elapsed.           *)
DwuWait ==
  /\ pc = "dwu"
  /\ state = "AWAITING_COMM" /\ enforce_timing /\ dwu_active
  /\ pc' = "idle" /\ out' = NoOut
  /\ UNCHANGED <<link, frame, config, t_ren_limit_us, timers, stats, line>>

DwuOver ==
  /\ pc = "dwu"
  /\ ~(state = "AWAITING_COMM" /\ enforce_timing /\ dwu_active)
  /\ pc' = "loop" /\ out' = NoOut
  /\ UNCHANGED <<link, frame, config, t_ren_limit_us, timers, stats, line>>

-----------------------------------------------------------------------------
(* The receive loop *)

(* Mutant: the rate is not looked at. *)
RequestLengthAnyRate(b) ==
  IF /\ CyclicType
     /\ state = "OPERATE" \/ (state = "ESTAB_COM" /\ b # "transition")
  THEN CyclicLen % 256
  ELSE 2

(* The length of the frame that starts with byte b.                        *)
RequestLength(b) ==
  IF /\ baudrate # "COM1"
     /\ CyclicType
     /\ state = "OPERATE" \/ (state = "ESTAB_COM" /\ b # "transition")
  THEN CyclicLen % 256
  ELSE 2

(* Mutant: a frame is complete one byte too late. *)
RecvByteOneMore(b, armed_now) ==
  /\ pc = "loop" /\ line = "live"
  /\ LET late  == frame_index > 0 /\ enforce_timing /\ gap_over
         first == frame_index = 0 \/ late
         full  == ~first /\ frame_index >= FrameBufSize
     IN  /\ frame_index' = IF first THEN 1 ELSE IF full THEN 0 ELSE frame_index + 1
         /\ req_len' = IF first THEN RequestLength(b) ELSE req_len
         /\ mc' = IF first THEN b ELSE mc
         /\ stats' = Count((IF late THEN {"timing_errors", "t_byte_violations", "framing_errors"}
                                    ELSE {}) \cup
                           (IF full THEN {"framing_errors"} ELSE {}))
         /\ out' = Output(0, TimingEvent(late), "none", "none")
  /\ armed' = armed_now /\ idle' = 0
  /\ gap_over' = FALSE
  /\ pc' = IF frame_index' > 0 /\ frame_index' > req_len' THEN "frame" ELSE "loop"
  /\ UNCHANGED <<link, config, t_ren_limit_us, t_pd_active, dwu_active, cycle_started, line>>

(* One byte: the inter-byte check may first drop what was collected, then  *)
(* the byte starts a frame or is appended to it.  The frame is handled as  *)
(* soon as it is complete.                                                 *)
RecvByte(b, armed_now) ==
  /\ pc = "loop" /\ line = "live"
  /\ LET late  == frame_index > 0 /\ enforce_timing /\ gap_over
         first == frame_index = 0 \/ late
         full  == ~first /\ frame_index >= FrameBufSize
     IN  /\ frame_index' = IF first THEN 1 ELSE IF full THEN 0 ELSE frame_index + 1
         /\ req_len' = IF first THEN RequestLength(b) ELSE req_len
         /\ mc' = IF first THEN b ELSE mc
         /\ stats' = Count((IF late THEN {"timing_errors", "t_byte_violations", "framing_errors"}
                                    ELSE {}) \cup
                           (IF full THEN {"framing_errors"} ELSE {}))
         /\ out' = Output(0, TimingEvent(late), "none", "none")
  /\ armed' = armed_now /\ idle' = 0
  /\ gap_over' = FALSE
  /\ pc' = IF frame_index' > 0 /\ frame_index' >= req_len' THEN "frame" ELSE "loop"
  /\ UNCHANGED <<link, config, t_ren_limit_us, t_pd_active, dwu_active, cycle_started, line>>

(* The receive FIFO is empty: the call returns.                            *)
LoopEnd ==
  /\ pc = "loop"
  /\ pc' = "idle" /\ out' = NoOut
  /\ UNCHANGED <<link, frame, config, t_ren_limit_us, timers, stats, line>>

-----------------------------------------------------------------------------
(* A complete frame.  Every Frame... action ends with frame_index = 0 and  *)
(* returns to the loop; short_cycle says that the frame came before the    *)
(* minimum cycle time was over.                                            *)

FrameDone ==
  /\ pc = "frame" /\ pc' = "loop"
  /\ frame_index' = 0
  /\ cycle_started' = TRUE
  /\ UNCHANGED <<req_len, mc, config, armed, idle, gap_over, t_pd_active, dwu_active, line>>

CycleCheck(short_cycle) ==
  short_cycle => enforce_timing /\ MinCycleTime /\ cycle_started

CycleStats(short_cycle) ==
  IF short_cycle THEN {"timing_errors", "t_cycle_violations"} ELSE {}

(* The state a valid frame is handled in: the first one after a wake-up,   *)
(* or in STARTUP, moves the device to PREOPERATE.                          *)
FrameState == IF state \in {"AWAITING_COMM", "STARTUP"} THEN "PREOPERATE" ELSE state

(* Mutant: a CRC error is no framing error. *)
FrameBadCrcUncounted(short_cycle) ==
  /\ FrameDone /\ CycleCheck(short_cycle)
  /\ dll_enter_fallback(CycleStats(short_cycle) \cup {"crc_errors"},
                        TimingEvent(short_cycle))

FrameBadCrc(short_cycle) ==
  /\ FrameDone /\ CycleCheck(short_cycle)
  /\ dll_enter_fallback(CycleStats(short_cycle) \cup {"crc_errors", "framing_errors"},
                        TimingEvent(short_cycle))

(* OPERATE forbids the transition command; the page and the reserved       *)
(* channel are forbidden in cyclic frames and in OPERATE.                  *)
Rejected ==
  \/ FrameState = "ESTAB_COM" /\ req_len > 2 /\ mc = "forbidden"
  \/ FrameState = "OPERATE" /\ mc \in {"transition", "forbidden"}

FrameRejected(short_cycle) ==
  /\ FrameDone /\ CycleCheck(short_cycle)
  /\ Rejected
  /\ dll_enter_fallback(CycleStats(short_cycle) \cup {"framing_errors"},
                        TimingEvent(short_cycle))

(* dll_handle_preoperate: the transition command, which is not answered.   *)
IsTransition ==
  /\ FrameState \in {"PREOPERATE", "ESTAB_COM"}
  /\ req_len <= 2 /\ mc = "transition"

FrameTransition(short_cycle) ==
  /\ FrameDone /\ CycleCheck(short_cycle)
  /\ IsTransition
  /\ state' = "ESTAB_COM"
  /\ fallback_count' = 0
  /\ stats' = Count(CycleStats(short_cycle))
  /\ out' = Output(0, TimingEvent(short_cycle), "none", "good")
  /\ KeepBaudrate /\ UNCHANGED phy_mode

(* dll_handle_operate_type0: the control byte itself is the on-request     *)
(* byte for the ISDU engine, whose answer is sent at once.  (In ESTAB_COM  *)
(* a length that wraps around to 0 or 1 comes here too.)                   *)
FrameType0(short_cycle) ==
  /\ FrameDone /\ CycleCheck(short_cycle)
  /\ req_len <= 2
  /\ ~Rejected /\ ~IsTransition
  /\ state' = FrameState
  /\ stats' = Count(CycleStats(short_cycle))
  /\ out' = Output(1, TimingEvent(short_cycle), "type0", "good")
  /\ KeepBaudrate /\ UNCHANGED <<phy_mode, fallback_count>>

(* Mutant: a good cyclic frame does not clear the count. *)
FrameCyclicKeepsCount(short_cycle, late) ==
  /\ FrameDone /\ CycleCheck(short_cycle)
  /\ req_len > 2 /\ FrameState \in {"ESTAB_COM", "OPERATE"}
  /\ ~Rejected
  /\ late => enforce_timing /\ dll_get_t_ren_limit_us(baudrate) > 0
  /\ state' = "OPERATE"
  /\ fallback_count' = fallback_count
  /\ stats' = Count(CycleStats(short_cycle) \cup
                    (IF late THEN {"timing_errors", "t_ren_violations"} ELSE {}))
  /\ out' = Output(OdLen, TimingEvent(short_cycle) \o TimingEvent(late), "cyclic", "good")
  /\ KeepBaudrate /\ UNCHANGED phy_mode

(* dll_handle_operate_type1_2: process data and the on-request bytes are   *)
(* exchanged; late says that the response took longer than t_ren.          *)
FrameCyclic(short_cycle, late) ==
  /\ FrameDone /\ CycleCheck(short_cycle)
  /\ req_len > 2 /\ FrameState \in {"ESTAB_COM", "OPERATE"}
  /\ ~Rejected
  /\ late => enforce_timing /\ dll_get_t_ren_limit_us(baudrate) > 0
  /\ state' = "OPERATE"
  /\ fallback_count' = 0
  /\ stats' = Count(CycleStats(short_cycle) \cup
                    (IF late THEN {"timing_errors", "t_ren_violations"} ELSE {}))
  /\ out' = Output(OdLen, TimingEvent(short_cycle) \o TimingEvent(late), "cyclic", "good")
  /\ KeepBaudrate /\ UNCHANGED phy_mode

(* A valid frame of more than two bytes finds the device in ESTAB_COM or   *)
(* in OPERATE (LongFrameIsHandled), so the test of req_len that the code   *)
(* makes in PREOPERATE has no other outcome to model.                      *)
HandleFrame ==
  \E short_cycle \in BOOLEAN :
    \/ FrameBadCrc(short_cycle)
    \/ FrameRejected(short_cycle)
    \/ FrameTransition(short_cycle)
    \/ FrameType0(short_cycle)
    \/ \E late \in BOOLEAN : FrameCyclic(short_cycle, late)

-----------------------------------------------------------------------------
(* The application's calls, made between two calls of iolink_process.      *)

(* Mutant: any length is accepted. *)
SetPdLengthAny(len) ==
  /\ pc = "idle"
  /\ pd_out_len_current' = len
  /\ out' = NoOut
  /\ UNCHANGED <<link, frame, enforce_timing, t_ren_override, t_ren_limit_us, timers,
                 stats, pc, line>>

(* A length above IOLINK_PD_OUT_MAX_SIZE is refused.  A frame that is      *)
(* being assembled keeps the length it was started with.                   *)
SetPdLength(len) ==
  /\ pc = "idle"
  /\ len <= PdOutMax
  /\ pd_out_len_current' = len
  /\ out' = NoOut
  /\ UNCHANGED <<link, frame, enforce_timing, t_ren_override, t_ren_limit_us, timers,
                 stats, pc, line>>

SetTimingEnforcement(enable) ==
  /\ pc = "idle"
  /\ enforce_timing' = enable
  /\ out' = NoOut
  /\ UNCHANGED <<link, frame, pd_out_len_current, t_ren_override, t_ren_limit_us, timers,
                 stats, pc, line>>

SetTRenLimit(limit) ==
  /\ pc = "idle"
  /\ t_ren_limit_us' = limit
  /\ t_ren_override' = (limit # 0)
  /\ out' = NoOut
  /\ UNCHANGED <<link, frame, pd_out_len_current, enforce_timing, timers, stats, pc, line>>

(* iolink_dll_set_baudrate, by the owner of the context.  It changes the   *)
(* limit of the pause between two bytes too, and so whether one that is    *)
(* under way is over.                                                      *)
SetBaudrate(b, gap) ==
  /\ pc = "idle"
  /\ gap = gap_over \/ frame_index > 0
  /\ set_baudrate(b)
  /\ gap_over' = gap
  /\ out' = NoOut
  /\ UNCHANGED <<state, phy_mode, fallback_count, frame, config, armed, idle, t_pd_active,
                 dwu_active, cycle_started, stats, pc, line>>

(* iolink_dll_set_sio_mode and iolink_dll_set_sdci_mode, by the owner of   *)
(* the context: they touch neither state nor partial frame nor rate.       *)
SetMode(mode) ==
  /\ pc = "idle"
  /\ phy_mode' = mode
  /\ out' = NoOut
  /\ UNCHANGED <<state, baudrate, fallback_count, frame, config, t_ren_limit_us, timers,
                 stats, pc, line>>

-----------------------------------------------------------------------------
(* The environment.  A tick is far longer than the microsecond limits, so  *)
(* it ends both of them; they may also end between two ticks.              *)

Tick ==
  /\ idle' = IF armed /\ idle <= SilenceTicks THEN idle + 1 ELSE idle
  /\ gap_over' = (gap_over \/ frame_index > 0)
  /\ dwu_active' = FALSE
  /\ out' = NoOut
  /\ UNCHANGED <<link, frame, config, t_ren_limit_us, armed, t_pd_active, cycle_started,
                 stats, pc, line>>

ByteGap ==
  /\ frame_index > 0
  /\ gap_over' = TRUE
  /\ out' = NoOut
  /\ UNCHANGED <<link, frame, config, t_ren_limit_us, armed, idle, t_pd_active, dwu_active,
                 cycle_started, stats, pc, line>>

DwuElapsed ==
  /\ dwu_active' = FALSE
  /\ out' = NoOut
  /\ UNCHANGED <<link, frame, config, t_ren_limit_us, armed, idle, gap_over, t_pd_active,
                 cycle_started, stats, pc, line>>

TPdElapsed ==
  /\ t_pd_active' = FALSE
  /\ out' = NoOut
  /\ UNCHANGED <<link, frame, config, t_ren_limit_us, armed, idle, gap_over, dwu_active,
                 cycle_started, stats, pc, line>>

(* The master stops talking for good: it is gone or the cable is cut.      *)
MasterGone ==
  /\ line' = "gone"
  /\ out' = NoOut
  /\ UNCHANGED <<link, frame, config, t_ren_limit_us, timers, stats, pc>>

-----------------------------------------------------------------------------
Process ==
  \/ \E v, s \in BOOLEAN : Begin(v, s)
  \/ \E b \in BOOLEAN : TPdDrain(b)
  \/ \E w \in BOOLEAN : SioPoll(w)
  \/ SilenceCheck
  \/ DwuWait
  \/ DwuOver
  \/ HandleFrame
  \/ LoopEnd

(* A byte stamped with the millisecond 0 leaves last_activity_ms at 0.     *)
Receive ==
  \E b \in MCs, a \in (IF ClockMayBeZero THEN BOOLEAN ELSE {TRUE}) : RecvByte(b, a)

Application ==
  \/ \E len \in PdOutLens : SetPdLength(len)
  \/ \E e \in BOOLEAN : SetTimingEnforcement(e)
  \/ \E l \in TRenLimits : SetTRenLimit(l)
  \/ ModeSetters /\ \E b \in Baudrates, gap \in BOOLEAN : SetBaudrate(b, gap)
  \/ ModeSetters /\ \E mode \in PhyModes : SetMode(mode)

Environment ==
  \/ Tick
  \/ ByteGap
  \/ DwuElapsed
  \/ TPdElapsed
  \/ MasterGone

Next == Process \/ Receive \/ Application \/ Environment

Spec == Init /\ [][Next]_vars

(* The main loop keeps calling iolink_process, every call returns once the *)
(* receive FIFO is empty, and time passes.  Nothing is assumed of the      *)
(* master or of the application.                                           *)
Fairness == WF_vars(Process) /\ WF_vars(Tick) /\ WF_vars(TPdElapsed)

FairSpec == Spec /\ Fairness

-----------------------------------------------------------------------------
(* Properties *)

TypeOK ==
  /\ state \in DllStates /\ phy_mode \in PhyModes /\ baudrate \in Baudrates
  /\ frame_index \in Nat /\ req_len \in Nat /\ mc \in MCs
  /\ fallback_count \in Nat
  /\ pd_out_len_current \in 0..PdOutMax \cup {PdOutLen}
  /\ enforce_timing \in BOOLEAN /\ t_ren_override \in BOOLEAN
  /\ t_ren_limit_us \in Nat
  /\ armed \in BOOLEAN /\ idle \in 0..(SilenceTicks + 1)
  /\ gap_over \in BOOLEAN /\ t_pd_active \in BOOLEAN /\ dwu_active \in BOOLEAN
  /\ cycle_started \in BOOLEAN
  /\ stats \in [StatNames -> 0..MaxStat]
  /\ pc \in {"idle", "gate", "dwu", "loop", "frame"}
  /\ line \in {"live", "gone"}
  /\ out \in Outputs

(* For a configured length that fits, and whenever set_pd_length is        *)
(* called: a frame is handled with exactly the bytes that were received,   *)
(* so the check reads what is there, and the cyclic handler's copies, made *)
(* with the length in force by then, stay within frame_buf and pd_out.     *)
FrameFits ==
  pc = "frame" =>
    /\ frame_index = req_len /\ req_len \in 2..FrameBufSize
    /\ req_len > 2 => /\ pd_out_len_current <= PdOutMax
                      /\ 2 + pd_out_len_current + OdLen <= FrameBufSize

(* A frame longer than two bytes is only ever under way in ESTAB_COM or    *)
(* OPERATE, whatever timeouts, fallbacks and setters come between its      *)
(* bytes: once it is complete and valid some branch of iolink_dll_process  *)
(* handles it, and none is dropped without an answer or a count.           *)
LongFrameIsHandled ==
  frame_index > 0 /\ req_len > 2 =>
    CyclicType /\ state \in {"ESTAB_COM", "OPERATE"}

(* Left to itself, the stack assembles a frame longer than two bytes only  *)
(* at a rate above COM1 with the PHY in SDCI mode: the length a frame was  *)
(* given at its first byte still suits the link at its last byte.          *)
LongFrameIsCyclic ==
  frame_index > 0 /\ req_len > 2 =>
    /\ CyclicType /\ baudrate # "COM1" /\ phy_mode = "SDCI"
    /\ state \in {"ESTAB_COM", "OPERATE"}

(* Without the rate and mode setters, cyclic exchange happens in SDCI      *)
(* mode, above COM1, on a device with process data, and OPERATE handles no *)
(* two-byte frame: the Type 0 branch of OPERATE in iolink_dll_process is   *)
(* never taken.                                                            *)
OperateIsCyclic ==
  state = "OPERATE" =>
    /\ CyclicType /\ baudrate # "COM1" /\ phy_mode = "SDCI"
    /\ frame_index > 0 => req_len > 2

(* Without the rate and mode setters, a PHY in SIO mode above COM1 belongs *)
(* to a device that has not received anything since its initialisation: it  *)
(* is in STARTUP, without a partial frame and outside the receive loop.    *)
SioAboveComOneIsFresh ==
  phy_mode = "SIO" /\ baudrate # "COM1" =>
    state = "STARTUP" /\ frame_index = 0 /\ pc \in {"idle", "gate"}

(* Every CRC error is also counted as a retry and every retry as a framing *)
(* error; every timing violation of any kind is in timing_errors.          *)
ErrorAccounting ==
  /\ stats["crc_errors"] <= stats["total_retries"]
  /\ stats["total_retries"] <= stats["framing_errors"]
  /\ \A s \in {"t_ren_violations", "t_cycle_violations", "t_byte_violations",
               "t_pd_violations"} : stats[s] <= stats["timing_errors"]

(* A partial frame blocks the wake-up detection in SIO mode; where the     *)
(* clock does not read 0 while bytes arrive it is always under the         *)
(* inactivity timer, which will remove it.                                 *)
PartialFrameIsTimed == frame_index > 0 => armed

(* Whichever of the stack's three exits from SDCI mode is taken, the       *)
(* device is in STARTUP at COM1 with no partial frame.                     *)
LeavingSdciIsClean ==
  [][phy_mode = "SDCI" /\ phy_mode' = "SIO" =>
       state' = "STARTUP" /\ baudrate' = "COM1" /\ frame_index' = 0]_vars

(* A device whose master falls silent for good ends up in SIO mode and     *)
(* STARTUP without a partial frame, ready for a wake-up, and stays there,  *)
(* whatever was under way, except where it was woken and no byte came.     *)
(* This takes a clock that does not read 0 when a byte arrives, since 0 in *)
(* last_activity_ms also means that no timer is running.                   *)
SilenceEndsInSio ==
  (line = "gone" /\ (state = "AWAITING_COMM" => frame_index > 0)) ~>
     [](phy_mode = "SIO" /\ state = "STARTUP" /\ frame_index = 0)

=============================================================================
