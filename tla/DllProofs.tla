------------------------------ MODULE DllProofs -----------------------------
(***************************************************************************)
(* Theorems about the data link layer, for every configuration of it.      *)
(***************************************************************************)
EXTENDS MCDllStreak, SequenceTheorems, TLAPS

(* The configured length is one that the buffers were made for, which      *)
(* iolink_init does not check.                                             *)
ConfigFits == PdOutLen <= PdOutMax

(* A frame is handled as soon as its length is reached, and only then.     *)
Assembly ==
  /\ frame_index > 0 /\ pc # "frame" => frame_index < req_len
  /\ pc = "frame" => frame_index > 0

(* dll_enter_fallback resets the count when it reaches the threshold.      *)
FallbackBelowThreshold == fallback_count < Threshold

(* What ConfigFits is for.                                                 *)
LengthFits ==
  /\ pd_out_len_current <= PdOutMax
  /\ frame_index > 0 => frame_index <= req_len /\ req_len \in 2..FrameBufSize
  /\ pc = "frame" => frame_index = req_len

OperateIsLinked ==
  state = "OPERATE" => CyclicType /\ baudrate # "COM1" /\ phy_mode = "SDCI"

(* The inductive invariant: LinkInv holds whatever the application calls,  *)
(* StackInv when it leaves rate and mode to the stack.  OperateIsCyclic    *)
(* alone is not inductive: that the frame handled in OPERATE is a long one *)
(* needs the length given to it at its first byte (LongFrameIsCyclic), and *)
(* that a long frame is only begun in SDCI mode needs                      *)
(* SioAboveComOneIsFresh, since the receive loop itself does not look at   *)
(* the mode.                                                               *)
StackInv ==
  /\ LongFrameIsCyclic
  /\ OperateIsLinked
  /\ SioAboveComOneIsFresh
  /\ ConfigFits => OperateIsCyclic

LinkInv ==
  /\ Assembly
  /\ LongFrameIsHandled
  /\ FallbackBelowThreshold
  /\ ConfigFits => LengthFits
  /\ ~ModeSetters => StackInv

-----------------------------------------------------------------------------
(* Helpers *)

(* Counting an error keeps every counter within its bound.                 *)
LEMMA CountType ==
  ASSUME TypeOK, NEW names PROVE Count(names) \in [StatNames -> 0..MaxStat]
BY DllConstants DEF TypeOK, Count

LEMMA TimingEventType ==
  ASSUME NEW b \in BOOLEAN PROVE TimingEvent(b) \in Seq(EventCodes)
<1>1. <<"COMM_TIMING">> \in Seq(EventCodes) /\ << >> \in Seq(EventCodes)
  BY DEF EventCodes
<1> QED BY <1>1 DEF TimingEvent

LEMMA NoOutType == NoOut \in Outputs
<1>1. << >> \in Seq(EventCodes)
  OBVIOUS
<1> QED BY <1>1 DEF NoOut, Output, Outputs

(* The t_ren limit in force is a natural number at every rate.             *)
LEMMA TRenLimitType ==
  ASSUME TypeOK, NEW b \in Baudrates PROVE dll_get_t_ren_limit_us(b) \in Nat
BY DEF TypeOK, dll_get_t_ren_limit_us, TRenDefault, Baudrates

(* The length a frame is given at its first byte is 2, or that of a cyclic *)
(* frame; it fits the frame buffer when the PD length does.                *)
LEMMA RequestLengthFits ==
  ASSUME TypeOK, NEW b \in MCs
  PROVE  /\ RequestLength(b) \in Nat
         /\ RequestLength(b) > 2 =>
              CyclicType /\ baudrate # "COM1" /\ state \in {"ESTAB_COM", "OPERATE"}
         /\ pd_out_len_current <= PdOutMax =>
              /\ RequestLength(b) \in 2..FrameBufSize
              /\ CyclicType /\ baudrate # "COM1" /\ state = "OPERATE" => RequestLength(b) > 2
<1>1. CyclicLen \in Nat
  BY DllConstants DEF TypeOK, CyclicLen
<1>2. CyclicLen % 256 \in Nat
  BY <1>1
<1>3. ASSUME pd_out_len_current <= PdOutMax
      PROVE  CyclicLen \in 4..37 /\ CyclicLen % 256 = CyclicLen
  <2>1. CyclicLen \in 4..37
    BY <1>3, DllConstants DEF TypeOK, CyclicLen
  <2> QED BY <2>1
<1> QED BY <1>2, <1>3, DllConstants DEF RequestLength

(* What dll_enter_fallback does to the link.                               *)
LEMMA FallbackEffect ==
  ASSUME TypeOK, FallbackBelowThreshold, NEW names, NEW evs \in Seq(EventCodes),
         dll_enter_fallback(names, evs)
  PROVE  /\ state' \in DllStates /\ phy_mode' \in PhyModes /\ baudrate' \in Baudrates
         /\ fallback_count' \in Nat /\ fallback_count' < Threshold
         /\ t_ren_limit_us' \in Nat
         /\ stats' \in [StatNames -> 0..MaxStat]
         /\ out' \in Outputs
         /\ \/ state' = "STARTUP" /\ baudrate' = "COM1" /\ phy_mode' \in {"SIO", phy_mode}
            \/ /\ state \in {"OPERATE", "ESTAB_COM"}
               /\ UNCHANGED <<state, baudrate, phy_mode>>
<1>1. stats' \in [StatNames -> 0..MaxStat]
  BY CountType DEF dll_enter_fallback
<1>2. fallback_count' \in Nat /\ fallback_count' < Threshold
  BY DllConstants DEF dll_enter_fallback, FallbackBelowThreshold, TypeOK
<1>3. state' \in DllStates /\ phy_mode' \in PhyModes
  BY DEF dll_enter_fallback, TypeOK, DllStates, PhyModes
<1>4. baudrate' \in Baudrates /\ t_ren_limit_us' \in Nat
  BY TRenLimitType DEF dll_enter_fallback, set_baudrate, KeepBaudrate, TypeOK, Baudrates
<1>5. out' \in Outputs
  <2>1. <<"COMM_FRAMING">> \in Seq(EventCodes) /\ << >> \in Seq(EventCodes)
    BY DEF EventCodes
  <2>2. PICK e \in Seq(EventCodes) : out' = Output(0, evs \o e, "none", "bad")
    BY <2>1 DEF dll_enter_fallback
  <2>3. evs \o e \in Seq(EventCodes)
    BY ConcatProperties
  <2> QED BY <2>2, <2>3 DEF Output, Outputs
<1>6. \/ state' = "STARTUP" /\ baudrate' = "COM1" /\ phy_mode' \in {"SIO", phy_mode}
      \/ state \in {"OPERATE", "ESTAB_COM"} /\ UNCHANGED <<state, baudrate, phy_mode>>
  BY DEF dll_enter_fallback, set_baudrate, KeepBaudrate
<1> QED BY <1>1, <1>2, <1>3, <1>4, <1>5, <1>6

-----------------------------------------------------------------------------
(* Each group of actions preserves the types and the invariant *)

(* The actions of iolink_dll_process before the receive loop.              *)
LEMMA GateSteps ==
  ASSUME TypeOK, LinkInv,
         \/ \E b \in BOOLEAN : TPdDrain(b)
         \/ \E w \in BOOLEAN : SioPoll(w)
         \/ DwuWait
         \/ DwuOver
         \/ LoopEnd
  PROVE  TypeOK' /\ LinkInv'
<1>1. CASE \E b \in BOOLEAN : TPdDrain(b)
  <2>1. PICK b \in BOOLEAN : TPdDrain(b)
    BY <1>1
  <2>2. stats' \in [StatNames -> 0..MaxStat]
    BY <2>1, CountType DEF TPdDrain, TypeOK
  <2>3. out' \in Outputs
    BY <2>1, TimingEventType DEF TPdDrain, Output, Outputs
  <2>4. TypeOK'
    BY <2>1, <2>2, <2>3 DEF TPdDrain, TypeOK, link, frame, config, timers
  <2>5. LinkInv'
    BY <2>1 DEF TPdDrain, LinkInv, link, frame, config, timers, Assembly, LengthFits,
       LongFrameIsHandled,
        StackInv, LongFrameIsCyclic, OperateIsLinked, OperateIsCyclic, SioAboveComOneIsFresh,
        FallbackBelowThreshold
  <2> QED BY <2>4, <2>5
<1>2. CASE \E w \in BOOLEAN : SioPoll(w)
  <2>1. PICK w \in BOOLEAN : SioPoll(w)
    BY <1>2
  <2>2. TypeOK'
    BY <2>1, NoOutType DEF SioPoll, TypeOK, frame, config, DllStates, PhyModes
  <2>3. LinkInv'
    BY <2>1 DEF SioPoll, LinkInv, frame, config, Assembly, LengthFits, LongFrameIsHandled,
        StackInv, LongFrameIsCyclic, OperateIsLinked, OperateIsCyclic, SioAboveComOneIsFresh,
        FallbackBelowThreshold
  <2> QED BY <2>2, <2>3
<1>3. CASE DwuWait \/ DwuOver \/ LoopEnd
  <2>1. TypeOK'
    BY <1>3, NoOutType DEF DwuWait, DwuOver, LoopEnd, TypeOK, link, frame, config, timers
  <2>2. LinkInv'
    BY <1>3 DEF DwuWait, DwuOver, LoopEnd, LinkInv, link, frame, config, timers, Assembly,
       LengthFits, LongFrameIsHandled,
        StackInv, LongFrameIsCyclic, OperateIsLinked, OperateIsCyclic, SioAboveComOneIsFresh,
        FallbackBelowThreshold
  <2> QED BY <2>1, <2>2
<1> QED BY <1>1, <1>2, <1>3

(* The inactivity timeout leaves SDCI mode with the link reset.            *)
LEMMA BeginStep ==
  ASSUME TypeOK, LinkInv, NEW v \in BOOLEAN, NEW s \in BOOLEAN, Begin(v, s)
  PROVE  TypeOK' /\ LinkInv'
<1>1. out' \in Outputs
  <2>1. /\ <<"VOLTAGE_FAULT">> \in Seq(EventCodes) /\ <<"SHORT_CIRCUIT">> \in Seq(EventCodes)
        /\ << >> \in Seq(EventCodes)
    BY DEF EventCodes
  <2>2. PICK e \in Seq(EventCodes), f \in Seq(EventCodes) :
          out' = Output(0, e \o f, "none", "none")
    BY <2>1 DEF Begin, Diagnostics
  <2>3. e \o f \in Seq(EventCodes)
    BY ConcatProperties
  <2> QED BY <2>2, <2>3 DEF Output, Outputs
<1>2. CASE armed /\ idle > SilenceTicks
  <2>1. baudrate' \in Baudrates /\ t_ren_limit_us' \in Nat
    BY <1>2, TRenLimitType DEF Begin, set_baudrate, KeepBaudrate, TypeOK, Baudrates
  <2>2. baudrate' = IF phy_mode # "SIO" THEN "COM1" ELSE baudrate
    BY <1>2 DEF Begin, set_baudrate, KeepBaudrate
  <2>3. TypeOK'
    <3>1. /\ armed' = FALSE /\ idle' = 0 /\ phy_mode' = "SIO" /\ state' = "STARTUP"
          /\ frame_index' = 0 /\ pc' = "gate"
          /\ UNCHANGED <<fallback_count, req_len, mc, config, stats, line,
                         gap_over, t_pd_active, dwu_active, cycle_started>>
      BY <1>2 DEF Begin
    <3>2. armed' \in BOOLEAN
      BY <3>1, Zenon
    <3>3. idle' \in 0..(SilenceTicks + 1)
      BY <3>1, DllConstants
    <3>4. UNCHANGED <<pd_out_len_current, enforce_timing, t_ren_override>>
      BY <3>1 DEF config
    <3> QED BY <1>1, <2>1, <3>1, <3>2, <3>3, <3>4 DEF TypeOK, DllStates, PhyModes
  <2>4. LinkInv'
    BY <1>2, <2>2 DEF Begin, LinkInv, config, Assembly, LengthFits, LongFrameIsHandled,
        StackInv, LongFrameIsCyclic, OperateIsLinked, OperateIsCyclic, SioAboveComOneIsFresh,
        FallbackBelowThreshold
  <2> QED BY <2>3, <2>4
<1>3. CASE ~(armed /\ idle > SilenceTicks)
  <2>1. TypeOK'
    BY <1>1, <1>3 DEF Begin, TypeOK, config
  <2>2. LinkInv'
    BY <1>3 DEF Begin, LinkInv, config, Assembly, LengthFits, LongFrameIsHandled,
        StackInv, LongFrameIsCyclic, OperateIsLinked, OperateIsCyclic, SioAboveComOneIsFresh,
        FallbackBelowThreshold
  <2> QED BY <2>1, <2>2
<1> QED BY <1>2, <1>3

(* An overdue frame is dropped; the call goes on to the receive loop.      *)
LEMMA SilenceCheckStep ==
  ASSUME TypeOK, LinkInv, SilenceCheck PROVE TypeOK' /\ LinkInv'
<1>1. CASE frame_index > 0 /\ enforce_timing /\ gap_over
  <2>1. TimingEvent(TRUE) \in Seq(EventCodes)
    BY TimingEventType
  <2> DEFINE names == {"timing_errors", "t_byte_violations", "framing_errors"}
  <2>2. dll_enter_fallback(names, TimingEvent(TRUE)) /\ frame_index' = 0
    BY <1>1 DEF SilenceCheck
  <2>3. FallbackBelowThreshold
    BY DEF LinkInv
  <2> HIDE DEF names
  <2>4. /\ state' \in DllStates /\ phy_mode' \in PhyModes /\ baudrate' \in Baudrates
        /\ fallback_count' \in Nat /\ fallback_count' < Threshold /\ t_ren_limit_us' \in Nat
        /\ stats' \in [StatNames -> 0..MaxStat] /\ out' \in Outputs
        /\ \/ state' = "STARTUP" /\ baudrate' = "COM1" /\ phy_mode' \in {"SIO", phy_mode}
           \/ /\ state \in {"OPERATE", "ESTAB_COM"}
              /\ UNCHANGED <<state, baudrate, phy_mode>>
    BY <2>1, <2>2, <2>3, FallbackEffect
  <2>5. /\ pc = "gate" /\ phy_mode = "SDCI" /\ pc' = "dwu"
        /\ UNCHANGED <<req_len, mc, config, timers, line>>
    BY DEF SilenceCheck
  <2>6. TypeOK'
    BY <2>2, <2>4, <2>5 DEF TypeOK, config, timers
  <2>7. LinkInv'
    BY <2>2, <2>4, <2>5 DEF LinkInv, config, Assembly, LengthFits, LongFrameIsHandled,
        StackInv, LongFrameIsCyclic, OperateIsLinked, OperateIsCyclic, SioAboveComOneIsFresh,
        FallbackBelowThreshold
  <2> QED BY <2>6, <2>7
<1>2. CASE ~(frame_index > 0 /\ enforce_timing /\ gap_over)
  <2>1. TypeOK'
    BY <1>2, NoOutType DEF SilenceCheck, TypeOK, link, config, timers
  <2>2. LinkInv'
    BY <1>2 DEF SilenceCheck, LinkInv, link, config, Assembly, LengthFits, LongFrameIsHandled,
        StackInv, LongFrameIsCyclic, OperateIsLinked, OperateIsCyclic, SioAboveComOneIsFresh,
        FallbackBelowThreshold
  <2> QED BY <2>1, <2>2
<1> QED BY <1>1, <1>2

(* One byte of the receive loop: the length of a frame is fixed at its     *)
(* first byte and agrees with the link it is received on.                  *)
LEMMA RecvByteStep ==
  ASSUME TypeOK, LinkInv, NEW b \in MCs, NEW a \in BOOLEAN, RecvByte(b, a)
  PROVE  TypeOK' /\ LinkInv'
<1> DEFINE late  == frame_index > 0 /\ enforce_timing /\ gap_over
           first == frame_index = 0 \/ late
<1>1. /\ pc = "loop" /\ pc' \in {"loop", "frame"}
      /\ pc' = IF frame_index' > 0 /\ frame_index' >= req_len' THEN "frame" ELSE "loop"
      /\ UNCHANGED <<link, config, t_ren_limit_us, t_pd_active, dwu_active, cycle_started, line>>
  BY DEF RecvByte
<1>2. /\ first => frame_index' = 1 /\ req_len' = RequestLength(b) /\ mc' = b
      /\ ~first => /\ frame_index' = 0 \/ frame_index' = frame_index + 1
                   /\ req_len' = req_len /\ mc' = mc
  BY DllConstants, <1>1 DEF RecvByte, TypeOK
<1>3. /\ RequestLength(b) \in Nat
      /\ RequestLength(b) > 2 =>
           CyclicType /\ baudrate # "COM1" /\ state \in {"ESTAB_COM", "OPERATE"}
      /\ ConfigFits =>
           /\ RequestLength(b) \in 2..FrameBufSize
           /\ CyclicType /\ baudrate # "COM1" /\ state = "OPERATE" => RequestLength(b) > 2
  BY RequestLengthFits DEF LinkInv, LengthFits
<1>4. stats' \in [StatNames -> 0..MaxStat]
  BY CountType DEF RecvByte
<1>5. out' \in Outputs
  <2>1. PICK l \in BOOLEAN : out' = Output(0, TimingEvent(l), "none", "none")
    BY DEF RecvByte
  <2> QED BY <2>1, TimingEventType DEF Output, Outputs
<1>6. armed' \in BOOLEAN /\ idle' = 0 /\ gap_over' \in BOOLEAN
  BY Zenon DEF RecvByte
<1>7. idle' \in 0..(SilenceTicks + 1)
  BY <1>6, DllConstants
<1> HIDE DEF late, first
<1>8. frame_index' \in Nat /\ req_len' \in Nat /\ mc' \in MCs
  BY <1>2, <1>3 DEF TypeOK
<1>9. TypeOK'
  BY <1>1, <1>4, <1>5, <1>6, <1>7, <1>8 DEF TypeOK, link, config
<1>10. frame_index > 0 \/ first
  BY DEF first, TypeOK
<1>11. Assembly'
  BY <1>1, <1>2, <1>3, <1>8, <1>10 DEF LinkInv, Assembly, TypeOK
<1>12. LongFrameIsHandled' /\ FallbackBelowThreshold'
  BY <1>1, <1>2, <1>3, <1>10 DEF LinkInv, LongFrameIsHandled, FallbackBelowThreshold, link
<1>13. ConfigFits => LengthFits'
  BY <1>1, <1>2, <1>3, <1>8, <1>10, DllConstants DEF LinkInv, Assembly, LengthFits, TypeOK, config
<1>14. ASSUME StackInv PROVE StackInv'
  <2>1. LongFrameIsCyclic'
    BY <1>1, <1>2, <1>3, <1>10, <1>14 DEF StackInv, LongFrameIsCyclic, SioAboveComOneIsFresh,
       TypeOK, PhyModes, link
  <2>2. ConfigFits => OperateIsCyclic'
    BY <1>1, <1>2, <1>3, <1>10, <1>14 DEF StackInv, OperateIsCyclic, link
  <2>3. SioAboveComOneIsFresh' /\ OperateIsLinked'
    BY <1>1, <1>14 DEF StackInv, SioAboveComOneIsFresh, OperateIsLinked, link
  <2> QED BY <2>1, <2>2, <2>3 DEF StackInv, ConfigFits
<1> QED BY <1>9, <1>11, <1>12, <1>13, <1>14 DEF LinkInv, ConfigFits

(* A frame that ends in a fallback.                                        *)
LEMMA BadFrameStep ==
  ASSUME TypeOK, LinkInv, FrameDone, NEW names, NEW c \in BOOLEAN,
         dll_enter_fallback(names, TimingEvent(c))
  PROVE  TypeOK' /\ LinkInv'
<1>1. TimingEvent(c) \in Seq(EventCodes) /\ FallbackBelowThreshold
  BY TimingEventType DEF LinkInv
<1>2. /\ state' \in DllStates /\ phy_mode' \in PhyModes /\ baudrate' \in Baudrates
      /\ fallback_count' \in Nat /\ fallback_count' < Threshold /\ t_ren_limit_us' \in Nat
      /\ stats' \in [StatNames -> 0..MaxStat] /\ out' \in Outputs
      /\ \/ state' = "STARTUP" /\ baudrate' = "COM1" /\ phy_mode' \in {"SIO", phy_mode}
         \/ /\ state \in {"OPERATE", "ESTAB_COM"}
            /\ UNCHANGED <<state, baudrate, phy_mode>>
  BY <1>1, FallbackEffect
<1>3. /\ pc = "frame" /\ pc' = "loop" /\ frame_index' = 0 /\ cycle_started' = TRUE
      /\ UNCHANGED <<req_len, mc, pd_out_len_current, enforce_timing, t_ren_override, armed,
                     idle, gap_over, t_pd_active, dwu_active, line>>
  BY DEF FrameDone, config
<1>4. cycle_started' \in BOOLEAN
  BY <1>3, Zenon
<1>5. TypeOK'
  BY <1>2, <1>3, <1>4 DEF TypeOK
<1>6. LinkInv'
  BY <1>2, <1>3 DEF LinkInv, Assembly, LengthFits, LongFrameIsHandled,
        StackInv, LongFrameIsCyclic, OperateIsLinked, OperateIsCyclic, SioAboveComOneIsFresh,
        FallbackBelowThreshold
<1> QED BY <1>5, <1>6

(* A valid frame: only a long one, on an established link above COM1 in    *)
(* SDCI mode, moves the device to OPERATE.                                 *)
LEMMA GoodFrameStep ==
  ASSUME TypeOK, LinkInv, NEW c \in BOOLEAN,
         \/ FrameTransition(c)
         \/ FrameType0(c)
         \/ \E l \in BOOLEAN : FrameCyclic(c, l)
  PROVE  TypeOK' /\ LinkInv'
<1>1. /\ pc = "frame" /\ pc' = "loop" /\ frame_index' = 0 /\ cycle_started' = TRUE
      /\ UNCHANGED <<req_len, mc, pd_out_len_current, enforce_timing, t_ren_override, armed,
                     idle, gap_over, t_pd_active, dwu_active, line>>
      /\ UNCHANGED <<baudrate, t_ren_limit_us, phy_mode>>
      /\ fallback_count' \in {0, fallback_count}
      /\ stats' \in [StatNames -> 0..MaxStat]
  BY CountType DEF FrameDone, config, FrameTransition, FrameType0, FrameCyclic, KeepBaudrate
<1>2. out' \in Outputs
  <2>1. CASE FrameTransition(c)
    BY <2>1, TimingEventType DEF FrameTransition, Output, Outputs
  <2>2. CASE FrameType0(c)
    BY <2>2, TimingEventType DEF FrameType0, Output, Outputs
  <2>3. CASE \E l \in BOOLEAN : FrameCyclic(c, l)
    <3>1. PICK l \in BOOLEAN : FrameCyclic(c, l)
      BY <2>3
    <3>2. TimingEvent(c) \in Seq(EventCodes) /\ TimingEvent(l) \in Seq(EventCodes)
      BY TimingEventType
    <3>3. TimingEvent(c) \o TimingEvent(l) \in Seq(EventCodes)
      BY <3>2, ConcatProperties
    <3>4. OdLen \in 0..2
      BY DllConstants
    <3> QED BY <3>1, <3>3, <3>4 DEF FrameCyclic, Output, Outputs
  <2> QED BY <2>1, <2>2, <2>3
<1>3. /\ state' \in DllStates
      /\ state' = "OPERATE" => state = "OPERATE" \/ req_len > 2
  BY DEF FrameTransition, FrameType0, FrameCyclic, FrameState, DllStates, TypeOK
<1>4. frame_index > 0
  BY <1>1 DEF LinkInv, Assembly
<1>5. ~ModeSetters /\ req_len > 2 => CyclicType /\ baudrate # "COM1" /\ phy_mode = "SDCI"
  BY <1>4 DEF LinkInv, StackInv, LongFrameIsCyclic
<1>6. cycle_started' \in BOOLEAN
  BY <1>1, Zenon
<1>7. TypeOK'
  BY <1>1, <1>2, <1>3, <1>6 DEF TypeOK
<1>8. LinkInv'
  BY <1>1, <1>3, <1>5, DllConstants DEF LinkInv, Assembly, LengthFits, LongFrameIsHandled,
        StackInv, LongFrameIsCyclic, OperateIsLinked, OperateIsCyclic, SioAboveComOneIsFresh,
        FallbackBelowThreshold
<1> QED BY <1>7, <1>8

(* The application's calls.  set_pd_length refuses a length that the frame *)
(* buffer was not made for; the rate and mode setters break StackInv, and  *)
(* nothing else.                                                           *)
LEMMA ApplicationStep ==
  ASSUME TypeOK, LinkInv, Application PROVE TypeOK' /\ LinkInv'
<1>1. /\ UNCHANGED <<state, fallback_count, frame, armed, idle, t_pd_active, dwu_active,
                     cycle_started, stats, pc, line>>
      /\ out' = NoOut
      /\ ~ModeSetters => UNCHANGED <<phy_mode, baudrate>>
  BY DEF Application, SetPdLength, SetTimingEnforcement, SetTRenLimit, SetBaudrate, SetMode,
     link, timers
<1>2. /\ pd_out_len_current' \in 0..PdOutMax \cup {PdOutLen}
      /\ ConfigFits => pd_out_len_current' <= PdOutMax
  <2>1. \/ UNCHANGED pd_out_len_current
        \/ \E len \in PdOutLens : len <= PdOutMax /\ pd_out_len_current' = len
    BY DEF Application, SetPdLength, SetTimingEnforcement, SetTRenLimit, SetBaudrate, SetMode,
       config
  <2>2. CASE UNCHANGED pd_out_len_current
    BY <2>2 DEF TypeOK, LinkInv, LengthFits
  <2>3. CASE \E len \in PdOutLens : len <= PdOutMax /\ pd_out_len_current' = len
    BY <2>3, DllConstants
  <2> QED BY <2>1, <2>2, <2>3
<1>3. t_ren_limit_us' \in Nat
  <2>1. \/ t_ren_limit_us' \in TRenLimits
        \/ t_ren_limit_us' = t_ren_limit_us
        \/ \E b \in Baudrates : t_ren_limit_us' = dll_get_t_ren_limit_us(b)
    BY DEF Application, SetPdLength, SetTimingEnforcement, SetTRenLimit, SetBaudrate, SetMode,
       set_baudrate
  <2>2. \A b \in Baudrates : dll_get_t_ren_limit_us(b) \in Nat
    BY TRenLimitType
  <2> QED BY <2>1, <2>2, DllConstants DEF TypeOK
<1>4. /\ enforce_timing' \in BOOLEAN /\ t_ren_override' \in BOOLEAN /\ gap_over' \in BOOLEAN
      /\ phy_mode' \in PhyModes /\ baudrate' \in Baudrates
  <2>1. CASE \E l \in TRenLimits : SetTRenLimit(l)
    BY <2>1, Zenon DEF SetTRenLimit, TypeOK, link, timers
  <2>2. CASE \E e \in BOOLEAN : SetTimingEnforcement(e)
    BY <2>2 DEF SetTimingEnforcement, TypeOK, link, timers
  <2>3. CASE \E len \in PdOutLens : SetPdLength(len)
    BY <2>3 DEF SetPdLength, TypeOK, link, timers
  <2>4. CASE \E b \in Baudrates, gap \in BOOLEAN : SetBaudrate(b, gap)
    BY <2>4 DEF SetBaudrate, set_baudrate, TypeOK, config
  <2>5. CASE \E mode \in PhyModes : SetMode(mode)
    BY <2>5 DEF SetMode, TypeOK, config, timers
  <2> QED BY <2>1, <2>2, <2>3, <2>4, <2>5 DEF Application
<1>5. TypeOK'
  BY <1>1, <1>2, <1>3, <1>4, NoOutType DEF TypeOK, frame
<1>6. UNCHANGED <<frame_index, req_len, pc>>
  BY <1>1 DEF frame
<1>7. ConfigFits => LengthFits'
  BY <1>2, <1>6 DEF LinkInv, LengthFits
<1>8. Assembly' /\ LongFrameIsHandled' /\ FallbackBelowThreshold'
  BY <1>1, <1>6 DEF LinkInv, Assembly, LongFrameIsHandled, FallbackBelowThreshold
<1>9. ~ModeSetters => StackInv'
  BY <1>1, <1>6 DEF LinkInv, StackInv, LongFrameIsCyclic, OperateIsLinked, OperateIsCyclic,
     SioAboveComOneIsFresh
<1> QED BY <1>5, <1>7, <1>8, <1>9 DEF LinkInv, ConfigFits

(* Time and the master's departure touch timers only.                      *)
LEMMA EnvironmentStep ==
  ASSUME TypeOK, LinkInv, Environment PROVE TypeOK' /\ LinkInv'
<1>1. /\ UNCHANGED <<link, frame, config, t_ren_limit_us, armed, cycle_started, stats, pc>>
      /\ out' = NoOut /\ line' \in {line, "gone"}
  BY DEF Environment, Tick, ByteGap, DwuElapsed, TPdElapsed, MasterGone, timers
<1>2. idle' \in 0..(SilenceTicks + 1)
  BY DllConstants DEF Environment, Tick, ByteGap, DwuElapsed, TPdElapsed, MasterGone, timers,
     TypeOK
<1>3. gap_over' \in BOOLEAN /\ dwu_active' \in BOOLEAN /\ t_pd_active' \in BOOLEAN
  <2>1. CASE Tick
    BY <2>1, Zenon DEF Tick, TypeOK
  <2>2. CASE ByteGap \/ DwuElapsed \/ TPdElapsed
    BY <2>2, Zenon DEF ByteGap, DwuElapsed, TPdElapsed, TypeOK
  <2>3. CASE MasterGone
    BY <2>3 DEF MasterGone, timers, TypeOK
  <2> QED BY <2>1, <2>2, <2>3 DEF Environment
<1>4. TypeOK'
  BY <1>1, <1>2, <1>3, NoOutType DEF TypeOK, link, frame, config
<1>5. LinkInv'
  BY <1>1 DEF LinkInv, Assembly, LengthFits, LongFrameIsHandled,
        StackInv, LongFrameIsCyclic, OperateIsLinked, OperateIsCyclic, SioAboveComOneIsFresh,
        FallbackBelowThreshold, link, frame, config
<1> QED BY <1>4, <1>5

LEMMA NextStep ==
  ASSUME TypeOK, LinkInv, [Next]_vars PROVE TypeOK' /\ LinkInv'
<1>1. CASE \E v, s \in BOOLEAN : Begin(v, s)
  BY <1>1, BeginStep
<1>2. CASE \/ \E b \in BOOLEAN : TPdDrain(b)
           \/ \E w \in BOOLEAN : SioPoll(w)
           \/ DwuWait \/ DwuOver \/ LoopEnd
  BY <1>2, GateSteps
<1>3. CASE SilenceCheck
  BY <1>3, SilenceCheckStep
<1>4. CASE HandleFrame
  <2>1. PICK c \in BOOLEAN :
          \/ FrameBadCrc(c) \/ FrameRejected(c) \/ FrameTransition(c) \/ FrameType0(c)
          \/ \E l \in BOOLEAN : FrameCyclic(c, l)
    BY <1>4 DEF HandleFrame
  <2>2. CASE FrameBadCrc(c)
    BY <2>2, BadFrameStep DEF FrameBadCrc
  <2>3. CASE FrameRejected(c)
    BY <2>3, BadFrameStep DEF FrameRejected
  <2>4. CASE FrameTransition(c) \/ FrameType0(c) \/ \E l \in BOOLEAN : FrameCyclic(c, l)
    BY <2>4, GoodFrameStep
  <2> QED BY <2>1, <2>2, <2>3, <2>4
<1>5. CASE Receive
  <2>1. PICK b \in MCs, a \in BOOLEAN : RecvByte(b, a)
    BY <1>5 DEF Receive
  <2> QED BY <2>1, RecvByteStep
<1>6. CASE Application
  BY <1>6, ApplicationStep
<1>7. CASE Environment
  BY <1>7, EnvironmentStep
<1>8. CASE UNCHANGED vars
  BY <1>8 DEF vars, link, frame, config, timers, TypeOK, LinkInv, Assembly, LengthFits,
     LongFrameIsHandled,
        StackInv, LongFrameIsCyclic, OperateIsLinked, OperateIsCyclic, SioAboveComOneIsFresh,
        FallbackBelowThreshold
<1> QED BY <1>1, <1>2, <1>3, <1>4, <1>5, <1>6, <1>7, <1>8 DEF Next, Process

LEMMA InitInv == Init => TypeOK /\ LinkInv
<1> SUFFICES ASSUME Init PROVE TypeOK /\ LinkInv
  OBVIOUS
<1>1. enforce_timing \in BOOLEAN /\ t_ren_override \in BOOLEAN /\ armed \in BOOLEAN
      /\ gap_over \in BOOLEAN /\ dwu_active \in BOOLEAN /\ cycle_started \in BOOLEAN
  BY Zenon DEF Init
<1>2. t_pd_active \in BOOLEAN
  BY DllConstants DEF Init
<1>3. stats \in [StatNames -> 0..MaxStat]
  BY DllConstants DEF Init
<1>4. TypeOK
  BY <1>1, <1>2, <1>3, NoOutType, DllConstants
     DEF Init, TypeOK, DllStates, PhyModes, Baudrates, MCs
<1>5. LinkInv
  BY DllConstants DEF Init, LinkInv, ConfigFits, Assembly, LengthFits, LongFrameIsHandled,
        StackInv, LongFrameIsCyclic, OperateIsLinked, OperateIsCyclic, SioAboveComOneIsFresh,
        FallbackBelowThreshold
<1> QED BY <1>4, <1>5

-----------------------------------------------------------------------------
(* The theorems *)

(* Every reachable state of the data link layer is well typed, for every   *)
(* configured length and with any calls of the setters, and the PD length  *)
(* in force is the configured one or one that fits.                        *)
THEOREM DllTypeCorrect == Spec => []TypeOK
<1>1. TypeOK /\ LinkInv /\ [Next]_vars => (TypeOK /\ LinkInv)'
  BY NextStep
<1> QED BY InitInv, <1>1, PTL DEF Spec

(* With a configured length of at most IOLINK_PD_OUT_MAX_SIZE, which       *)
(* iolink_init does not check, the receive loop and the cyclic handler     *)
(* stay within frame_buf and pd_out, whatever bytes arrive and whenever    *)
(* the application changes length, rate or mode.                           *)
THEOREM DllFrameFits ==
  ASSUME ConfigFits
  PROVE  Spec => []FrameFits
<1>1. TypeOK /\ LinkInv /\ [Next]_vars => (TypeOK /\ LinkInv)'
  BY NextStep
<1>2. TypeOK /\ LinkInv => FrameFits
  <2> SUFFICES ASSUME TypeOK, LinkInv, pc = "frame" PROVE FrameFits
    BY DEF FrameFits
  <2>1. /\ frame_index > 0 /\ frame_index = req_len /\ req_len \in 2..FrameBufSize
        /\ pd_out_len_current <= PdOutMax
    BY DEF LinkInv, Assembly, LengthFits
  <2>2. 2 + pd_out_len_current + OdLen <= FrameBufSize
    BY <2>1, DllConstants DEF TypeOK
  <2> QED BY <2>1, <2>2 DEF FrameFits
<1> QED BY InitInv, <1>1, <1>2, PTL DEF Spec

(* Whatever the configured length and whatever is called between the bytes *)
(* of a frame of more than two bytes, it finds the device in a state that  *)
(* handles it.                                                             *)
THEOREM DllLongFrameIsHandled == Spec => []LongFrameIsHandled
<1>1. TypeOK /\ LinkInv /\ [Next]_vars => (TypeOK /\ LinkInv)'
  BY NextStep
<1>2. LinkInv => LongFrameIsHandled
  BY DEF LinkInv
<1> QED BY InitInv, <1>1, <1>2, PTL DEF Spec

(* In an application that leaves rate and mode to the stack, and with a    *)
(* length that fits, OPERATE is only reached in SDCI mode above COM1 by a  *)
(* device that has process data, and handles long frames only.             *)
THEOREM DllOperateIsCyclic ==
  ASSUME ConfigFits, ~ModeSetters
  PROVE  Spec => []OperateIsCyclic
<1>1. TypeOK /\ LinkInv /\ [Next]_vars => (TypeOK /\ LinkInv)'
  BY NextStep
<1>2. LinkInv => OperateIsCyclic
  BY DEF LinkInv, StackInv
<1> QED BY InitInv, <1>1, <1>2, PTL DEF Spec

(* In an application that leaves rate and mode to the stack, a frame of    *)
(* more than two bytes is only under way where it is a cyclic one, also    *)
(* when the state or the rate changes between its bytes.                   *)
THEOREM DllLongFrameIsCyclic ==
  ASSUME ~ModeSetters
  PROVE  Spec => []LongFrameIsCyclic
<1>1. TypeOK /\ LinkInv /\ [Next]_vars => (TypeOK /\ LinkInv)'
  BY NextStep
<1>2. LinkInv => LongFrameIsCyclic
  BY DEF LinkInv, StackInv
<1> QED BY InitInv, <1>1, <1>2, PTL DEF Spec

(* In SIO mode the rate is COM1, unless the device has not communicated    *)
(* yet: every way out of communication that the stack itself takes lowers  *)
(* it.                                                                     *)
THEOREM DllSioAboveComOneIsFresh ==
  ASSUME ~ModeSetters
  PROVE  Spec => []SioAboveComOneIsFresh
<1>1. TypeOK /\ LinkInv /\ [Next]_vars => (TypeOK /\ LinkInv)'
  BY NextStep
<1>2. LinkInv => SioAboveComOneIsFresh
  BY DEF LinkInv, StackInv
<1> QED BY InitInv, <1>1, <1>2, PTL DEF Spec

-----------------------------------------------------------------------------
(* The error counters *)

TimingViolations == {"t_ren_violations", "t_cycle_violations", "t_byte_violations",
                     "t_pd_violations"}

(* Counters that may be counted together without contradicting each other. *)
Balanced(names) ==
  /\ "crc_errors" \in names => "total_retries" \in names
  /\ "total_retries" \in names => "framing_errors" \in names
  /\ names \cap TimingViolations # {} => "timing_errors" \in names

LEMMA CountBalanced ==
  ASSUME TypeOK, ErrorAccounting, NEW names, Balanced(names), stats' = Count(names)
  PROVE  ErrorAccounting'
<1>1. ASSUME NEW a \in StatNames, NEW b \in StatNames, stats[a] <= stats[b],
             a \in names => b \in names
      PROVE  stats'[a] <= stats'[b]
  <2>1. stats[a] \in 0..MaxStat /\ stats[b] \in 0..MaxStat /\ MaxStat \in Nat
    BY DllConstants DEF TypeOK
  <2>2. /\ stats'[a] = IF a \in names /\ stats[a] < MaxStat THEN stats[a] + 1 ELSE stats[a]
        /\ stats'[b] = IF b \in names /\ stats[b] < MaxStat THEN stats[b] + 1 ELSE stats[b]
    BY DEF Count
  <2> QED BY <1>1, <2>1, <2>2
<1>2. stats'["crc_errors"] <= stats'["total_retries"]
  BY <1>1 DEF ErrorAccounting, Balanced, StatNames
<1>3. stats'["total_retries"] <= stats'["framing_errors"]
  BY <1>1 DEF ErrorAccounting, Balanced, StatNames
<1>4. ASSUME NEW s \in TimingViolations PROVE stats'[s] <= stats'["timing_errors"]
  <2>1. s \in StatNames /\ "timing_errors" \in StatNames
    BY <1>4 DEF TimingViolations, StatNames
  <2>2. stats[s] <= stats["timing_errors"]
    BY <1>4 DEF ErrorAccounting, TimingViolations
  <2>3. s \in names => "timing_errors" \in names
    BY <1>4 DEF Balanced
  <2> QED BY <1>1, <2>1, <2>2, <2>3
<1> QED BY <1>2, <1>3, <1>4 DEF ErrorAccounting, TimingViolations

(* Every step counts a balanced set of errors, or none.                    *)
LEMMA StepIsBalanced ==
  ASSUME TypeOK, [Next]_vars
  PROVE  UNCHANGED stats \/ \E names : Balanced(names) /\ stats' = Count(names)
<1>1. ASSUME NEW b \in BOOLEAN, TPdDrain(b)
      PROVE  UNCHANGED stats \/ \E names : Balanced(names) /\ stats' = Count(names)
  <2>1. Balanced({"timing_errors", "t_pd_violations"})
    BY DEF Balanced, TimingViolations
  <2> QED BY <1>1, <2>1 DEF TPdDrain
<1>2. ASSUME SilenceCheck
      PROVE  UNCHANGED stats \/ \E names : Balanced(names) /\ stats' = Count(names)
  <2>1. Balanced({"timing_errors", "t_byte_violations", "framing_errors"} \cup {"total_retries"})
    BY DEF Balanced, TimingViolations
  <2> QED BY <1>2, <2>1 DEF SilenceCheck, dll_enter_fallback
<1>3. ASSUME NEW b, NEW a, RecvByte(b, a)
      PROVE  \E names : Balanced(names) /\ stats' = Count(names)
  <2>1. PICK late \in BOOLEAN, full \in BOOLEAN :
          stats' = Count((IF late THEN {"timing_errors", "t_byte_violations", "framing_errors"}
                                  ELSE {}) \cup
                         (IF full THEN {"framing_errors"} ELSE {}))
    BY <1>3 DEF RecvByte
  <2>2. Balanced((IF late THEN {"timing_errors", "t_byte_violations", "framing_errors"}
                          ELSE {}) \cup
                 (IF full THEN {"framing_errors"} ELSE {}))
    BY DEF Balanced, TimingViolations
  <2> QED BY <2>1, <2>2
<1>4. ASSUME HandleFrame
      PROVE  \E names : Balanced(names) /\ stats' = Count(names)
  <2>1. PICK c \in BOOLEAN : \/ FrameBadCrc(c) \/ FrameRejected(c) \/ FrameTransition(c)
                            \/ FrameType0(c) \/ \E late \in BOOLEAN : FrameCyclic(c, late)
    BY <1>4 DEF HandleFrame
  <2>2. CASE FrameBadCrc(c)
    <3>1. Balanced((CycleStats(c) \cup {"crc_errors", "framing_errors"}) \cup {"total_retries"})
      BY DEF Balanced, TimingViolations, CycleStats
    <3> QED BY <2>2, <3>1 DEF FrameBadCrc, dll_enter_fallback
  <2>3. CASE FrameRejected(c)
    <3>1. Balanced((CycleStats(c) \cup {"framing_errors"}) \cup {"total_retries"})
      BY DEF Balanced, TimingViolations, CycleStats
    <3> QED BY <2>3, <3>1 DEF FrameRejected, dll_enter_fallback
  <2>4. CASE FrameTransition(c) \/ FrameType0(c)
    <3>1. Balanced(CycleStats(c))
      BY DEF Balanced, TimingViolations, CycleStats
    <3> QED BY <2>4, <3>1 DEF FrameTransition, FrameType0
  <2>5. CASE \E late \in BOOLEAN : FrameCyclic(c, late)
    <3>1. PICK late \in BOOLEAN : FrameCyclic(c, late)
      BY <2>5
    <3>2. Balanced(CycleStats(c) \cup
                   (IF late THEN {"timing_errors", "t_ren_violations"} ELSE {}))
      BY DEF Balanced, TimingViolations, CycleStats
    <3> QED BY <3>1, <3>2 DEF FrameCyclic
  <2> QED BY <2>1, <2>2, <2>3, <2>4, <2>5
<1>5. ASSUME \/ \E v, s \in BOOLEAN : Begin(v, s)
             \/ \E w \in BOOLEAN : SioPoll(w)
             \/ DwuWait \/ DwuOver \/ LoopEnd \/ Application \/ Environment
             \/ UNCHANGED vars
      PROVE  UNCHANGED stats
  BY <1>5 DEF Begin, SioPoll, DwuWait, DwuOver, LoopEnd, Application, SetPdLength,
     SetTimingEnforcement, SetTRenLimit, SetBaudrate, SetMode, Environment, Tick, ByteGap,
     DwuElapsed,
     TPdElapsed, MasterGone, vars
<1> QED BY <1>1, <1>2, <1>3, <1>4, <1>5 DEF Next, Process, Receive

(* The counters that the master reads never contradict each other: every   *)
(* CRC error is counted as a retry, every retry as a framing error, and    *)
(* every timing violation, the one of the power-on delay too, as a timing  *)
(* error, wherever dll.c counts them.                                      *)
THEOREM DllErrorAccounting == Spec => []ErrorAccounting
<1>1. Init => ErrorAccounting
  BY DEF Init, ErrorAccounting, StatNames
<1>2. TypeOK /\ ErrorAccounting /\ [Next]_vars => ErrorAccounting'
  <2>1. SUFFICES ASSUME TypeOK, ErrorAccounting, [Next]_vars PROVE ErrorAccounting'
    OBVIOUS
  <2>2. CASE UNCHANGED stats
    BY <2>1, <2>2 DEF ErrorAccounting
  <2>3. CASE \E names : Balanced(names) /\ stats' = Count(names)
    BY <2>1, <2>3, CountBalanced
  <2> QED BY <2>1, <2>2, <2>3, StepIsBalanced
<1> QED BY <1>1, <1>2, DllTypeCorrect, PTL DEF Spec

-----------------------------------------------------------------------------
(* The partial frame and the inactivity timer *)

(* Whatever byte is received arms the timer when the clock is never 0, and *)
(* what disarms it drops the partial frame.                                *)
LEMMA TimerStep ==
  ASSUME TypeOK, PartialFrameIsTimed, ~ClockMayBeZero, [Next]_vars
  PROVE  PartialFrameIsTimed'
<1>1. CASE \E v, s \in BOOLEAN : Begin(v, s)
  BY <1>1 DEF Begin, PartialFrameIsTimed
<1>2. CASE Receive
  BY <1>2 DEF Receive, RecvByte, PartialFrameIsTimed
<1>3. CASE SilenceCheck
  BY <1>3 DEF SilenceCheck, timers, PartialFrameIsTimed
<1>4. CASE HandleFrame
  <2>1. frame_index' = 0
    BY <1>4 DEF HandleFrame, FrameBadCrc, FrameRejected, FrameTransition, FrameType0,
       FrameCyclic, FrameDone
  <2> QED BY <2>1 DEF PartialFrameIsTimed
<1>5. CASE \/ \E b \in BOOLEAN : TPdDrain(b)
           \/ \E w \in BOOLEAN : SioPoll(w)
           \/ DwuWait \/ DwuOver \/ LoopEnd
  <2>1. UNCHANGED <<frame_index, armed>>
    BY <1>5 DEF TPdDrain, SioPoll, DwuWait, DwuOver, LoopEnd, frame, timers
  <2> QED BY <2>1 DEF PartialFrameIsTimed
<1>6. CASE Application \/ Environment \/ UNCHANGED vars
  <2>1. UNCHANGED <<frame_index, armed>>
    BY <1>6 DEF Application, SetPdLength, SetTimingEnforcement, SetTRenLimit, SetBaudrate,
       SetMode, Environment,
       Tick, ByteGap, DwuElapsed, TPdElapsed, MasterGone, vars, frame, timers
  <2> QED BY <2>1 DEF PartialFrameIsTimed
<1> QED BY <1>1, <1>2, <1>3, <1>4, <1>5, <1>6 DEF Next, Process

(* On a platform whose millisecond clock does not read 0 while bytes       *)
(* arrive, a partial frame is always under the inactivity timer of         *)
(* iolink_dll_process, so it cannot block the wake-up detection for good.  *)
(* (With a clock that reads 0 it can: 0 is also the mark for "nothing      *)
(* received yet".)                                                         *)
THEOREM DllPartialFrameIsTimed ==
  ASSUME ~ClockMayBeZero
  PROVE  Spec => []PartialFrameIsTimed
<1>1. Init => PartialFrameIsTimed
  BY DEF Init, PartialFrameIsTimed
<1>2. TypeOK /\ PartialFrameIsTimed /\ [Next]_vars => PartialFrameIsTimed'
  BY TimerStep
<1> QED BY <1>1, <1>2, DllTypeCorrect, PTL DEF Spec

-----------------------------------------------------------------------------
(* Leaving SDCI mode *)

LEMMA LeavingStep ==
  ASSUME TypeOK, ~ModeSetters, [Next]_vars, phy_mode = "SDCI", phy_mode' = "SIO"
  PROVE  state' = "STARTUP" /\ baudrate' = "COM1" /\ frame_index' = 0
<1>1. CASE \E v, s \in BOOLEAN : Begin(v, s)
  BY <1>1 DEF Begin, set_baudrate
<1>2. CASE SilenceCheck
  BY <1>2 DEF SilenceCheck, dll_enter_fallback, set_baudrate, KeepBaudrate, link
<1>3. CASE HandleFrame
  BY <1>3 DEF HandleFrame, FrameBadCrc, FrameRejected, FrameTransition, FrameType0,
     FrameCyclic, FrameDone, dll_enter_fallback, set_baudrate, KeepBaudrate
<1>4. CASE \/ \E b \in BOOLEAN : TPdDrain(b)
           \/ \E w \in BOOLEAN : SioPoll(w)
           \/ DwuWait \/ DwuOver \/ LoopEnd
  BY <1>4 DEF TPdDrain, SioPoll, DwuWait, DwuOver, LoopEnd, link
<1>5. CASE Receive \/ Application \/ Environment \/ UNCHANGED vars
  BY <1>5 DEF Receive, RecvByte, Application, SetPdLength, SetTimingEnforcement,
     SetTRenLimit, SetBaudrate, SetMode, Environment, Tick, ByteGap, DwuElapsed, TPdElapsed,
     MasterGone, vars, link
<1> QED BY <1>1, <1>2, <1>3, <1>4, <1>5 DEF Next, Process

(* The inactivity timeout, the overdue byte and the refused frame all      *)
(* leave SDCI mode with the link reset: the device is in STARTUP, at COM1, *)
(* and has forgotten the partial frame.  (iolink_dll_set_sio_mode, which   *)
(* an owner of the context may call, does not.)                            *)
THEOREM DllLeavingSdciIsClean ==
  ASSUME ~ModeSetters
  PROVE  Spec => LeavingSdciIsClean
<1>1. TypeOK /\ LinkInv /\ [Next]_vars => (TypeOK /\ LinkInv)'
  BY NextStep
<1>2. TypeOK /\ LinkInv /\ [Next]_vars =>
        [phy_mode = "SDCI" /\ phy_mode' = "SIO" =>
           state' = "STARTUP" /\ baudrate' = "COM1" /\ frame_index' = 0]_vars
  BY LeavingStep
<1> QED BY InitInv, <1>1, <1>2, PTL DEF Spec, LeavingSdciIsClean

-----------------------------------------------------------------------------
(* Leaving OPERATE *)

(* In OPERATE the device has not counted more fallbacks than the master    *)
(* has seen refused in a row.  Elsewhere it may have: a Type 0 frame that  *)
(* is answered does not clear the count.                                   *)
StreakInv ==
  /\ streak \in 0..Threshold
  /\ state = "OPERATE" => fallback_count <= streak

(* What a step says about frames, and does to the count, in OPERATE.       *)
LEMMA VerdictStep ==
  ASSUME TypeOK, LinkInv, ConfigFits, ~ModeSetters, Next
  PROVE  \/ /\ out'.frame = "bad"
            /\ fallback_count' = IF fallback_count + 1 >= Threshold THEN 0 ELSE fallback_count + 1
            /\ state' = "OPERATE" => state = "OPERATE"
            /\ state = "OPERATE" /\ state' # "OPERATE" => fallback_count + 1 >= Threshold
         \/ /\ out'.frame = "good"
            /\ state' = "OPERATE" => fallback_count' = 0
         \/ /\ out'.frame \notin {"bad", "good"}
            /\ state' = "OPERATE" => state = "OPERATE"
            /\ UNCHANGED fallback_count
<1> DEFINE Refuses ==
             /\ out'.frame = "bad"
             /\ fallback_count' = IF fallback_count + 1 >= Threshold THEN 0
                                  ELSE fallback_count + 1
             /\ state' = "OPERATE" => state = "OPERATE"
             /\ state = "OPERATE" /\ state' # "OPERATE" => fallback_count + 1 >= Threshold
           Silent ==
             /\ out'.frame \notin {"bad", "good"}
             /\ state' = "OPERATE" => state = "OPERATE"
             /\ UNCHANGED fallback_count
<1>1. ASSUME NEW names, NEW evs, dll_enter_fallback(names, evs) PROVE Refuses
  BY <1>1 DEF dll_enter_fallback, Output
<1>2. CASE \E v, s \in BOOLEAN : Begin(v, s)
  <2>1. Silent
    BY <1>2 DEF Begin, Output
  <2> QED BY <2>1
<1>3. CASE SilenceCheck
  <2>1. CASE frame_index > 0 /\ enforce_timing /\ gap_over
    <3>1. dll_enter_fallback({"timing_errors", "t_byte_violations", "framing_errors"},
                             TimingEvent(TRUE))
      BY <1>3, <2>1 DEF SilenceCheck
    <3>2. Refuses
      BY <1>1, <3>1
    <3> QED BY <3>2
  <2>2. CASE ~(frame_index > 0 /\ enforce_timing /\ gap_over)
    <3>1. out' = NoOut /\ UNCHANGED <<state, fallback_count>>
      BY <1>3, <2>2 DEF SilenceCheck, link
    <3> QED BY <3>1 DEF NoOut, Output
  <2> QED BY <2>1, <2>2
<1>4. CASE HandleFrame
  <2>1. PICK c \in BOOLEAN :
          \/ FrameBadCrc(c) \/ FrameRejected(c) \/ FrameTransition(c) \/ FrameType0(c)
          \/ \E l \in BOOLEAN : FrameCyclic(c, l)
    BY <1>4 DEF HandleFrame
  <2>2. CASE FrameBadCrc(c) \/ FrameRejected(c)
    BY <1>1, <2>2 DEF FrameBadCrc, FrameRejected
  <2>3. CASE FrameTransition(c)
    BY <2>3 DEF FrameTransition, Output
  <2>4. CASE FrameType0(c)
    <3>1. pc = "frame" /\ req_len <= 2 /\ out'.frame = "good" /\ state' = FrameState
      BY <2>4 DEF FrameType0, FrameDone, Output
    <3>2. state # "OPERATE"
      BY <3>1 DEF LinkInv, StackInv, Assembly, OperateIsCyclic, TypeOK
    <3> QED BY <3>1, <3>2 DEF FrameState
  <2>5. CASE \E l \in BOOLEAN : FrameCyclic(c, l)
    BY <2>5 DEF FrameCyclic, Output
  <2> QED BY <2>1, <2>2, <2>3, <2>4, <2>5
<1>5. CASE Receive
  <2>1. Silent
    BY <1>5 DEF Receive, RecvByte, Output, link
  <2> QED BY <2>1
<1>6. CASE \/ \E b \in BOOLEAN : TPdDrain(b)
           \/ \E w \in BOOLEAN : SioPoll(w)
           \/ DwuWait \/ DwuOver \/ LoopEnd
  <2>1. Silent
    BY <1>6 DEF TPdDrain, SioPoll, DwuWait, DwuOver, LoopEnd, NoOut, Output, link
  <2> QED BY <2>1
<1>7. CASE Application \/ Environment
  <2>1. out' = NoOut /\ UNCHANGED <<state, fallback_count>>
    BY <1>7 DEF Application, SetPdLength, SetTimingEnforcement, SetTRenLimit, SetBaudrate,
       SetMode, Environment,
       Tick, ByteGap, DwuElapsed, TPdElapsed, MasterGone, link
  <2> QED BY <2>1 DEF NoOut, Output
<1> QED BY <1>2, <1>3, <1>4, <1>5, <1>6, <1>7 DEF Next, Process

(* A device that leaves OPERATE because frames are refused has refused     *)
(* Threshold of them in a row: no good cyclic frame was among them,        *)
(* whatever happened before OPERATE was entered.  (With rate and mode left *)
(* to the stack and a length that fits.)                                   *)
THEOREM DllOperateFallbacksAreConsecutive ==
  ASSUME ConfigFits, ~ModeSetters
  PROVE  StreakSpec => OperateFallbacksAreConsecutive
<1> DEFINE Inv == TypeOK /\ LinkInv /\ StreakInv
           Step == state = "OPERATE" /\ state' # "OPERATE" /\ out'.frame = "bad"
                     => streak' = Threshold
<1>1. StreakInit => Inv
  BY InitInv, DllConstants DEF StreakInit, Init, StreakInv
<1>2. Inv /\ [StreakNext]_<<vars, streak>> => Inv' /\ [Step]_<<vars, streak>>
  <2> SUFFICES ASSUME Inv, [StreakNext]_<<vars, streak>>
               PROVE  Inv' /\ [Step]_<<vars, streak>>
    OBVIOUS
  <2>1. [Next]_vars
    BY DEF StreakNext
  <2>2. TypeOK' /\ LinkInv'
    BY <2>1, NextStep
  <2>3. /\ fallback_count \in Nat /\ fallback_count < Threshold /\ Threshold \in Nat \ {0}
        /\ streak \in 0..Threshold
    BY DllConstants DEF TypeOK, LinkInv, FallbackBelowThreshold, StreakInv
  <2>4. CASE UNCHANGED <<vars, streak>>
    <3>1. StreakInv'
      BY <2>4 DEF StreakInv, vars, link
    <3> QED BY <2>2, <2>4, <3>1
  <2>5. CASE StreakNext
    <3>1. streak' = CASE out'.frame = "good" -> 0
                      [] out'.frame = "bad"  -> IF streak < Threshold THEN streak + 1 ELSE streak
                      [] OTHER -> streak
      BY <2>5 DEF StreakNext
    <3>2. ASSUME out'.frame = "bad",
                 fallback_count' = IF fallback_count + 1 >= Threshold THEN 0
                                   ELSE fallback_count + 1,
                 state' = "OPERATE" => state = "OPERATE",
                 state = "OPERATE" /\ state' # "OPERATE" => fallback_count + 1 >= Threshold
          PROVE  StreakInv' /\ Step
      BY <2>3, <3>1, <3>2 DEF StreakInv
    <3>3. ASSUME out'.frame = "good", state' = "OPERATE" => fallback_count' = 0
          PROVE  StreakInv' /\ Step
      BY <2>3, <3>1, <3>3 DEF StreakInv
    <3>4. ASSUME out'.frame \notin {"bad", "good"}, state' = "OPERATE" => state = "OPERATE",
                 UNCHANGED fallback_count
          PROVE  StreakInv' /\ Step
      BY <2>3, <3>1, <3>4 DEF StreakInv
    <3>5. Next
      BY <2>5 DEF StreakNext
    <3> QED BY <2>2, <3>2, <3>3, <3>4, <3>5, VerdictStep
  <2> QED BY <2>4, <2>5
<1> QED BY <1>1, <1>2, PTL DEF StreakSpec, OperateFallbacksAreConsecutive
=============================================================================
