--------------------------- MODULE IsduLineProofs ---------------------------
(***************************************************************************)
(* The ISDU engine as the two sides of the line see it, for every byte the *)
(* master may send: a request that is executed was sent as a whole, and a  *)
(* master that follows the control bytes receives every response whole.    *)
(* The argument needs, for every state of the engine, what the bytes since *)
(* the last START, or the bytes already received, have to do with the      *)
(* fields of the engine.                                                   *)
(***************************************************************************)
EXTENDS IsduProofs, MCIsdu

-----------------------------------------------------------------------------
(* The response *)

Resting == {"IDLE", "RESPONSE_READY"}

Rx == [on : BOOLEAN, want_data : BOOLEAN, seq : 0..63, ok : BOOLEAN, last : BOOLEAN,
       complete : BOOLEAN, data : Seq(Byte)]

(* What the master has while the response is being read.                   *)
RxReading ==
  /\ ~rx.complete /\ rx.ok
  /\ rx.want_data <=> is_response_control_sent
  /\ rx.data = SubSeq(response_buf, 1, response_idx)
  /\ is_response_control_sent =>
       /\ rx.on /\ rx.seq = segment_seq
       /\ rx.last <=> response_idx + 1 >= response_len
  /\ ~is_response_control_sent /\ response_idx > 0 =>
       rx.on /\ segment_seq = (rx.seq + 1) % 64

RxDone ==
  \/ rx = NoRx
  \/ rx.complete /\ rx.ok /\ rx.data = SubSeq(response_buf, 1, response_len)
  \/ ~rx.complete /\ response_len = 0

RxInv ==
  /\ rx \in Rx /\ response_len <= 255
  /\ state \notin Resting => rx = NoRx
  /\ state = "HEADER_INITIAL" => ~is_response_control_sent
  /\ state = "RESPONSE_READY" => RxReading
  /\ state = "IDLE" => RxDone

LEMMA StepIsNext == [MCNext]_<<vars, log, rx>> => [Next]_vars
BY DEF MCNext, MCCollect, MCGet, MCProcess, MCTrigger, Next

LEMMA InitIsInit == MCInit => IsduInv
BY InitIsdu DEF MCInit

LEMMA NoRxIsRx == NoRx \in Rx
BY DEF NoRx, Rx

LEMMA InitRx == MCInit => RxInv
<1> SUFFICES ASSUME MCInit PROVE RxInv
  OBVIOUS
<1>1. rx = NoRx /\ state = "IDLE" /\ response_len = 0
  BY DEF MCInit, Init
<1> QED BY <1>1, NoRxIsRx DEF RxInv, RxDone

(* Nothing of a response was seen yet. *)
LEMMA FreshRx ==
  ASSUME rx' = NoRx, response_len' \in Nat, response_len' <= 255,
         state' \in {"RESPONSE_READY", "HEADER_INITIAL"} => ~is_response_control_sent',
         state' = "RESPONSE_READY" => response_idx' = 0
  PROVE  RxInv'
<1>1. CASE state' = "RESPONSE_READY"
  <2>1. /\ ~rx'.complete /\ rx'.ok /\ ~rx'.want_data /\ rx'.data = << >>
    BY DEF NoRx
  <2>2. SubSeq(response_buf', 1, response_idx') = << >>
    BY <1>1, SubSeqEmpty
  <2>3. RxReading'
    BY <1>1, <2>1, <2>2 DEF RxReading
  <2> QED BY <1>1, <2>3, NoRxIsRx DEF RxInv
<1>2. CASE state' # "RESPONSE_READY"
  BY <1>2, NoRxIsRx DEF RxInv, RxDone
<1> QED BY <1>1, <1>2

LEMMA RxStays ==
  ASSUME RxInv, UNCHANGED <<rx, state, segment_seq, is_response_control_sent, response_buf,
                            response_len, response_idx>>
  PROVE  RxInv'
BY DEF RxInv, RxReading, RxDone

LEMMA CollectRx ==
  ASSUME IsduInv, RxInv, MCCollect PROVE RxInv'
<1>1. PICK b \in Byte : collect_byte(b)
  BY BytesAreBytes DEF MCCollect, IsduInv, BufferInv, CollectOK
<1>2. rx' = IF state' = state THEN rx ELSE NoRx
  BY DEF MCCollect
<1>3. CASE IgnoreByte(b)
  BY <1>2, <1>3, RxStays DEF IgnoreByte, response
<1>4. response_len \in Nat /\ response_len <= 255
  BY DEF IsduInv, ResponseOK, RxInv
<1>5. CASE StartRequest(b)
  <2>1. /\ state' = "HEADER_INITIAL" /\ state # "HEADER_INITIAL" /\ response_len' = 0
        /\ ~is_response_control_sent'
    BY <1>5 DEF StartRequest
  <2> QED BY <1>2, <2>1, FreshRx
<1>6. CASE Collision(b) \/ SequenceError(b) \/ BadService(b)
  <2>1. /\ state' = "RESPONSE_READY" /\ state # "RESPONSE_READY"
        /\ response_len' = 2 /\ response_idx' = 0
    BY <1>6 DEF Collision, SequenceError, BadService, ErrorResponse
  <2>2. ~is_response_control_sent'
    BY <1>6 DEF Collision, SequenceError, BadService, RxInv
  <2> QED BY <1>2, <2>1, <2>2, FreshRx
<1>7. CASE NextSegment(b) \/ HeaderInitial(b) \/ HeaderByte(b) \/ DataByte(b)
  <2>1. state' # state /\ state' \notin {"RESPONSE_READY", "HEADER_INITIAL"}
    BY <1>7 DEF NextSegment, HeaderInitial, HeaderByte, DataByte, IsduInv, BufferInv,
       CollectOK, HeaderStates
  <2>2. response_len' = response_len
    BY <1>7 DEF NextSegment, HeaderInitial, HeaderByte, DataByte, response
  <2> QED BY <1>2, <1>4, <2>1, <2>2, FreshRx
<1> QED BY <1>1, <1>3, <1>5, <1>6, <1>7 DEF collect_byte

(* A control byte is read back as it was put together.                     *)
LEMMA GetControlRx ==
  ASSUME IsduInv, RxInv, MCGet, ResponseControl PROVE RxInv'
<1> DEFINE start == IF response_idx = 0 THEN 128 ELSE 0
           last  == IF (response_idx + 1) % 256 >= response_len THEN 64 ELSE 0
           c     == start + last + segment_seq
<1>1. /\ state = "RESPONSE_READY" /\ ~is_response_control_sent /\ is_response_control_sent'
      /\ UNCHANGED <<state, segment_seq, response_idx, response_buf, response_len>>
      /\ tx' = <<c>>
  BY DEF ResponseControl, Gotten
<1>2. /\ response_buf \in Seq(Byte) /\ response_len \in Nat /\ response_idx \in Nat
      /\ segment_seq \in 0..63 /\ response_len <= 255
      /\ response_idx < response_len \/ (response_idx = 0 /\ response_len = 0)
  BY <1>1 DEF IsduInv, ResponseOK, ResponseFits, ControlOK, RxInv
<1>3. RxReading /\ rx \in Rx /\ rx.want_data = FALSE
  BY <1>1 DEF RxInv, RxReading, Rx
<1>4. start \in {0, 128} /\ last \in {0, 64}
  OBVIOUS
<1>5. /\ Start(c) <=> response_idx = 0
      /\ Last(c) <=> response_idx + 1 >= response_len
      /\ SeqOf(c) = segment_seq
  <2>1. (Start(c) <=> start = 128) /\ (Last(c) <=> last = 64) /\ SeqOf(c) = segment_seq
    <3>1. c = start + last + segment_seq
      OBVIOUS
    <3> HIDE DEF c, start, last
    <3>2. c \in Int /\ segment_seq \in 0..63
      BY <1>2, <1>4, <3>1
    <3>3. SeqOf(c) = segment_seq
      BY <1>4, <3>1, <3>2 DEF SeqOf
    <3>4. Start(c) <=> start = 128
      BY <1>4, <3>1, <3>2 DEF Start
    <3>5. c \div 64 = (start + last) \div 64
      BY <1>4, <3>1, <3>2
    <3>6. Last(c) <=> last = 64
      BY <1>4, <3>5 DEF Last
    <3> QED BY <3>3, <3>4, <3>6
  <2>2. (response_idx + 1) % 256 = response_idx + 1
    BY <1>2
  <2>3. start = 128 <=> response_idx = 0
    OBVIOUS
  <2>4. last = 64 <=> response_idx + 1 >= response_len
    BY <2>2
  <2> HIDE DEF c, start, last
  <2> QED BY <2>1, <2>3, <2>4
<1> HIDE DEF c
<1>6. rx' = RxControl(c)
  <2>1. tx' # << >> /\ tx'[1] = c
    BY <1>1
  <2> QED BY <1>3, <2>1 DEF MCGet
<1>7. response_idx = 0 => rx.data = << >>
  BY <1>3, SubSeqEmpty DEF RxReading
<1>8. /\ rx'.on /\ rx'.want_data /\ rx'.seq = segment_seq /\ ~rx'.complete
      /\ rx'.last <=> response_idx + 1 >= response_len
      /\ rx'.data = rx.data
  BY <1>5, <1>6, <1>7 DEF RxControl
<1>9. rx'.ok
  <2>1. CASE Start(c)
    BY <1>6, <2>1 DEF RxControl
  <2>2. CASE ~Start(c)
    <3>1. rx.on /\ rx.ok /\ segment_seq = (rx.seq + 1) % 64
      BY <1>1, <1>2, <1>3, <1>5, <2>2 DEF RxReading
    <3> QED BY <1>5, <1>6, <2>2, <3>1 DEF RxControl
  <2> QED BY <2>1, <2>2
<1>10. rx' \in Rx
  <2>1. SeqOf(c) \in 0..63 /\ rx.data \in Seq(Byte)
    BY <1>2, <1>3, <1>5 DEF Rx
  <2> DEFINE lst == Last(c)
             ok  == IF Start(c) THEN TRUE ELSE rx.on /\ rx.ok /\ SeqOf(c) = (rx.seq + 1) % 64
             dat == IF Start(c) THEN << >> ELSE rx.data
  <2>2. lst \in BOOLEAN /\ ok \in BOOLEAN
    BY Zenon DEF Last
  <2>3. dat \in Seq(Byte)
    BY <2>1
  <2>4. rx' = [on |-> TRUE, want_data |-> TRUE, seq |-> SeqOf(c), last |-> lst,
               complete |-> FALSE, ok |-> ok, data |-> dat]
    BY <1>6 DEF RxControl
  <2> HIDE DEF lst, ok, dat
  <2> QED BY <2>1, <2>2, <2>3, <2>4 DEF Rx
<1>11. RxReading'
  BY <1>1, <1>3, <1>8, <1>9 DEF RxReading
<1>12. state' = "RESPONSE_READY" /\ response_len' <= 255
  BY <1>1, <1>2
<1> QED BY <1>10, <1>11, <1>12 DEF RxInv, Resting

LEMMA GetDataRx ==
  ASSUME IsduInv, RxInv, MCGet, ResponseData PROVE RxInv'
<1> DEFINE k == response_idx + 1
           b == response_buf[k]
<1>1. /\ state = "RESPONSE_READY" /\ is_response_control_sent /\ response_idx < response_len
      /\ UNCHANGED <<response_buf, response_len>> /\ response_idx' = k
      /\ tx' = <<b>>
      /\ k >= response_len => state' = "IDLE"
      /\ ~(k >= response_len) => /\ state' = "RESPONSE_READY" /\ segment_seq' = NextSeq
                                 /\ ~is_response_control_sent'
  BY DEF ResponseData, Gotten
<1>2. /\ response_buf \in Seq(Byte) /\ response_len \in Nat /\ response_idx \in Nat
      /\ segment_seq \in 0..63 /\ response_len <= 255 /\ response_len <= Len(response_buf)
  BY <1>1 DEF IsduInv, ResponseOK, ResponseFits, ControlOK, RxInv
<1>3. rx \in Rx /\ rx.want_data /\ rx.on /\ rx.ok /\ rx.seq = segment_seq
      /\ rx.data = SubSeq(response_buf, 1, response_idx)
      /\ (rx.last <=> k >= response_len)
  BY <1>1 DEF RxInv, RxReading
<1>4. k \in 1..Len(response_buf) /\ k \in Nat
  BY <1>1, <1>2
<1>5. b \in Byte
  BY <1>2, <1>4, ElementOfSeq
<1>6. SubSeq(response_buf, 1, k) = Append(SubSeq(response_buf, 1, response_idx), b)
  <2>1. SubSeq(response_buf, 1, k) = SubSeq(response_buf, 1, k - 1) \o <<b>>
    <3>1. 1 \in 1..Len(response_buf) /\ k \in 1..Len(response_buf)
      BY <1>4
    <3> HIDE DEF k
    <3> QED BY <1>2, <3>1, SubSeqRecursiveSecond
  <2>2. k - 1 = response_idx
    BY <1>2
  <2>3. SubSeq(response_buf, 1, response_idx) \in Seq(Byte)
    BY <1>2, <1>4, SliceIsSeq
  <2> HIDE DEF k, b
  <2> QED BY <1>5, <2>1, <2>2, <2>3, AppendIsConcat
<1>7. rx' = [rx EXCEPT !.want_data = FALSE, !.complete = rx.last, !.data = Append(rx.data, b)]
  <2>1. tx' # << >> /\ tx'[1] = b
    BY <1>1
  <2> QED BY <1>3, <2>1 DEF MCGet, RxData
<1> HIDE DEF k, b
<1>8. rx' \in Rx
  <2>1. Append(rx.data, b) \in Seq(Byte)
    <3>1. rx.data \in Seq(Byte)
      BY <1>3 DEF Rx
    <3> QED BY <1>5, <3>1, AppendProperties
  <2> QED BY <1>3, <1>7, <2>1 DEF Rx
<1>9. /\ ~rx'.want_data /\ (rx'.complete <=> rx.last) /\ rx'.data = SubSeq(response_buf, 1, k)
      /\ rx'.ok /\ rx'.on /\ rx'.seq = segment_seq
  BY <1>3, <1>6, <1>7 DEF Rx
<1>10. CASE k >= response_len
  <2>1. k = response_len
    BY <1>1, <1>2, <1>10 DEF k
  <2>2. RxDone'
    BY <1>1, <1>3, <1>9, <1>10, <2>1 DEF RxDone
  <2> QED BY <1>1, <1>2, <1>8, <1>10, <2>2 DEF RxInv, Resting
<1>11. CASE ~(k >= response_len)
  <2>1. RxReading'
    BY <1>1, <1>3, <1>9, <1>11 DEF RxReading, NextSeq
  <2> QED BY <1>1, <1>2, <1>8, <1>11, <2>1 DEF RxInv, Resting
<1> QED BY <1>10, <1>11

LEMMA GetRx ==
  ASSUME IsduInv, RxInv, MCGet PROVE RxInv'
<1>1. get_response_byte
  BY DEF MCGet
<1>2. CASE NoResponse
  BY <1>2, RxStays DEF NoResponse, MCGet, Gotten
<1>3. CASE ResponseEmpty
  <2>1. /\ rx' = rx /\ state = "RESPONSE_READY" /\ state' = "IDLE" /\ response_idx >= response_len
        /\ UNCHANGED <<response_buf, response_len>>
    BY <1>3 DEF ResponseEmpty, MCGet, Gotten
  <2>2. response_len = 0 /\ RxReading
    BY <2>1 DEF IsduInv, ResponseOK, ResponseFits, RxInv
  <2>3. RxDone'
    BY <2>1, <2>2 DEF RxReading, RxDone
  <2> QED BY <2>1, <2>3 DEF RxInv, Resting
<1> QED BY <1>1, <1>2, <1>3, GetControlRx, GetDataRx DEF get_response_byte

LEMMA ProcessRx ==
  ASSUME IsduInv, RxInv, MCProcess PROVE RxInv'
<1>1. process /\ rx' = rx /\ state = "SERVICE_EXECUTE"
  BY DEF MCProcess, process, CanProcess, SystemCommand, PopEvent, AccessLocks, DetailedStatus,
     DetailedStatusWrite, ErrorStats, ReadTag, WriteTag, DeviceStatus, PdinDescriptor,
     Identification, UnknownIndex
<1>2. rx' = NoRx /\ response_len \in Nat /\ response_len <= 255
  BY <1>1 DEF RxInv, Resting, IsduInv, ResponseOK
<1>3. CASE \E bytes \in Seq(Byte) : Respond(bytes)
  <2>1. PICK bytes \in Seq(Byte) : Respond(bytes)
    BY <1>3
  <2>2. response_len' \in Nat /\ response_len' <= 255
    <3>1. Len(bytes) \in Nat
      OBVIOUS
    <3> QED BY <2>1, <3>1 DEF Respond
  <2>3. ~is_response_control_sent' /\ response_idx' = 0
    BY <2>1 DEF Respond, Ready
  <2> QED BY <1>2, <2>2, <2>3, FreshRx
<1>4. CASE Silent /\ response_len' \in {2, response_len}
  <2>1. state' = "IDLE" /\ response_len' \in Nat /\ response_len' <= 255
    BY <1>2, <1>4 DEF Silent
  <2> QED BY <1>2, <2>1, FreshRx
<1> QED BY <1>1, <1>3, <1>4, ServiceAnswers

LEMMA NextRx == IsduInv /\ RxInv /\ [MCNext]_<<vars, log, rx>> => RxInv'
<1> SUFFICES ASSUME IsduInv, RxInv, [MCNext]_<<vars, log, rx>> PROVE RxInv'
  OBVIOUS
<1>1. CASE MCTrigger
  BY <1>1, RxStays DEF MCTrigger, TriggerEvent, response
<1>2. CASE UNCHANGED <<vars, log, rx>>
  BY <1>2, RxStays DEF vars, response
<1> QED BY <1>1, <1>2, CollectRx, GetRx, ProcessRx DEF MCNext

(* A master that follows the control bytes of get_response_byte receives   *)
(* every response whole, whatever it sent before: the sequence numbers it  *)
(* sees are consecutive over the wrap at 64, the LAST bit is on the last   *)
(* data byte of any response of up to 255 bytes, and the engine is done    *)
(* exactly then.                                                           *)
THEOREM IsduResponseIsWhole == MCSpec => []ResponseIsWhole
<1>1. IsduInv /\ RxInv => ResponseIsWhole
  <2> SUFFICES ASSUME IsduInv, RxInv PROVE ResponseIsWhole
    OBVIOUS
  <2>1. ~NoRx.complete /\ ~NoRx.on
    BY DEF NoRx
  <2>2. CASE state = "RESPONSE_READY"
    BY <2>2 DEF RxInv, RxReading, ResponseIsWhole
  <2>3. CASE state = "IDLE"
    BY <2>1, <2>3 DEF RxInv, RxDone, ResponseIsWhole
  <2>4. CASE state \notin Resting
    BY <2>1, <2>4 DEF RxInv, ResponseIsWhole
  <2> QED BY <2>2, <2>3, <2>4 DEF Resting
<1>2. IsduInv /\ [MCNext]_<<vars, log, rx>> => IsduInv'
  BY StepIsNext, NextIsdu
<1> QED BY <1>1, <1>2, InitIsInit, InitRx, NextRx, PTL DEF MCSpec

-----------------------------------------------------------------------------
(* The request: what the engine has made of the bytes so far.              *)

(* The data bytes, and how many of them give service and length: one, or   *)
(* two for an extended length.                                             *)
Nth(l, i) == l[2 * i]
HeadLen(l) == IF Nth(l, 1) = 159 THEN 2 ELSE 1
LengthOf(l) == IF HeadLen(l) = 2 THEN Nth(l, 2) ELSE Nth(l, 1) % 16
DataLen(l) == Len(l) \div 2

(* The control bytes: a START, then consecutive numbers up to seq.         *)
Numbered(l, seq) ==
  /\ Start(l[1])
  /\ \A i \in 2..Len(l) : 2 * i - 1 <= Len(l) =>
       ~Start(l[2 * i - 1]) /\ SeqOf(l[2 * i - 1]) = (SeqOf(l[1]) + i - 1) % 64
  /\ seq = (SeqOf(l[1]) + (Len(l) + 1) \div 2 - 1) % 64

ServiceOf(l, hdr) ==
  /\ hdr.type = "READ" => Nth(l, 1) \div 16 = 8
  /\ hdr.type = "WRITE" => Nth(l, 1) \div 16 = 9 /\ hdr.length = LengthOf(l)

IndexOf(l) == 256 * Nth(l, HeadLen(l) + 1) + Nth(l, HeadLen(l) + 2)

PayloadOf(l, buf) ==
  /\ DataLen(l) = HeadLen(l) + 3 + Len(buf)
  /\ \A j \in 1..Len(buf) : buf[j] = Nth(l, HeadLen(l) + 3 + j)

(* The stage of the request and what was parsed in the stages before it.   *)
Parsed(l, stage, hdr, buf) ==
  /\ stage = "HEADER_INITIAL" => Len(l) = 1
  /\ stage = "HEADER_EXT_LEN" => DataLen(l) = 1 /\ Nth(l, 1) = 159 /\ hdr.type = "WRITE"
  /\ stage = "HEADER_INDEX_HIGH" => ServiceOf(l, hdr) /\ DataLen(l) = HeadLen(l)
  /\ stage = "HEADER_INDEX_LOW" =>
       /\ ServiceOf(l, hdr) /\ DataLen(l) = HeadLen(l) + 1
       /\ hdr.index = 256 * Nth(l, HeadLen(l) + 1)
  /\ stage = "HEADER_SUBINDEX" =>
       ServiceOf(l, hdr) /\ DataLen(l) = HeadLen(l) + 2 /\ hdr.index = IndexOf(l)
  /\ stage \in {"DATA_COLLECT", "SERVICE_EXECUTE"} =>
       /\ ServiceOf(l, hdr) /\ hdr.index = IndexOf(l)
       /\ hdr.subindex = Nth(l, HeadLen(l) + 3)
       /\ PayloadOf(l, buf)
  /\ stage = "SERVICE_EXECUTE" /\ hdr.type = "READ" => buf = << >>

Stage == IF state = "SEGMENT_COLLECT" THEN next_state ELSE state

LogInv ==
  /\ log \in Seq(Byte)
  /\ state \in Resting => log = << >>
  /\ state \notin Resting =>
       /\ Numbered(log, segment_seq)
       /\ Parsed(log, Stage, header, buffer)
       /\ Len(log) % 2 = IF state \in {"SEGMENT_COLLECT", "SERVICE_EXECUTE"} THEN 0 ELSE 1

LEMMA OddEven ==
  ASSUME NEW n \in Nat
  PROVE  /\ n % 2 = 1 => \E p \in Nat : n = 2 * p + 1
         /\ n % 2 = 0 => \E p \in Nat : n = 2 * p
<1>1. n = 2 * (n \div 2) + (n % 2) /\ n \div 2 \in Nat
  OBVIOUS
<1> QED BY <1>1

LEMMA Halves ==
  ASSUME NEW p \in Nat
  PROVE  /\ (2 * p) \div 2 = p /\ (2 * p + 1) \div 2 = p /\ (2 * p + 2) \div 2 = p + 1
         /\ (2 * p + 3) \div 2 = p + 1
         /\ (2 * p) % 2 = 0 /\ (2 * p + 1) % 2 = 1 /\ (2 * p + 2) % 2 = 0
OBVIOUS

(* A data byte after its control byte. *)
LEMMA ExtendData ==
  ASSUME NEW l \in Seq(Byte), NEW m \in Seq(Byte), NEW seq \in 0..63,
         Numbered(l, seq), Len(l) % 2 = 1, Len(m) = Len(l) + 1, \A i \in 1..Len(l) : m[i] = l[i]
  PROVE  /\ Len(m) % 2 = 0 /\ Numbered(m, seq)
         /\ DataLen(l) \in Nat /\ DataLen(m) = DataLen(l) + 1
<1>1. Len(l) \in Nat
  OBVIOUS
<1>2. PICK p \in Nat : Len(l) = 2 * p + 1
  BY <1>1, OddEven
<1>3. /\ Len(m) = 2 * p + 2
      /\ \A i \in 1..(2 * p + 1) : m[i] = l[i]
  BY <1>2
<1>4. DataLen(l) = p /\ DataLen(m) = p + 1 /\ Len(m) % 2 = 0 /\ Len(m) > 0
  BY <1>2, <1>3, Halves DEF DataLen
<1>5. Numbered(m, seq)
  <2>1. m[1] = l[1]
    BY <1>3
  <2>2. ASSUME NEW i \in 2..Len(m), 2 * i - 1 <= Len(m)
        PROVE  ~Start(m[2 * i - 1]) /\ SeqOf(m[2 * i - 1]) = (SeqOf(m[1]) + i - 1) % 64
    <3>1. i \in 2..Len(l) /\ 2 * i - 1 <= Len(l) /\ 2 * i - 1 \in 1..(2 * p + 1)
      BY <1>2, <1>3, <2>2
    <3>2. m[2 * i - 1] = l[2 * i - 1]
      BY <1>3, <3>1
    <3> QED BY <2>1, <3>1, <3>2 DEF Numbered
  <2>3. (Len(m) + 1) \div 2 = (Len(l) + 1) \div 2
    BY <1>2, <1>3, Halves
  <2>4. Start(m[1]) /\ seq = (SeqOf(m[1]) + (Len(m) + 1) \div 2 - 1) % 64
    BY <2>1, <2>3 DEF Numbered
  <2> QED BY <2>2, <2>4 DEF Numbered
<1> QED BY <1>4, <1>5

(* A control byte with the next number. *)
LEMMA ExtendControl ==
  ASSUME NEW l \in Seq(Byte), NEW b \in Byte, NEW seq \in 0..63, Numbered(l, seq),
         Len(l) % 2 = 0, Len(l) > 0, ~Start(b), SeqOf(b) = (seq + 1) % 64,
         NEW m, m = Append(l, b)
  PROVE  /\ m \in Seq(Byte) /\ Len(m) % 2 = 1 /\ Numbered(m, SeqOf(b))
         /\ DataLen(l) \in Nat /\ DataLen(m) = DataLen(l)
         /\ \A i \in 1..DataLen(l) : Nth(m, i) = Nth(l, i)
<1>1. Len(l) \in Nat
  OBVIOUS
<1>2. PICK p \in Nat : Len(l) = 2 * p
  BY <1>1, OddEven
<1>3. /\ m \in Seq(Byte) /\ Len(m) = 2 * p + 1 /\ m[2 * p + 1] = b
      /\ \A i \in 1..(2 * p) : m[i] = l[i]
  BY <1>2, AppendProperties
<1>4. DataLen(l) = p /\ DataLen(m) = p /\ Len(m) % 2 = 1 /\ p > 0
  BY <1>2, <1>3, Halves DEF DataLen
<1>5. \A i \in 1..p : Nth(m, i) = Nth(l, i)
  <2> TAKE i \in 1..p
  <2>1. 2 * i \in 1..(2 * p)
    BY <1>2
  <2> QED BY <1>3, <2>1 DEF Nth
<1>6. Numbered(m, SeqOf(b))
  <2>1. m[1] = l[1] /\ Start(l[1])
    <3>1. 1 \in 1..(2 * p)
      BY <1>4
    <3>2. m[1] = l[1]
      BY <1>3, <3>1
    <3>3. Start(l[1])
      BY DEF Numbered
    <3> QED BY <3>2, <3>3
  <2> DEFINE s == SeqOf(l[1])
  <2>2. s \in Nat
    <3>1. l[1] \in Byte
      BY <1>2, <1>4, ElementOfSeq
    <3>2. SeqOf(l[1]) \in 0..63
      BY <3>1, SeqIsSmall
    <3>3. \A x \in 0..63 : x \in Nat
      OBVIOUS
    <3> QED BY <3>2, <3>3
  <2>3. seq = (s + p - 1) % 64
    BY <1>2, Halves DEF Numbered
  <2>4. SeqOf(b) = (s + p) % 64
    <3> HIDE DEF s
    <3> QED BY <1>4, <2>2, <2>3
  <2>5. ASSUME NEW i \in 2..Len(m), 2 * i - 1 <= Len(m)
        PROVE  ~Start(m[2 * i - 1]) /\ SeqOf(m[2 * i - 1]) = (s + i - 1) % 64
    <3>1. CASE i = p + 1
      <4> HIDE DEF s
      <4>1. 2 * i - 1 = 2 * p + 1 /\ s + i - 1 = s + p
        BY <2>2, <3>1
      <4>2. m[2 * i - 1] = b
        BY <1>3, <4>1
      <4> QED BY <2>4, <4>1, <4>2
    <3>2. CASE i # p + 1
      <4>1. i \in 2..Len(l) /\ 2 * i - 1 <= Len(l) /\ 2 * i - 1 \in 1..(2 * p)
        BY <1>2, <1>3, <2>5, <3>2
      <4>2. m[2 * i - 1] = l[2 * i - 1]
        BY <1>3, <4>1
      <4> QED BY <4>1, <4>2 DEF Numbered
    <3> QED BY <3>1, <3>2
  <2>6. (Len(m) + 1) \div 2 = p + 1
    BY <1>3, Halves
  <2>7. s + (Len(m) + 1) \div 2 - 1 = s + p
    <3>1. \A x : x = p + 1 => s + x - 1 = s + p
      BY <2>2
    <3> QED BY <2>6, <3>1, Zenon
  <2> QED BY <2>1, <2>4, <2>5, <2>7 DEF Numbered
<1> QED BY <1>3, <1>4, <1>5, <1>6

(* What was parsed from a part of the request is the same in the rest.     *)
LEMMA SameHead ==
  ASSUME NEW l, NEW m, DataLen(l) \in Nat, DataLen(l) >= HeadLen(l),
         \A i \in 1..DataLen(l) : Nth(m, i) = Nth(l, i)
  PROVE  /\ HeadLen(m) = HeadLen(l) /\ HeadLen(l) \in {1, 2}
         /\ \A hdr : ServiceOf(l, hdr) => ServiceOf(m, hdr)
         /\ DataLen(l) >= HeadLen(l) + 1 => Nth(m, HeadLen(l) + 1) = Nth(l, HeadLen(l) + 1)
         /\ DataLen(l) >= HeadLen(l) + 2 => IndexOf(m) = IndexOf(l)
         /\ DataLen(l) >= HeadLen(l) + 3 => Nth(m, HeadLen(l) + 3) = Nth(l, HeadLen(l) + 3)
<1>1. HeadLen(l) \in {1, 2}
  BY DEF HeadLen
<1>2. Nth(m, 1) = Nth(l, 1)
  BY <1>1
<1>3. HeadLen(m) = HeadLen(l)
  BY <1>2 DEF HeadLen
<1>4. LengthOf(m) = LengthOf(l)
  <2>1. CASE HeadLen(l) = 2
    <3>1. Nth(m, 2) = Nth(l, 2)
      BY <2>1
    <3> QED BY <1>3, <2>1, <3>1 DEF LengthOf
  <2>2. CASE HeadLen(l) # 2
    BY <1>2, <1>3, <2>2 DEF LengthOf
  <2> QED BY <2>1, <2>2
<1>5. \A hdr : ServiceOf(l, hdr) => ServiceOf(m, hdr)
  BY <1>2, <1>4 DEF ServiceOf
<1>6. DataLen(l) >= HeadLen(l) + 2 => IndexOf(m) = IndexOf(l)
  BY <1>1, <1>3 DEF IndexOf
<1> QED BY <1>1, <1>3, <1>5, <1>6

LEMMA SameParsed ==
  ASSUME NEW l, NEW m, NEW stage \in HeaderStates \cup {"DATA_COLLECT"}, NEW hdr,
         NEW buf \in Seq(Byte), Parsed(l, stage, hdr, buf),
         DataLen(l) \in Nat, DataLen(m) = DataLen(l),
         \A i \in 1..DataLen(l) : Nth(m, i) = Nth(l, i)
  PROVE  Parsed(m, stage, hdr, buf)
<1>1. HeadLen(l) \in {1, 2} /\ Len(buf) \in Nat
  BY DEF HeadLen
<1>2. CASE stage = "HEADER_EXT_LEN"
  BY <1>2 DEF Parsed
<1>3. CASE stage # "HEADER_EXT_LEN"
  <2>1. DataLen(l) >= HeadLen(l)
    BY <1>1, <1>3 DEF Parsed, HeaderStates, PayloadOf
  <2>2. /\ HeadLen(m) = HeadLen(l) /\ (ServiceOf(l, hdr) => ServiceOf(m, hdr))
        /\ DataLen(l) >= HeadLen(l) + 1 => Nth(m, HeadLen(l) + 1) = Nth(l, HeadLen(l) + 1)
        /\ DataLen(l) >= HeadLen(l) + 2 => IndexOf(m) = IndexOf(l)
        /\ DataLen(l) >= HeadLen(l) + 3 => Nth(m, HeadLen(l) + 3) = Nth(l, HeadLen(l) + 3)
    BY <2>1, SameHead
  <2>3. CASE stage = "HEADER_INDEX_HIGH"
    BY <2>2, <2>3 DEF Parsed
  <2>4. CASE stage = "HEADER_INDEX_LOW"
    BY <1>1, <2>2, <2>4 DEF Parsed
  <2>5. CASE stage = "HEADER_SUBINDEX"
    BY <1>1, <2>2, <2>5 DEF Parsed
  <2>6. CASE stage = "DATA_COLLECT"
    <3>1. PayloadOf(l, buf) /\ ServiceOf(l, hdr) /\ hdr.index = IndexOf(l)
          /\ hdr.subindex = Nth(l, HeadLen(l) + 3)
      BY <2>6 DEF Parsed
    <3>2. DataLen(l) = HeadLen(l) + 3 + Len(buf)
      BY <3>1 DEF PayloadOf
    <3>3. \A j \in 1..Len(buf) : HeadLen(l) + 3 + j \in 1..DataLen(l)
      BY <1>1, <3>2
    <3>4. PayloadOf(m, buf)
      BY <2>2, <3>1, <3>2, <3>3 DEF PayloadOf
    <3>5. DataLen(l) >= HeadLen(l) + 2 /\ DataLen(l) >= HeadLen(l) + 3
      BY <1>1, <3>2
    <3> QED BY <2>2, <2>6, <3>1, <3>4, <3>5 DEF Parsed
  <2> QED BY <1>3, <2>3, <2>4, <2>5, <2>6 DEF HeaderStates
<1> QED BY <1>2, <1>3

(* LogInv is inductive.                                                    *)
LEMMA InitLog == MCInit => LogInv
BY DEF MCInit, Init, LogInv, Resting

LEMMA LogRests ==
  ASSUME state' \in Resting, log' = << >> PROVE LogInv'
BY DEF LogInv

LEMMA LogStays ==
  ASSUME LogInv, UNCHANGED <<log, state, next_state, segment_seq, header, buffer>>
  PROVE  LogInv'
BY DEF LogInv, Stage

LEMMA StartLog ==
  ASSUME LogInv, NEW b \in Byte, StartRequest(b), log' = Append(log, b) PROVE LogInv'
<1>1. /\ log = << >> /\ state' = "HEADER_INITIAL" /\ segment_seq' = SeqOf(b) /\ Start(b)
  BY DEF StartRequest, LogInv, Resting
<1>2. log' = <<b>> /\ log' \in Seq(Byte) /\ Len(log') = 1 /\ log'[1] = b
  BY <1>1
<1>3. Numbered(log', segment_seq')
  <2>1. SeqOf(b) \in 0..63
    BY SeqIsSmall
  <2>2. \A x \in 0..63 : (x + 1 - 1) % 64 = x
    OBVIOUS
  <2>3. SeqOf(b) = (SeqOf(b) + 1 - 1) % 64
    BY <2>1, <2>2
  <2>4. (Len(log') + 1) \div 2 = 1 /\ 2..Len(log') = {}
    BY <1>2
  <2> QED BY <1>1, <1>2, <2>3, <2>4 DEF Numbered
<1>4. Stage' = "HEADER_INITIAL"
  BY <1>1 DEF Stage
<1>5. Parsed(log', Stage', header', buffer')
  BY <1>2, <1>4 DEF Parsed
<1>6. Len(log') % 2 = 1
  BY <1>2
<1> QED BY <1>1, <1>2, <1>3, <1>5, <1>6 DEF LogInv, Resting

LEMMA SegmentLog ==
  ASSUME IsduInv, LogInv, NEW b \in Byte, NextSegment(b), log' = Append(log, b) PROVE LogInv'
<1>1. /\ state = "SEGMENT_COLLECT" /\ state' = next_state /\ segment_seq' = SeqOf(b)
      /\ UNCHANGED <<next_state, header, buffer>> /\ ~Start(b) /\ SeqOf(b) = (segment_seq + 1) % 64
  BY DEF NextSegment, NextSeq, request
<1>2. /\ next_state \in HeaderStates \cup {"DATA_COLLECT"} /\ segment_seq \in 0..63
      /\ buffer \in Seq(Byte) /\ header \in Headers
  BY <1>1 DEF IsduInv, BufferInv, CollectOK, ControlOK
<1>3. /\ log \in Seq(Byte) /\ Numbered(log, segment_seq) /\ Len(log) % 2 = 0
      /\ Parsed(log, next_state, header, buffer)
  BY <1>1 DEF LogInv, Resting, Stage
<1>4. Len(log) > 0
  <2>1. DataLen(log) > 0
    BY <1>2, <1>3 DEF Parsed, HeaderStates, HeadLen, PayloadOf
  <2>2. Len(log) \in Nat
    BY <1>3
  <2> QED BY <2>1, <2>2 DEF DataLen
<1>5. /\ log' \in Seq(Byte) /\ Len(log') % 2 = 1 /\ Numbered(log', segment_seq')
      /\ DataLen(log) \in Nat /\ DataLen(log') = DataLen(log)
      /\ \A i \in 1..DataLen(log) : Nth(log', i) = Nth(log, i)
  BY <1>1, <1>2, <1>3, <1>4, ExtendControl
<1>6. Parsed(log', next_state, header, buffer)
  BY <1>2, <1>3, <1>5, SameParsed
<1>7. state' \notin Resting \cup {"SEGMENT_COLLECT", "SERVICE_EXECUTE"}
  BY <1>1, <1>2 DEF Resting, HeaderStates
<1>8. Stage' = next_state
  BY <1>1, <1>7 DEF Stage
<1> QED BY <1>1, <1>5, <1>6, <1>7, <1>8 DEF LogInv

(* The steps that take a data byte, up to what they make of it.            *)
LEMMA DataLog ==
  ASSUME IsduInv, LogInv, NEW b \in Byte, log' = Append(log, b), segment_seq' = segment_seq,
         state \in HeaderStates \cup {"HEADER_INITIAL", "DATA_COLLECT"}
  PROVE  /\ log' \in Seq(Byte) /\ Len(log') % 2 = 0
         /\ Numbered(log', segment_seq')
         /\ Parsed(log, state, header, buffer)
         /\ DataLen(log) \in Nat /\ DataLen(log') = DataLen(log) + 1
         /\ Nth(log', DataLen(log) + 1) = b
         /\ \A i \in 1..DataLen(log) : Nth(log', i) = Nth(log, i)
<1>1. /\ log \in Seq(Byte) /\ Numbered(log, segment_seq) /\ Len(log) % 2 = 1
      /\ Parsed(log, state, header, buffer)
  BY DEF LogInv, Stage, Resting, HeaderStates
<1>2. /\ log' \in Seq(Byte) /\ Len(log') % 2 = 0 /\ Numbered(log', segment_seq)
      /\ DataLen(log) \in Nat /\ DataLen(log') = DataLen(log) + 1
      /\ Nth(log', DataLen(log')) = b
      /\ \A i \in 1..DataLen(log) : Nth(log', i) = Nth(log, i)
  <2>1. segment_seq \in 0..63
    BY DEF IsduInv, ControlOK
  <2>2. log \in Seq(Byte) /\ Numbered(log, segment_seq) /\ Len(log) % 2 = 1
    BY <1>1
  <2>3. /\ log' \in Seq(Byte) /\ Len(log') = Len(log) + 1 /\ log'[Len(log) + 1] = b
        /\ \A i \in 1..Len(log) : log'[i] = log[i]
    BY <2>2, AppendProperties
  <2>4. Len(log') % 2 = 0
    BY <2>1, <2>2, <2>3, ExtendData
  <2>5. Numbered(log', segment_seq)
    BY <2>1, <2>2, <2>3, ExtendData
  <2>6. DataLen(log) \in Nat /\ DataLen(log') = DataLen(log) + 1
    BY <2>1, <2>2, <2>3, ExtendData
  <2>7. Nth(log', DataLen(log')) = b /\ \A i \in 1..DataLen(log) : Nth(log', i) = Nth(log, i)
    <3>1. Len(log) \in Nat
      BY <2>2
    <3>2. PICK p \in Nat : Len(log) = 2 * p + 1
      BY <2>2, <3>1, OddEven
    <3>3. DataLen(log) = p /\ DataLen(log') = p + 1
      BY <2>6, <3>2, Halves DEF DataLen
    <3>4. log'[2 * (p + 1)] = b /\ \A i \in 1..p : log'[2 * i] = log[2 * i]
      BY <2>3, <3>2
    <3> QED BY <3>3, <3>4 DEF Nth
  <2> QED BY <2>3, <2>4, <2>5, <2>6, <2>7
<1>3. Nth(log', DataLen(log) + 1) = b
  BY <1>2
<1>4. Numbered(log', segment_seq')
  BY <1>2
<1> QED BY <1>1, <1>2, <1>3, <1>4

LEMMA DataLogged ==
  ASSUME state' \in {"SEGMENT_COLLECT", "SERVICE_EXECUTE"}, log' \in Seq(Byte),
         Len(log') % 2 = 0, Numbered(log', segment_seq'), NEW stage, stage = Stage',
         Parsed(log', stage, header', buffer')
  PROVE  LogInv'
BY DEF LogInv, Resting

LEMMA HeaderInitialLog ==
  ASSUME IsduInv, LogInv, NEW b \in Byte, HeaderInitial(b), log' = Append(log, b) PROVE LogInv'
<1>1. /\ state = "HEADER_INITIAL" /\ state' = "SEGMENT_COLLECT" /\ segment_seq' = segment_seq
      /\ b \div 16 \in {8, 9}
  BY DEF HeaderInitial
<1>2. /\ log' \in Seq(Byte) /\ Len(log') % 2 = 0 /\ Numbered(log', segment_seq')
      /\ Parsed(log, state, header, buffer) /\ DataLen(log') = DataLen(log) + 1
      /\ Nth(log', DataLen(log) + 1) = b
  BY <1>1, DataLog
<1>3. DataLen(log') = 1 /\ Nth(log', 1) = b
  <2>1. DataLen(log) = 0
    <3>1. Len(log) = 1
      BY <1>1, <1>2 DEF Parsed
    <3> QED BY <3>1 DEF DataLen
  <2> QED BY <1>2, <2>1
<1>4. header \in Headers /\ b \in Int /\ 0 <= b /\ b <= 255
  BY InByte DEF IsduInv, BufferInv, CollectOK
<1>5. CASE b = 159
  <2>1. next_state' = "HEADER_EXT_LEN" /\ header'.type = "WRITE"
    BY <1>4, <1>5 DEF HeaderInitial, Headers
  <2>2. Stage' = "HEADER_EXT_LEN"
    BY <1>1, <2>1 DEF Stage
  <2>3. Parsed(log', "HEADER_EXT_LEN", header', buffer')
    BY <1>3, <1>5, <2>1 DEF Parsed
  <2> QED BY <1>1, <1>2, <2>2, <2>3, DataLogged
<1>6. CASE b # 159
  <2>1. ~(b \div 16 = 9 /\ b % 16 = 15)
    BY <1>4, <1>6
  <2>2. /\ next_state' = "HEADER_INDEX_HIGH"
        /\ header'.type = "READ" => b \div 16 = 8
        /\ header'.type = "WRITE" => b \div 16 = 9 /\ header'.length = b % 16
    BY <1>1, <1>4, <2>1 DEF HeaderInitial, Headers
  <2>3. Stage' = "HEADER_INDEX_HIGH"
    BY <1>1, <2>2 DEF Stage
  <2>4. HeadLen(log') = 1 /\ LengthOf(log') = b % 16
    BY <1>3, <1>6 DEF HeadLen, LengthOf
  <2>5. ServiceOf(log', header')
    BY <1>3, <2>2, <2>4 DEF ServiceOf
  <2>6. Parsed(log', "HEADER_INDEX_HIGH", header', buffer')
    BY <1>3, <2>4, <2>5 DEF Parsed
  <2> QED BY <1>1, <1>2, <2>3, <2>6, DataLogged
<1> QED BY <1>5, <1>6

LEMMA HeaderByteLog ==
  ASSUME IsduInv, LogInv, NEW b \in Byte, HeaderByte(b), log' = Append(log, b) PROVE LogInv'
<1>1. /\ state \in HeaderStates /\ segment_seq' = segment_seq /\ buffer' = buffer
      /\ state' \in {"SEGMENT_COLLECT", "SERVICE_EXECUTE"}
  BY DEF HeaderByte, HeaderStates
<1>2. /\ log' \in Seq(Byte) /\ Len(log') % 2 = 0 /\ Numbered(log', segment_seq')
      /\ Parsed(log, state, header, buffer)
      /\ DataLen(log) \in Nat /\ DataLen(log') = DataLen(log) + 1
      /\ Nth(log', DataLen(log) + 1) = b
      /\ \A i \in 1..DataLen(log) : Nth(log', i) = Nth(log, i)
  BY <1>1, DataLog
<1>3. header \in Headers /\ buffer = << >>
  BY <1>1 DEF IsduInv, BufferInv, CollectOK, EmptyInHeader, Collecting
<1>4. HeadLen(log) \in {1, 2}
  BY DEF HeadLen
<1>5. CASE state = "HEADER_EXT_LEN"
  <2>1. /\ header' = [header EXCEPT !.length = b] /\ next_state' = "HEADER_INDEX_HIGH"
        /\ state' = "SEGMENT_COLLECT"
    BY <1>5 DEF HeaderByte
  <2>2. DataLen(log) = 1 /\ Nth(log, 1) = 159 /\ header.type = "WRITE"
    BY <1>2, <1>5 DEF Parsed
  <2>3. Nth(log', 1) = 159 /\ Nth(log', 2) = b /\ DataLen(log') = 2
    BY <1>2, <2>2
  <2>4. HeadLen(log') = 2 /\ LengthOf(log') = b
    BY <2>3 DEF HeadLen, LengthOf
  <2>5. header'.type = "WRITE" /\ header'.length = b
    BY <1>3, <2>1, <2>2 DEF Headers
  <2>6. ServiceOf(log', header')
    BY <2>3, <2>4, <2>5 DEF ServiceOf
  <2>7. Parsed(log', "HEADER_INDEX_HIGH", header', buffer')
    BY <2>3, <2>4, <2>6 DEF Parsed
  <2>8. Stage' = "HEADER_INDEX_HIGH"
    BY <2>1 DEF Stage
  <2> QED BY <1>1, <1>2, <2>7, <2>8, DataLogged
<1>6. CASE state # "HEADER_EXT_LEN"
  <2>1. /\ DataLen(log) >= HeadLen(log) /\ ServiceOf(log, header)
    BY <1>1, <1>2, <1>4, <1>6 DEF Parsed, HeaderStates
  <2>2. /\ HeadLen(log') = HeadLen(log) /\ (\A hdr : ServiceOf(log, hdr) => ServiceOf(log', hdr))
        /\ DataLen(log) >= HeadLen(log) + 1 =>
             Nth(log', HeadLen(log) + 1) = Nth(log, HeadLen(log) + 1)
        /\ DataLen(log) >= HeadLen(log) + 2 => IndexOf(log') = IndexOf(log)
    BY <1>2, <2>1, SameHead
  <2>3. ServiceOf(log', header')
    <3>1. header'.type = header.type /\ header'.length = header.length
      BY <1>3, <1>6 DEF HeaderByte, Headers
    <3>2. ServiceOf(log', header)
      BY <2>1, <2>2
    <3> QED BY <3>1, <3>2 DEF ServiceOf
  <2>4. CASE state = "HEADER_INDEX_HIGH"
    <3>1. /\ header'.index = 256 * b /\ next_state' = "HEADER_INDEX_LOW"
          /\ state' = "SEGMENT_COLLECT"
      BY <1>3, <2>4 DEF HeaderByte, Headers
    <3>2. DataLen(log) = HeadLen(log)
      BY <1>2, <2>4 DEF Parsed
    <3>3. Parsed(log', "HEADER_INDEX_LOW", header', buffer')
      BY <1>2, <2>2, <2>3, <3>1, <3>2 DEF Parsed
    <3>4. Stage' = "HEADER_INDEX_LOW"
      BY <3>1 DEF Stage
    <3> QED BY <1>1, <1>2, <3>3, <3>4, DataLogged
  <2>5. CASE state = "HEADER_INDEX_LOW"
    <3>1. /\ header'.index = header.index + b /\ next_state' = "HEADER_SUBINDEX"
          /\ state' = "SEGMENT_COLLECT"
      BY <1>3, <2>5 DEF HeaderByte, Headers
    <3>2. DataLen(log) = HeadLen(log) + 1 /\ header.index = 256 * Nth(log, HeadLen(log) + 1)
      BY <1>2, <2>5 DEF Parsed
    <3>3. Nth(log', HeadLen(log) + 1) = Nth(log, HeadLen(log) + 1)
      BY <1>2, <2>2, <3>2
    <3>4. Nth(log', HeadLen(log) + 2) = b
      BY <1>2, <1>4, <3>2
    <3>5. header'.index = IndexOf(log')
      BY <2>2, <3>1, <3>2, <3>3, <3>4 DEF IndexOf
    <3>6. DataLen(log') = HeadLen(log') + 2
      BY <1>2, <1>4, <2>2, <3>2
    <3>7. Parsed(log', "HEADER_SUBINDEX", header', buffer')
      BY <2>3, <3>5, <3>6 DEF Parsed
    <3>8. Stage' = "HEADER_SUBINDEX"
      BY <3>1 DEF Stage
    <3> QED BY <1>1, <1>2, <3>7, <3>8, DataLogged
  <2>6. CASE state = "HEADER_SUBINDEX"
    <3>1. /\ header' = [header EXCEPT !.subindex = b]
          /\ \/ next_state' = "DATA_COLLECT" /\ state' = "SEGMENT_COLLECT"
             \/ state' = "SERVICE_EXECUTE"
      BY <1>3, <2>6 DEF HeaderByte
    <3>2. header'.subindex = b /\ header'.index = header.index
      BY <1>3, <3>1 DEF Headers
    <3>3. DataLen(log) = HeadLen(log) + 2 /\ header.index = IndexOf(log)
      BY <1>2, <2>6 DEF Parsed
    <3>4. Nth(log', HeadLen(log) + 3) = b /\ DataLen(log') = HeadLen(log') + 3
      BY <1>2, <1>4, <2>2, <3>3
    <3>5. IndexOf(log') = IndexOf(log)
      BY <1>2, <2>2, <3>3
    <3>6. PayloadOf(log', buffer')
      BY <1>1, <1>3, <1>4, <2>2, <3>4 DEF PayloadOf
    <3>7. Stage' \in {"DATA_COLLECT", "SERVICE_EXECUTE"}
      BY <3>1 DEF Stage
    <3> DEFINE stage == Stage'
    <3>8. Parsed(log', stage, header', buffer')
      BY <1>1, <1>3, <2>2, <2>3, <3>2, <3>3, <3>4, <3>5, <3>6, <3>7 DEF Parsed
    <3> QED BY <1>1, <1>2, <3>8, DataLogged
  <2> QED BY <1>1, <1>6, <2>4, <2>5, <2>6 DEF HeaderStates
<1> QED BY <1>5, <1>6

LEMMA DataByteLog ==
  ASSUME IsduInv, LogInv, NEW b \in Byte, DataByte(b), log' = Append(log, b) PROVE LogInv'
<1>1. /\ state = "DATA_COLLECT" /\ segment_seq' = segment_seq /\ header' = header
      /\ buffer' = Append(buffer, b)
      /\ \/ state' = "SERVICE_EXECUTE"
         \/ state' = "SEGMENT_COLLECT" /\ next_state' = "DATA_COLLECT"
  BY DEF DataByte
<1>2. /\ log' \in Seq(Byte) /\ Len(log') % 2 = 0 /\ Numbered(log', segment_seq')
      /\ Parsed(log, state, header, buffer)
      /\ DataLen(log) \in Nat /\ DataLen(log') = DataLen(log) + 1
      /\ Nth(log', DataLen(log) + 1) = b
      /\ \A i \in 1..DataLen(log) : Nth(log', i) = Nth(log, i)
  BY <1>1, DataLog
<1>3. /\ buffer \in Seq(Byte) /\ Len(buffer) \in Nat /\ Len(buffer') = Len(buffer) + 1
      /\ buffer'[Len(buffer) + 1] = b /\ \A j \in 1..Len(buffer) : buffer'[j] = buffer[j]
  <2>1. buffer \in Seq(Byte)
    BY DEF IsduInv, BufferInv, CollectOK
  <2> QED BY <1>1, <2>1, AppendProperties
<1>4. HeadLen(log) \in {1, 2}
  BY DEF HeadLen
<1>5. /\ ServiceOf(log, header) /\ header.index = IndexOf(log)
      /\ header.subindex = Nth(log, HeadLen(log) + 3)
      /\ DataLen(log) = HeadLen(log) + 3 + Len(buffer)
      /\ \A j \in 1..Len(buffer) : buffer[j] = Nth(log, HeadLen(log) + 3 + j)
  BY <1>1, <1>2 DEF Parsed, PayloadOf
<1>6. DataLen(log) >= HeadLen(log) /\ DataLen(log) >= HeadLen(log) + 2
      /\ DataLen(log) >= HeadLen(log) + 3
  BY <1>3, <1>4, <1>5
<1>7. /\ HeadLen(log') = HeadLen(log) /\ ServiceOf(log', header)
      /\ IndexOf(log') = IndexOf(log)
      /\ Nth(log', HeadLen(log) + 3) = Nth(log, HeadLen(log) + 3)
  BY <1>2, <1>5, <1>6, SameHead
<1>8. PayloadOf(log', buffer')
  <2>1. DataLen(log') = HeadLen(log') + 3 + Len(buffer')
    BY <1>2, <1>3, <1>4, <1>5, <1>7
  <2>2. ASSUME NEW j \in 1..Len(buffer') PROVE buffer'[j] = Nth(log', HeadLen(log') + 3 + j)
    <3>1. CASE j = Len(buffer) + 1
      <4>1. HeadLen(log') + 3 + j = DataLen(log) + 1
        BY <1>3, <1>4, <1>5, <1>7, <3>1
      <4> QED BY <1>2, <1>3, <3>1, <4>1
    <3>2. CASE j # Len(buffer) + 1
      <4>1. j \in 1..Len(buffer)
        BY <1>3, <2>2, <3>2
      <4>2. HeadLen(log) + 3 + j \in 1..DataLen(log)
        BY <1>3, <1>4, <1>5, <4>1
      <4> QED BY <1>2, <1>3, <1>5, <1>7, <4>1, <4>2
    <3> QED BY <3>1, <3>2
  <2> QED BY <2>1, <2>2 DEF PayloadOf
<1>9. Stage' \in {"DATA_COLLECT", "SERVICE_EXECUTE"}
  BY <1>1 DEF Stage
<1> DEFINE stage == Stage'
<1>10. header'.type # "READ"
  BY <1>1 DEF IsduInv, BufferInv, BufferFits, Collecting
<1>11. Parsed(log', stage, header', buffer')
  BY <1>1, <1>5, <1>7, <1>8, <1>9, <1>10 DEF Parsed
<1> QED BY <1>1, <1>2, <1>11, DataLogged

LEMMA CollectLog ==
  ASSUME IsduInv, LogInv, MCCollect PROVE LogInv'
<1>1. PICK b \in Byte :
        /\ collect_byte(b)
        /\ log' = CASE state' \in {"IDLE", "RESPONSE_READY"} -> << >>
                    [] state = "SERVICE_EXECUTE" -> log
                    [] OTHER -> Append(log, b)
  BY BytesAreBytes DEF MCCollect, IsduInv, BufferInv, CollectOK
<1>2. CASE IgnoreByte(b)
  <2>1. UNCHANGED <<state, next_state, segment_seq, header, buffer>>
        /\ state \in {"IDLE", "RESPONSE_READY", "SERVICE_EXECUTE"}
    BY <1>2 DEF IgnoreByte, request
  <2>2. CASE state = "SERVICE_EXECUTE"
    <3>1. log' = log
      BY <1>1, <2>1, <2>2
    <3> QED BY <2>1, <3>1, LogStays
  <2>3. CASE state # "SERVICE_EXECUTE"
    <3>1. state' \in Resting /\ log' = << >>
      BY <1>1, <2>1, <2>3 DEF Resting
    <3> QED BY <3>1, LogRests
  <2> QED BY <2>2, <2>3
<1>3. CASE Collision(b) \/ SequenceError(b) \/ BadService(b)
  <2>1. state' \in {"IDLE", "RESPONSE_READY"} /\ state # "SERVICE_EXECUTE"
    BY <1>3 DEF Collision, SequenceError, BadService
  <2>2. log' = << >>
    BY <1>1, <2>1
  <2> QED BY <2>1, <2>2, LogRests DEF Resting
<1>4. CASE \/ StartRequest(b) \/ NextSegment(b) \/ HeaderInitial(b) \/ HeaderByte(b) \/ DataByte(b)
  <2>1. state # "SERVICE_EXECUTE" /\ state' \notin {"IDLE", "RESPONSE_READY"}
    BY <1>4 DEF StartRequest, NextSegment, HeaderInitial, HeaderByte, DataByte, IsduInv,
       BufferInv, CollectOK, HeaderStates
  <2>2. log' = Append(log, b)
    BY <1>1, <2>1
  <2> QED BY <1>4, <2>2, StartLog, SegmentLog, HeaderInitialLog, HeaderByteLog, DataByteLog
<1> QED BY <1>1, <1>2, <1>3, <1>4 DEF collect_byte

LEMMA GetLog ==
  ASSUME LogInv, MCGet PROVE LogInv'
<1>1. get_response_byte /\ log' = log
  BY DEF MCGet
<1>2. CASE state = "RESPONSE_READY"
  <2>1. state' \in Resting /\ log = << >>
    BY <1>1, <1>2 DEF get_response_byte, NoResponse, ResponseControl, ResponseData, ResponseEmpty,
       Resting, LogInv
  <2> QED BY <1>1, <2>1, LogRests
<1>3. CASE state # "RESPONSE_READY"
  <2>1. NoResponse
    BY <1>1, <1>3 DEF get_response_byte, ResponseControl, ResponseData, ResponseEmpty
  <2> QED BY <1>1, <2>1, LogStays DEF NoResponse, Gotten, request
<1> QED BY <1>2, <1>3

LEMMA NextLog == IsduInv /\ LogInv /\ [MCNext]_<<vars, log, rx>> => LogInv'
<1> SUFFICES ASSUME IsduInv, LogInv, [MCNext]_<<vars, log, rx>> PROVE LogInv'
  OBVIOUS
<1>1. CASE MCProcess
  <2>1. state' \in Resting
    BY <1>1, ServiceAnswers DEF MCProcess, Respond, Ready, Silent, Resting
  <2> QED BY <1>1, <2>1, LogRests DEF MCProcess
<1>2. CASE MCTrigger
  BY <1>2, LogStays DEF MCTrigger, TriggerEvent, request
<1>3. CASE UNCHANGED <<vars, log, rx>>
  BY <1>3, LogStays DEF vars, request
<1> QED BY <1>1, <1>2, <1>3, CollectLog, GetLog DEF MCNext

(* The observed data bytes, as a sequence. *)
LEMMA DataIs ==
  ASSUME log \in Seq(Byte), Len(log) % 2 = 0
  PROVE  /\ Data \in Seq(Byte) /\ Len(Data) = DataLen(log) /\ DataLen(log) \in Nat
         /\ \A i \in 1..DataLen(log) : Data[i] = Nth(log, i)
<1>1. Len(log) \in Nat
  OBVIOUS
<1>2. PICK p \in Nat : Len(log) = 2 * p
  BY <1>1, OddEven
<1>3. DataLen(log) = p
  BY <1>2, Halves DEF DataLen
<1>4. \A i \in 1..p : log[2 * i] \in Byte
  <2> SUFFICES ASSUME NEW i \in 1..p PROVE log[2 * i] \in Byte
    OBVIOUS
  <2>1. 2 * i \in 1..Len(log)
    BY <1>2
  <2> QED BY <2>1, ElementOfSeq
<1>5. Data = [i \in 1..p |-> log[2 * i]]
  BY <1>3 DEF Data, DataLen
<1>6. Data \in Seq(Byte) /\ Len(Data) = p
  BY <1>4, <1>5
<1>7. \A i \in 1..p : Data[i] = Nth(log, i)
  BY <1>5 DEF Nth
<1> QED BY <1>3, <1>6, <1>7

(* What iolink_isdu_process executes is a request that the master sent as  *)
(* a whole: whatever was collected, refused or broken off before, no byte  *)
(* is lost, taken twice or mixed in from another request, and service,     *)
(* length, index, subindex and payload are where the master put them, for  *)
(* every length up to 255.                                                 *)
THEOREM IsduRequestIsWhole == MCSpec => []RequestIsWhole
<1>1. IsduInv /\ LogInv => RequestIsWhole
  <2> SUFFICES ASSUME IsduInv, LogInv, state = "SERVICE_EXECUTE"
               PROVE  /\ WellFormed
                      /\ LET h   == IF Data[1] = 159 THEN 2 ELSE 1
                             len == IF h = 2 THEN Data[2] ELSE Data[1] % 16
                         IN  /\ header.index = 256 * Data[h + 1] + Data[h + 2]
                             /\ header.subindex = Data[h + 3]
                             /\ IF Data[1] \div 16 = 8
                                THEN header.type = "READ" /\ Len(Data) = 4
                                ELSE /\ header.type = "WRITE" /\ Data[1] \div 16 = 9
                                     /\ buffer = SubSeq(Data, h + 4, Len(Data))
                                     /\ Len(buffer) = Payload(len)
    BY DEF RequestIsWhole
  <2> DEFINE h == HeadLen(log)
  <2>1. /\ log \in Seq(Byte) /\ Len(log) % 2 = 0 /\ Numbered(log, segment_seq)
        /\ Parsed(log, "SERVICE_EXECUTE", header, buffer)
    BY DEF LogInv, Resting, Stage
  <2>2. /\ ServiceOf(log, header) /\ header.index = IndexOf(log)
        /\ header.subindex = Nth(log, h + 3)
        /\ DataLen(log) = h + 3 + Len(buffer)
        /\ \A j \in 1..Len(buffer) : buffer[j] = Nth(log, h + 3 + j)
    BY <2>1 DEF Parsed, PayloadOf
  <2>3. /\ Data \in Seq(Byte) /\ Len(Data) = DataLen(log) /\ DataLen(log) \in Nat
        /\ \A i \in 1..DataLen(log) : Data[i] = Nth(log, i)
    BY <2>1, DataIs
  <2>4. header \in Headers /\ buffer \in Seq(Byte) /\ Len(buffer) \in Nat
    BY DEF IsduInv, BufferInv, CollectOK
  <2>5. h \in {1, 2} /\ (h = 2 <=> Nth(log, 1) = 159)
    BY DEF HeadLen
  <2>6. \A k \in 1..(h + 3) : Data[k] = Nth(log, k)
    BY <2>2, <2>3, <2>4, <2>5
  <2>7. Data[1] = Nth(log, 1) /\ Data[2] = Nth(log, 2) /\ Data[h + 1] = Nth(log, h + 1)
        /\ Data[h + 2] = Nth(log, h + 2) /\ Data[h + 3] = Nth(log, h + 3)
    BY <2>5, <2>6
  <2>8. h = IF Data[1] = 159 THEN 2 ELSE 1
    BY <2>5, <2>7
  <2>9. LengthOf(log) = IF h = 2 THEN Data[2] ELSE Data[1] % 16
    BY <2>7 DEF LengthOf
  <2>10. header.index = 256 * Data[h + 1] + Data[h + 2] /\ header.subindex = Data[h + 3]
    BY <2>2, <2>7 DEF IndexOf
  <2>11. WellFormed
    <3>1. Len(log) \in Nat /\ Len(log) > 0
      <4>1. DataLen(log) > 0
        BY <2>2, <2>4, <2>5
      <4>2. Len(log) \in Nat
        BY <2>1
      <4> QED BY <4>1, <4>2 DEF DataLen
    <3>2. \A i \in 2..(Len(log) \div 2) : i \in 2..Len(log) /\ 2 * i - 1 <= Len(log)
      BY <3>1
    <3> QED BY <2>1, <3>1, <3>2 DEF WellFormed, Numbered
  <2>12. CASE header.type = "READ"
    <3>1. Data[1] \div 16 = 8
      BY <2>2, <2>7, <2>12 DEF ServiceOf
    <3>2. h = 1 /\ buffer = << >>
      <4>1. Data[1] # 159
        BY <3>1
      <4>2. buffer = << >>
        BY <2>1, <2>12 DEF Parsed
      <4> QED BY <2>8, <4>1, <4>2
    <3> QED BY <2>2, <2>3, <2>8, <2>10, <2>11, <2>12, <3>1, <3>2
  <2>13. CASE header.type = "WRITE"
    <3>1. Data[1] \div 16 = 9 /\ header.length = LengthOf(log)
      BY <2>2, <2>7, <2>13 DEF ServiceOf
    <3>2. Len(buffer) = Payload(LengthOf(log))
      BY <2>13, <3>1 DEF IsduInv, BufferInv, BufferFits
    <3>3. buffer = SubSeq(Data, h + 4, Len(Data))
      <4> DEFINE s == SubSeq(Data, h + 4, Len(Data))
      <4>1. \A i \in (h + 4)..Len(Data) : Data[i] \in Byte
        BY <2>3, <2>5, ElementOfSeq
      <4>2. h + 4 \in Int /\ Len(Data) \in Int
        BY <2>3, <2>5
      <4>3. /\ s \in Seq(Byte)
            /\ Len(s) = IF h + 4 <= Len(Data) THEN Len(Data) - (h + 4) + 1 ELSE 0
            /\ \A i \in 1..(Len(Data) - (h + 4) + 1) : s[i] = Data[h + 4 + i - 1]
        <5> HIDE DEF h
        <5> QED BY <4>1, <4>2, SubSeqProperties
      <4> HIDE DEF s
      <4>4. Len(s) = Len(buffer)
        BY <2>2, <2>3, <2>4, <2>5, <4>3
      <4>5. \A i \in 1..Len(buffer) : buffer[i] = s[i]
        <5> SUFFICES ASSUME NEW i \in 1..Len(buffer) PROVE buffer[i] = s[i]
          OBVIOUS
        <5>1. h + 3 + i \in 1..DataLen(log) /\ h + 4 + i - 1 = h + 3 + i
          BY <2>2, <2>4, <2>5
        <5>2. i \in 1..(Len(Data) - (h + 4) + 1)
          BY <2>2, <2>3, <2>4, <2>5
        <5>3. s[i] = Data[h + 3 + i]
          BY <4>3, <5>1, <5>2
        <5> QED BY <2>2, <2>3, <5>1, <5>3
      <4> QED BY <2>4, <4>3, <4>4, <4>5, SeqEqual DEF s
    <3> QED BY <2>8, <2>9, <2>10, <2>11, <2>13, <3>1, <3>2, <3>3
  <2> QED BY <2>4, <2>12, <2>13 DEF Headers
<1>2. IsduInv /\ [MCNext]_<<vars, log, rx>> => IsduInv'
  BY StepIsNext, NextIsdu
<1> QED BY <1>1, <1>2, InitIsInit, InitLog, NextLog, PTL DEF MCSpec
=============================================================================
