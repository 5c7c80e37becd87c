-------------------------------- MODULE Isdu --------------------------------
(***************************************************************************)
(* The acyclic services of the device (isdu.c): requests arrive one byte   *)
(* per on-request slot, every data byte preceded by a control byte         *)
(* (START, LAST, a sequence number of six bits), are executed by           *)
(* iolink_isdu_process, and are answered in the same way.                  *)
(*                                                                         *)
(* The DLL calls the engine in a fixed order, which turn keeps: for every  *)
(* on-request byte of a frame collect_byte and then get_response_byte; and *)
(* iolink_isdu_process between frames.  The bytes are the master's, and it *)
(* may send any: the line may have lost the two sides' common phase.       *)
(*                                                                         *)
(* The event queue is the drop-oldest FIFO that module Events implements;  *)
(* the engine is wired as iolink_dll_init does it: event_ctx and dll_ctx   *)
(* are set, ds_ctx is NULL.                                                *)
(***************************************************************************)
EXTENDS Integers, Sequences, FiniteSetsExt

CONSTANTS
  Bytes,        \* for each state of the engine, the bytes the master sends in it
  BufferSize,   \* IOLINK_ISDU_BUFFER_SIZE: 256
  Info,         \* the device info texts and numbers, by index, as bytes
  Strings,      \* the indices of Info that are zero-terminated texts
  DefaultInfo,  \* device info is the built-in, writable one
  AppTag,       \* the application tag at start
  Stats,        \* the 16 bytes of DLL counters of index ERROR_STATS
  EventCodes,   \* event codes that may be triggered, in Word
  QueueSize     \* IOLINK_EVENT_QUEUE_SIZE: 4

Byte == 0..255
Word == 0..65535

States == {"IDLE", "HEADER_INITIAL", "HEADER_EXT_LEN", "HEADER_INDEX_HIGH",
           "HEADER_INDEX_LOW", "HEADER_SUBINDEX", "DATA_COLLECT", "SEGMENT_COLLECT",
           "SERVICE_EXECUTE", "RESPONSE_READY"}

(* The indices that isdu.c names.                                          *)
SYSTEM_COMMAND   == 2
ACCESS_LOCKS     == 12
APPLICATION_TAG  == 24
FUNCTION_TAG     == 25
LOCATION_TAG     == 26
DEVICE_STATUS    == 27
DETAILED_STATUS  == 28
PDIN_DESCRIPTOR  == 29
ERROR_STATS      == 37

Tags == {APPLICATION_TAG, FUNCTION_TAG, LOCATION_TAG}

EventTypes == {"NOTIFICATION", "WARNING", "ERROR"}
Event == [code : EventCodes, type : EventTypes]
Severity(e) == CASE e.type = "NOTIFICATION" -> 1
                 [] e.type = "WARNING" -> 2
                 [] e.type = "ERROR" -> 3

ASSUME BytesConstant == Bytes \in [States -> SUBSET Byte]

ASSUME IsduConstants ==
  /\ BufferSize = 256
  /\ \A i \in DOMAIN Info : Info[i] \in Seq(Byte)
  /\ Strings \subseteq DOMAIN Info
  /\ DefaultInfo \in BOOLEAN
  /\ AppTag \in Seq(Byte) /\ Len(AppTag) <= 32
  /\ Stats \in Seq(Byte) /\ Len(Stats) = 16
  /\ EventCodes \subseteq Word
  /\ QueueSize \in 1..255

VARIABLES
  state, next_state,
  segment_seq,
  header,                    \* type, length, index, subindex
  buffer,                    \* buffer[0 .. buffer_idx-1]
  response_buf, response_len, response_idx,
  is_response_control_sent,
  reset_pending, app_reset_pending,
  tags, access_locks,        \* params.c and device_info.c
  events,                    \* the event queue
  turn,                      \* the call of the DLL that comes next
  tx                         \* the byte the last get_response_byte gave, if any

request  == <<next_state, header, buffer>>
response == <<response_buf, response_len, response_idx>>
flags    == <<reset_pending, app_reset_pending>>
params   == <<tags, access_locks>>
vars     == <<state, segment_seq, request, response, is_response_control_sent,
              flags, params, events, turn, tx>>

Init ==
  /\ state = "IDLE" /\ next_state = "IDLE"
  /\ segment_seq = 0
  /\ header = [type |-> "READ", length |-> 0, index |-> 0, subindex |-> 0]
  /\ buffer = << >>
  /\ response_buf = << >> /\ response_len = 0 /\ response_idx = 0
  /\ is_response_control_sent = FALSE
  /\ reset_pending = FALSE /\ app_reset_pending = FALSE
  /\ tags = [i \in Tags |-> IF i = APPLICATION_TAG THEN AppTag ELSE << >>]
  /\ access_locks = <<0, 0>>
  /\ events = << >>
  /\ turn = "collect"
  /\ tx = << >>

-----------------------------------------------------------------------------
(* iolink_isdu_collect_byte *)

Start(b) == b >= 128
SeqOf(b) == b % 64
NextSeq == (segment_seq + 1) % 64

ERROR_SERVICE_NOT_AVAIL  == 17
ERROR_SUBINDEX_NOT_AVAIL == 18
ERROR_BUSY               == 48
ERROR_WRITE_PROTECTED    == 51
ERROR_SEGMENTATION       == 129

ErrorResponse(code) ==
  /\ response_buf' = <<128, code>> /\ response_len' = 2 /\ response_idx' = 0

Collected == turn' = "get" /\ tx' = << >> /\ UNCHANGED <<flags, params, events>>

(* isdu_handle_idle for a START byte, in IDLE or over a response that is   *)
(* still being read.                                                       *)
StartRequest(b) ==
  /\ turn = "collect" /\ state \in {"IDLE", "RESPONSE_READY"} /\ Start(b)
  /\ state' = "HEADER_INITIAL"
  /\ segment_seq' = SeqOf(b)
  /\ is_response_control_sent' = FALSE
  /\ buffer' = << >>
  /\ response_len' = 0 /\ response_idx' = 0
  /\ UNCHANGED <<next_state, header, response_buf>> /\ Collected

(* Mutant: an idle byte ends a response that is being read. *)
IgnoreByteAborts(b) ==
  /\ turn = "collect"
  /\ \/ state \in {"IDLE", "RESPONSE_READY"} /\ ~Start(b)
     \/ state = "SERVICE_EXECUTE"
  /\ state' = IF state = "RESPONSE_READY" THEN "IDLE" ELSE state
  /\ UNCHANGED <<segment_seq, request, response, is_response_control_sent>> /\ Collected

(* A byte that is not START in IDLE or RESPONSE_READY, and any byte while  *)
(* the request waits for iolink_isdu_process.                              *)
IgnoreByte(b) ==
  /\ turn = "collect"
  /\ \/ state \in {"IDLE", "RESPONSE_READY"} /\ ~Start(b)
     \/ state = "SERVICE_EXECUTE"
  /\ UNCHANGED <<state, segment_seq, request, response, is_response_control_sent>> /\ Collected

(* START between two segments.                                             *)
Collision(b) ==
  /\ turn = "collect" /\ state = "SEGMENT_COLLECT" /\ Start(b)
  /\ ErrorResponse(ERROR_BUSY)
  /\ is_response_control_sent' = FALSE
  /\ state' = "RESPONSE_READY"
  /\ UNCHANGED <<segment_seq, request>> /\ Collected

SequenceError(b) ==
  /\ turn = "collect" /\ state = "SEGMENT_COLLECT" /\ ~Start(b) /\ SeqOf(b) # NextSeq
  /\ ErrorResponse(ERROR_SEGMENTATION)
  /\ is_response_control_sent' = FALSE
  /\ state' = "RESPONSE_READY"
  /\ segment_seq' = 0
  /\ UNCHANGED request /\ Collected

(* Mutant: the sequence number is not checked. *)
NextSegmentAny(b) ==
  /\ turn = "collect" /\ state = "SEGMENT_COLLECT" /\ ~Start(b)
  /\ segment_seq' = SeqOf(b)
  /\ state' = next_state
  /\ UNCHANGED <<request, response, is_response_control_sent>> /\ Collected

NextSegment(b) ==
  /\ turn = "collect" /\ state = "SEGMENT_COLLECT" /\ ~Start(b) /\ SeqOf(b) = NextSeq
  /\ segment_seq' = SeqOf(b)
  /\ state' = next_state
  /\ UNCHANGED <<request, response, is_response_control_sent>> /\ Collected

(* The first data byte: service and length.                                *)
HeaderInitial(b) ==
  /\ turn = "collect" /\ state = "HEADER_INITIAL" /\ b \div 16 \in {8, 9}
  /\ LET write == b \div 16 = 9
         ext   == write /\ b % 16 = 15
     IN  /\ header' = [header EXCEPT !.type = IF write THEN "WRITE" ELSE "READ",
                                     !.length = IF ~write THEN 0
                                                ELSE IF ext THEN header.length ELSE b % 16]
         /\ next_state' = IF ext THEN "HEADER_EXT_LEN" ELSE "HEADER_INDEX_HIGH"
  /\ buffer' = << >>
  /\ state' = "SEGMENT_COLLECT"
  /\ UNCHANGED <<segment_seq, response, is_response_control_sent>> /\ Collected

BadService(b) ==
  /\ turn = "collect" /\ state = "HEADER_INITIAL" /\ b \div 16 \notin {8, 9}
  /\ ErrorResponse(ERROR_SERVICE_NOT_AVAIL)
  /\ state' = "RESPONSE_READY"
  /\ UNCHANGED <<segment_seq, request, is_response_control_sent>> /\ Collected

(* The other bytes of the header; the last one ends a READ request.        *)
HeaderByte(b) ==
  /\ turn = "collect"
  /\ \/ /\ state = "HEADER_EXT_LEN"
        /\ header' = [header EXCEPT !.length = b]
        /\ next_state' = "HEADER_INDEX_HIGH" /\ state' = "SEGMENT_COLLECT"
     \/ /\ state = "HEADER_INDEX_HIGH"
        /\ header' = [header EXCEPT !.index = 256 * b]
        /\ next_state' = "HEADER_INDEX_LOW" /\ state' = "SEGMENT_COLLECT"
     \/ /\ state = "HEADER_INDEX_LOW"
        /\ header' = [header EXCEPT !.index = header.index + b]
        /\ next_state' = "HEADER_SUBINDEX" /\ state' = "SEGMENT_COLLECT"
     \/ /\ state = "HEADER_SUBINDEX" /\ header.type = "WRITE"
        /\ header' = [header EXCEPT !.subindex = b]
        /\ next_state' = "DATA_COLLECT" /\ state' = "SEGMENT_COLLECT"
     \/ /\ state = "HEADER_SUBINDEX" /\ header.type = "READ"
        /\ header' = [header EXCEPT !.subindex = b]
        /\ next_state' = next_state /\ state' = "SERVICE_EXECUTE"
  /\ UNCHANGED <<segment_seq, buffer, response, is_response_control_sent>> /\ Collected

(* Mutant: the length is compared with > instead of >=. *)
DataByteOneMore(b) ==
  /\ turn = "collect" /\ state = "DATA_COLLECT"
  /\ buffer' = Append(buffer, b)
  /\ IF Len(buffer) + 1 > header.length
     THEN state' = "SERVICE_EXECUTE" /\ next_state' = next_state
     ELSE state' = "SEGMENT_COLLECT" /\ next_state' = "DATA_COLLECT"
  /\ UNCHANGED <<segment_seq, header, response, is_response_control_sent>> /\ Collected

DataByte(b) ==
  /\ turn = "collect" /\ state = "DATA_COLLECT"
  /\ buffer' = Append(buffer, b)
  /\ IF Len(buffer) + 1 >= header.length
     THEN state' = "SERVICE_EXECUTE" /\ next_state' = next_state
     ELSE state' = "SEGMENT_COLLECT" /\ next_state' = "DATA_COLLECT"
  /\ UNCHANGED <<segment_seq, header, response, is_response_control_sent>> /\ Collected

collect_byte(b) ==
  \/ StartRequest(b) \/ IgnoreByte(b)
  \/ Collision(b) \/ SequenceError(b) \/ NextSegment(b)
  \/ HeaderInitial(b) \/ BadService(b) \/ HeaderByte(b) \/ DataByte(b)

-----------------------------------------------------------------------------
(* iolink_isdu_get_response_byte *)

Gotten == turn' = "collect" /\ UNCHANGED <<request, response_buf, response_len, flags, params, events>>

NoResponse ==
  /\ turn = "get" /\ state # "RESPONSE_READY"
  /\ tx' = << >>
  /\ UNCHANGED <<state, segment_seq, response_idx, is_response_control_sent>> /\ Gotten

(* Mutant: the LAST bit is set one segment too late. *)
ResponseControlLate ==
  /\ turn = "get" /\ state = "RESPONSE_READY" /\ ~is_response_control_sent
  /\ LET start == IF response_idx = 0 THEN 128 ELSE 0
         last  == IF (response_idx + 1) % 256 > response_len THEN 64 ELSE 0
     IN  tx' = <<start + last + segment_seq>>
  /\ is_response_control_sent' = TRUE
  /\ UNCHANGED <<state, segment_seq, response_idx>> /\ Gotten

ResponseControl ==
  /\ turn = "get" /\ state = "RESPONSE_READY" /\ ~is_response_control_sent
  /\ LET start == IF response_idx = 0 THEN 128 ELSE 0
         last  == IF (response_idx + 1) % 256 >= response_len THEN 64 ELSE 0
     IN  tx' = <<start + last + segment_seq>>
  /\ is_response_control_sent' = TRUE
  /\ UNCHANGED <<state, segment_seq, response_idx>> /\ Gotten

(* Mutant: the end is compared with > instead of >=. *)
ResponseDataOneMore ==
  /\ turn = "get" /\ state = "RESPONSE_READY" /\ is_response_control_sent
  /\ response_idx < response_len
  /\ tx' = <<response_buf[response_idx + 1]>>
  /\ response_idx' = response_idx + 1
  /\ IF response_idx + 1 > response_len
     THEN state' = "IDLE" /\ UNCHANGED <<segment_seq, is_response_control_sent>>
     ELSE state' = state /\ segment_seq' = NextSeq /\ is_response_control_sent' = FALSE
  /\ Gotten

ResponseData ==
  /\ turn = "get" /\ state = "RESPONSE_READY" /\ is_response_control_sent
  /\ response_idx < response_len
  /\ tx' = <<response_buf[response_idx + 1]>>
  /\ response_idx' = response_idx + 1
  /\ IF response_idx + 1 >= response_len
     THEN state' = "IDLE" /\ UNCHANGED <<segment_seq, is_response_control_sent>>
     ELSE state' = state /\ segment_seq' = NextSeq /\ is_response_control_sent' = FALSE
  /\ Gotten

(* Mutant: an empty response never ends. *)
ResponseEmptyStays ==
  /\ turn = "get" /\ state = "RESPONSE_READY" /\ is_response_control_sent
  /\ response_idx >= response_len
  /\ tx' = << >>
  /\ state' = state
  /\ UNCHANGED <<segment_seq, response_idx, is_response_control_sent>> /\ Gotten

(* An empty response ends at the call after its control byte.              *)
ResponseEmpty ==
  /\ turn = "get" /\ state = "RESPONSE_READY" /\ is_response_control_sent
  /\ response_idx >= response_len
  /\ tx' = << >>
  /\ state' = "IDLE"
  /\ UNCHANGED <<segment_seq, response_idx, is_response_control_sent>> /\ Gotten

get_response_byte == NoResponse \/ ResponseControl \/ ResponseData \/ ResponseEmpty

-----------------------------------------------------------------------------
(* iolink_isdu_process: the services *)

CanProcess == turn = "collect" /\ state = "SERVICE_EXECUTE"

(* The handler has set RESPONSE_READY: what iolink_isdu_process adds.      *)
Ready ==
  /\ state' = "RESPONSE_READY" /\ segment_seq' = 0 /\ is_response_control_sent' = FALSE
  /\ tx' = << >> /\ UNCHANGED <<request, turn>>

(* response_buf is shown as far as this response wrote it; response_len is *)
(* the length as a byte.                                                   *)
Respond(bytes) ==
  /\ response_buf' = bytes /\ response_len' = Len(bytes) % 256 /\ response_idx' = 0
  /\ Ready

RespondError(code) == ErrorResponse(code) /\ Ready

(* The handler has left the state alone: iolink_isdu_process falls back to *)
(* IDLE, without an answer.                                                *)
Silent ==
  /\ state' = "IDLE" /\ tx' = << >>
  /\ UNCHANGED <<segment_seq, request, is_response_control_sent, turn>>

Uint16(n) == <<n \div 256, n % 256>>
Read == header.type = "READ"

(* A text up to its terminating zero.                                      *)
CString(s) ==
  IF \E i \in 1..Len(s) : s[i] = 0
  THEN SubSeq(s, 1, Min({i \in 1..Len(s) : s[i] = 0}) - 1)
  ELSE s

Prefix(s, n) == SubSeq(s, 1, Min({n, Len(s)}))

(* iolink_device_info_set_application_tag: a tag of n bytes is refused     *)
(* when it is too long or the device info is the user's.                   *)
AppTagRefused(n) == n >= 33 \/ ~DefaultInfo

(* iolink_params_factory_reset: what it leaves of the tags.                *)
FactoryTags == [i \in Tags |-> IF i = APPLICATION_TAG /\ AppTagRefused(0)
                               THEN tags[i] ELSE << >>]

(* System commands: 0x80/0x81 set flags, 0x82/0x83 are factory resets, the *)
(* others do nothing while ds_ctx is NULL.                                 *)
SystemCommands == {5, 6, 7, 8} \cup 128..132 \cup 149..151

SystemCommand ==
  /\ CanProcess /\ header.index = SYSTEM_COMMAND /\ ~Read
  /\ LET cmd == buffer[1]
     IN  /\ reset_pending' = (reset_pending \/ cmd = 128)
         /\ app_reset_pending' = (app_reset_pending \/ cmd = 129)
         /\ tags' = IF cmd \in {130, 131} THEN FactoryTags ELSE tags
         /\ IF cmd \in SystemCommands THEN Respond(<< >>)
            ELSE RespondError(ERROR_SERVICE_NOT_AVAIL)
  /\ UNCHANGED <<access_locks, events>>

(* Mutant: the newest event is taken. *)
PopEventNewest ==
  /\ CanProcess /\ header.index = SYSTEM_COMMAND /\ Read
  /\ IF events = << >>
     THEN events' = events /\ Respond(<<0, 0>>)
     ELSE /\ events' = Prefix(events, Len(events) - 1)
          /\ Respond(Uint16(events[Len(events)].code))
  /\ UNCHANGED <<flags, params>>

(* Reading the system command index takes the oldest event off the queue.  *)
PopEvent ==
  /\ CanProcess /\ header.index = SYSTEM_COMMAND /\ Read
  /\ IF events = << >>
     THEN events' = events /\ Respond(<<0, 0>>)
     ELSE events' = Tail(events) /\ Respond(Uint16(Head(events).code))
  /\ UNCHANGED <<flags, params>>

AccessLocks ==
  /\ CanProcess /\ header.index = ACCESS_LOCKS
  /\ access_locks' = IF ~Read /\ Len(buffer) >= 2 /\ DefaultInfo
                     THEN Prefix(buffer, 2) ELSE access_locks
  /\ Respond(IF Read THEN access_locks ELSE << >>)
  /\ UNCHANGED <<flags, tags, events>>

(* Three bytes per event, at most eight events.                            *)
Qualifier(e) == 128 + 8 * Severity(e) + 2

Listing(evs) ==
  [i \in 1..(3 * Len(evs)) |->
     LET e == evs[(i + 2) \div 3]
     IN  CASE i % 3 = 1 -> Qualifier(e)
           [] i % 3 = 2 -> e.code \div 256
           [] i % 3 = 0 -> e.code % 256]

DetailedStatus ==
  /\ CanProcess /\ header.index = DETAILED_STATUS /\ Read
  /\ Respond(Listing(Prefix(events, 8)))
  /\ UNCHANGED <<flags, params, events>>

(* The write is refused, but nobody is told.                               *)
DetailedStatusWrite ==
  /\ CanProcess /\ header.index = DETAILED_STATUS /\ ~Read
  /\ response_buf' = <<128, ERROR_WRITE_PROTECTED>> /\ response_len' = 2
  /\ Silent
  /\ UNCHANGED <<response_idx, flags, params, events>>

ErrorStats ==
  /\ CanProcess /\ header.index = ERROR_STATS
  /\ CASE ~Read -> RespondError(ERROR_WRITE_PROTECTED)
       [] Read /\ header.subindex # 0 -> RespondError(ERROR_SUBINDEX_NOT_AVAIL)
       [] OTHER -> Respond(Stats)
  /\ UNCHANGED <<flags, params, events>>

ReadTag ==
  /\ CanProcess /\ header.index \in Tags /\ Read
  /\ Respond(tags[header.index])
  /\ UNCHANGED <<flags, params, events>>

(* iolink_params_set: the application tag may be refused, and then nobody  *)
(* is told; the other tags are cut at 32 bytes.                            *)
WriteTag ==
  /\ CanProcess /\ header.index \in Tags /\ ~Read
  /\ IF header.index = APPLICATION_TAG /\ AppTagRefused(Len(buffer))
     THEN UNCHANGED <<tags, response>> /\ Silent
     ELSE /\ tags' = [tags EXCEPT ![header.index] = CString(Prefix(buffer, 32))]
          /\ Respond(<< >>)
  /\ UNCHANGED <<flags, access_locks, events>>

DeviceStatus ==
  /\ CanProcess /\ header.index = DEVICE_STATUS
  /\ Respond(<<Max({0} \cup {Severity(events[i]) : i \in 1..Len(events)})>>)
  /\ UNCHANGED <<flags, params, events>>

PdinDescriptor ==
  /\ CanProcess /\ header.index = PDIN_DESCRIPTOR
  /\ IF Read THEN Respond(<<2>>) ELSE RespondError(ERROR_WRITE_PROTECTED)
  /\ UNCHANGED <<flags, params, events>>

(* The identification indices, which answer a write as if it were a read.  *)
(* A text is cut at the size of the response buffer.                       *)
Identification ==
  /\ CanProcess /\ header.index \in DOMAIN Info
  /\ Respond(IF header.index \in Strings
             THEN Prefix(CString(Info[header.index]), BufferSize) ELSE Info[header.index])
  /\ UNCHANGED <<flags, params, events>>

Known == {SYSTEM_COMMAND, ACCESS_LOCKS, DEVICE_STATUS, DETAILED_STATUS, PDIN_DESCRIPTOR,
          ERROR_STATS} \cup Tags \cup DOMAIN Info

UnknownIndex ==
  /\ CanProcess /\ header.index \notin Known
  /\ RespondError(ERROR_SERVICE_NOT_AVAIL)
  /\ UNCHANGED <<flags, params, events>>

process ==
  \/ SystemCommand \/ PopEvent \/ AccessLocks
  \/ DetailedStatus \/ DetailedStatusWrite \/ ErrorStats
  \/ ReadTag \/ WriteTag \/ DeviceStatus \/ PdinDescriptor
  \/ Identification \/ UnknownIndex

-----------------------------------------------------------------------------
(* Mutant: the oldest event is kept. *)
TriggerEventNoDrop(e) ==
  /\ events' = Append(events, e)
  /\ UNCHANGED <<state, segment_seq, request, response, is_response_control_sent, flags,
                 params, turn, tx>>

(* iolink_event_trigger, from the DLL or the application.                  *)
TriggerEvent(e) ==
  /\ events' = Append(IF Len(events) < QueueSize THEN events ELSE Tail(events), e)
  /\ UNCHANGED <<state, segment_seq, request, response, is_response_control_sent, flags,
                 params, turn, tx>>

Next ==
  \/ \E b \in Bytes[state] : collect_byte(b)
  \/ get_response_byte
  \/ process
  \/ \E e \in Event : TriggerEvent(e)

Spec == Init /\ [][Next]_vars

-----------------------------------------------------------------------------
(* Properties *)

TypeOK ==
  /\ state \in States /\ next_state \in States
  /\ segment_seq \in 0..63
  /\ header \in [type : {"READ", "WRITE"}, length : Byte, index : Word, subindex : Byte]
  /\ buffer \in Seq(Byte)
  /\ response_buf \in Seq(Byte) /\ response_len \in Nat /\ response_idx \in Nat
  /\ is_response_control_sent \in BOOLEAN
  /\ reset_pending \in BOOLEAN /\ app_reset_pending \in BOOLEAN
  /\ tags \in [Tags -> Seq(Byte)]
  /\ access_locks \in Seq(Byte)
  /\ events \in Seq(Event) /\ Len(events) <= QueueSize
  /\ turn \in {"collect", "get"}
  /\ tx \in Seq(Byte)

(* The data bytes that a write of this length is executed with.            *)
Payload(len) == IF len = 0 THEN 1 ELSE len

Collecting == {state} \cup (IF state = "SEGMENT_COLLECT" THEN {next_state} ELSE {})

(* buffer[256] is never written past its end, although only header.length, *)
(* a byte the master chose, stops DATA_COLLECT; and a service is only      *)
(* executed on a write whose data bytes are all there (a write of length 0 *)
(* carries one).                                                           *)
BufferFits ==
  /\ Len(buffer) <= BufferSize
  /\ "DATA_COLLECT" \in Collecting =>
       header.type = "WRITE" /\ Len(buffer) < Payload(header.length)
  /\ state = "SERVICE_EXECUTE" /\ header.type = "WRITE" =>
       Len(buffer) = Payload(header.length)

(* What get_response_byte reads was written for this response and lies in  *)
(* response_buf[256].                                                      *)
ResponseFits ==
  state = "RESPONSE_READY" =>
    /\ response_len <= Len(response_buf) /\ response_len <= BufferSize
    /\ response_idx <= response_len
    /\ response_idx = response_len => response_len = 0

=============================================================================
