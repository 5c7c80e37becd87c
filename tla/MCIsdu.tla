------------------------------- MODULE MCIsdu -------------------------------
(***************************************************************************)
(* The ISDU engine with two observers of the line: log is the list of      *)
(* bytes that the master sent since the engine began to collect a request, *)
(* rx is what a master that follows the START, LAST and sequence bits      *)
(* makes of the answer.                                                    *)
(***************************************************************************)
EXTENDS Isdu, TLC

VARIABLES log, rx

(* on: a START was seen; want_data: a control byte was seen and its data   *)
(* byte not yet; ok: the sequence numbers were consecutive; last: the      *)
(* LAST bit was seen; complete: and so was the data byte after it.         *)
NoRx == [on |-> FALSE, want_data |-> FALSE, seq |-> 0, ok |-> TRUE, last |-> FALSE,
         complete |-> FALSE, data |-> << >>]

Last(b) == (b \div 64) % 2 = 1

RxControl(b) ==
  [on |-> TRUE, want_data |-> TRUE, seq |-> SeqOf(b), last |-> Last(b), complete |-> FALSE,
   ok |-> IF Start(b) THEN TRUE ELSE rx.on /\ rx.ok /\ SeqOf(b) = (rx.seq + 1) % 64,
   data |-> IF Start(b) THEN << >> ELSE rx.data]

RxData(b) == [rx EXCEPT !.want_data = FALSE, !.complete = rx.last, !.data = Append(@, b)]

MCInit == Init /\ log = << >> /\ rx = NoRx

MCCollect ==
  \E b \in Bytes[state] :
    /\ collect_byte(b)
    /\ log' = CASE state' \in {"IDLE", "RESPONSE_READY"} -> << >>
                [] state = "SERVICE_EXECUTE" -> log
                [] OTHER -> Append(log, b)
    /\ rx' = IF state' = state THEN rx ELSE NoRx

MCGet ==
  /\ get_response_byte
  /\ rx' = IF tx' = << >> THEN rx
           ELSE IF rx.want_data THEN RxData(tx'[1]) ELSE RxControl(tx'[1])
  /\ UNCHANGED log

MCProcess == process /\ log' = << >> /\ UNCHANGED rx

MCTrigger == (\E e \in Event : TriggerEvent(e)) /\ UNCHANGED <<log, rx>>

MCNext == MCCollect \/ MCGet \/ MCProcess \/ MCTrigger

MCSpec == MCInit /\ [][MCNext]_<<vars, log, rx>>

-----------------------------------------------------------------------------
(* A request as the master sent it: a START control byte, consecutive      *)
(* control bytes after it, and the data bytes in between.                  *)
Data == [i \in 1..(Len(log) \div 2) |-> log[2 * i]]

WellFormed ==
  /\ Len(log) % 2 = 0 /\ Len(log) > 0
  /\ Start(log[1])
  /\ \A i \in 2..(Len(log) \div 2) :
       ~Start(log[2 * i - 1]) /\ SeqOf(log[2 * i - 1]) = (SeqOf(log[1]) + i - 1) % 64

(* What iolink_isdu_process executes is a request the master sent as a     *)
(* whole: collect_byte lost no byte, took none twice, mixed none from an   *)
(* earlier request in, and put service, length, index, subindex and        *)
(* payload where they belong.                                              *)
RequestIsWhole ==
  state = "SERVICE_EXECUTE" =>
    /\ WellFormed
    /\ LET h   == IF Data[1] = 159 THEN 2 ELSE 1
           len == IF h = 2 THEN Data[2] ELSE Data[1] % 16
       IN  /\ header.index = 256 * Data[h + 1] + Data[h + 2]
           /\ header.subindex = Data[h + 3]
           /\ IF Data[1] \div 16 = 8
              THEN header.type = "READ" /\ Len(Data) = 4
              ELSE /\ header.type = "WRITE" /\ Data[1] \div 16 = 9
                   /\ buffer = SubSeq(Data, h + 4, Len(Data))
                   /\ Len(buffer) = Payload(len)

(* A master that follows the control bytes of get_response_byte receives   *)
(* every response whole: it sees consecutive numbers, the data bytes of    *)
(* the one response in order, the LAST bit on the last of them, and then   *)
(* the engine is done; the engine is not done before.                      *)
ResponseIsWhole ==
  /\ rx.complete => /\ rx.ok
                    /\ rx.data = SubSeq(response_buf, 1, response_len)
                    /\ state # "RESPONSE_READY"
  /\ rx.on /\ ~rx.complete => state = "RESPONSE_READY" \/ response_len = 0

-----------------------------------------------------------------------------
(* Values for TLC *)

(* The bytes the master sends: idle, START with number 0 and with a number *)
(* about to wrap, right and wrong numbers, the services with short, empty  *)
(* and extended lengths, one index of every kind.                          *)
MCBytes ==
  [s \in States |->
     CASE s \in {"IDLE", "RESPONSE_READY"} -> {0, 128, 190}
       [] s = "SEGMENT_COLLECT" -> 0..8 \cup {63, 69, 128}
       [] s = "HEADER_INITIAL" -> {0, 128, 144, 146, 159}
       [] s = "HEADER_EXT_LEN" -> {0, 2}
       [] s = "HEADER_INDEX_HIGH" -> {0, 1}
       [] s = "HEADER_INDEX_LOW" -> {2, 16, 24, 28, 37}
       [] s = "HEADER_SUBINDEX" -> {0}
       [] s = "DATA_COLLECT" -> {0, 128}
       [] s = "SERVICE_EXECUTE" -> {128}]

MCInfo == (10 :> <<255, 255>>) @@ (16 :> <<105, 111, 108>>)
MCAppTag == <<68, 84>>
MCStats == [i \in 1..16 |-> 0]
=============================================================================
