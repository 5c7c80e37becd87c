----------------------------- MODULE IsduProofs -----------------------------
(***************************************************************************)
(* The request buffer of the ISDU engine, for every byte the master may    *)
(* send.  That buffer[256] is not overrun rests on header.length, which is *)
(* a byte; on the buffer being emptied between two requests; and on where  *)
(* a segment may lead: DATA_COLLECT is entered from the header of a write, *)
(* or again while bytes are missing.                                       *)
(***************************************************************************)
EXTENDS Isdu, SequenceTheorems, WellFoundedInduction, TLAPS

HeaderStates == {"HEADER_EXT_LEN", "HEADER_INDEX_HIGH", "HEADER_INDEX_LOW", "HEADER_SUBINDEX"}

Headers == [type : {"READ", "WRITE"}, length : Byte, index : Int, subindex : Byte]

CollectOK ==
  /\ state \in States /\ next_state \in States
  /\ header \in Headers
  /\ buffer \in Seq(Byte)
  /\ state = "SEGMENT_COLLECT" => next_state \in HeaderStates \cup {"DATA_COLLECT"}

(* While the header is being read, the buffer is empty.                    *)
EmptyInHeader ==
  Collecting \cap (HeaderStates \cup {"HEADER_INITIAL"}) # {} => buffer = << >>

BufferInv == CollectOK /\ EmptyInHeader /\ BufferFits

LEMMA BufferSizeIs == BufferSize = 256
BY IsduConstants

LEMMA BytesAreBytes == \A s \in States : Bytes[s] \subseteq Byte
BY BytesConstant

LEMMA InitBuffer == Init => BufferInv
<1> SUFFICES ASSUME Init PROVE BufferInv
  OBVIOUS
<1>1. CollectOK
  BY DEF Init, CollectOK, States, Headers, Byte, HeaderStates
<1>2. EmptyInHeader /\ BufferFits
  BY BufferSizeIs DEF Init, EmptyInHeader, BufferFits, Collecting
<1> QED BY <1>1, <1>2 DEF BufferInv

(* Steps that neither collect nor execute a byte of the request.           *)
LEMMA KeepRequest ==
  ASSUME BufferInv, UNCHANGED <<next_state, header, buffer>>,
         state' = state \/ state' \in {"IDLE", "RESPONSE_READY"}
  PROVE  BufferInv'
<1>1. CollectOK'
  BY DEF BufferInv, CollectOK, States
<1>2. Collecting' \subseteq Collecting \cup {"IDLE", "RESPONSE_READY"}
  BY DEF Collecting
<1>3. EmptyInHeader'
  BY <1>2 DEF BufferInv, EmptyInHeader, HeaderStates
<1>4. BufferFits'
  BY <1>2 DEF BufferInv, BufferFits
<1> QED BY <1>1, <1>3, <1>4 DEF BufferInv

LEMMA StartStep ==
  ASSUME BufferInv, NEW b \in Byte, StartRequest(b) PROVE BufferInv'
<1>1. state' = "HEADER_INITIAL" /\ buffer' = << >> /\ UNCHANGED <<next_state, header>>
  BY DEF StartRequest
<1>2. CollectOK'
  BY <1>1 DEF BufferInv, CollectOK, States
<1>3. EmptyInHeader' /\ BufferFits'
  BY <1>1, BufferSizeIs DEF EmptyInHeader, BufferFits, Collecting
<1> QED BY <1>2, <1>3 DEF BufferInv

LEMMA SegmentStep ==
  ASSUME BufferInv, NEW b \in Byte, NextSegment(b) PROVE BufferInv'
<1>1. /\ state = "SEGMENT_COLLECT" /\ state' = next_state
      /\ UNCHANGED <<next_state, header, buffer>>
  BY DEF NextSegment, request
<1>2. next_state \in HeaderStates \cup {"DATA_COLLECT"}
  BY <1>1 DEF BufferInv, CollectOK
<1>3. state' # "SEGMENT_COLLECT" /\ state' # "SERVICE_EXECUTE"
  BY <1>1, <1>2 DEF HeaderStates
<1>4. CollectOK'
  BY <1>1, <1>2, <1>3 DEF BufferInv, CollectOK
<1>5. Collecting' \subseteq Collecting
  BY <1>1, <1>3 DEF Collecting
<1>6. EmptyInHeader' /\ BufferFits'
  BY <1>1, <1>3, <1>5 DEF BufferInv, EmptyInHeader, BufferFits
<1> QED BY <1>4, <1>6 DEF BufferInv

LEMMA HeaderInitialStep ==
  ASSUME BufferInv, NEW b \in Byte, HeaderInitial(b) PROVE BufferInv'
<1>1. /\ state' = "SEGMENT_COLLECT" /\ buffer' = << >>
      /\ next_state' \in {"HEADER_EXT_LEN", "HEADER_INDEX_HIGH"}
  BY DEF HeaderInitial
<1>2. header' \in Headers
  <2>1. header \in Headers /\ b % 16 \in Byte /\ 0 \in Byte
    BY DEF BufferInv, CollectOK, Byte
  <2>2. PICK ty \in {"READ", "WRITE"}, n \in Byte : header' = [header EXCEPT !.type = ty, !.length = n]
    BY <2>1 DEF HeaderInitial, Headers
  <2> QED BY <2>1, <2>2 DEF Headers
<1>3. CollectOK'
  BY <1>1, <1>2 DEF CollectOK, States, HeaderStates
<1>4. Collecting' \subseteq {"SEGMENT_COLLECT", "HEADER_EXT_LEN", "HEADER_INDEX_HIGH"}
  BY <1>1 DEF Collecting
<1>5. EmptyInHeader' /\ BufferFits'
  BY <1>1, <1>4, BufferSizeIs DEF EmptyInHeader, BufferFits
<1> QED BY <1>3, <1>5 DEF BufferInv

LEMMA HeaderByteStep ==
  ASSUME BufferInv, NEW b \in Byte, HeaderByte(b) PROVE BufferInv'
<1>1. state \in HeaderStates /\ buffer' = buffer
  BY DEF HeaderByte, HeaderStates
<1>2. buffer = << >> /\ header \in Headers
  BY <1>1 DEF BufferInv, EmptyInHeader, CollectOK, Collecting
<1>3. header' \in Headers
  <2>1. b \in Int /\ header.index \in Int
    BY <1>2 DEF Byte, Headers
  <2>2. \/ header' = [header EXCEPT !.length = b]
        \/ header' = [header EXCEPT !.subindex = b]
        \/ \E i \in Int : header' = [header EXCEPT !.index = i]
    BY <2>1 DEF HeaderByte
  <2> QED BY <1>2, <2>2 DEF Headers
<1>4. CASE state' = "SEGMENT_COLLECT"
  <2>1. /\ next_state' \in HeaderStates \cup {"DATA_COLLECT"}
        /\ next_state' = "DATA_COLLECT" => header'.type = "WRITE"
    BY <1>2, <1>4 DEF HeaderByte, HeaderStates, Headers
  <2>2. CollectOK'
    BY <1>1, <1>3, <1>4, <2>1 DEF BufferInv, CollectOK, States, HeaderStates
  <2>3. EmptyInHeader'
    BY <1>1, <1>2 DEF EmptyInHeader
  <2>4. header'.length \in Nat
    BY <1>3 DEF Headers, Byte
  <2>5. "DATA_COLLECT" \in Collecting' => header'.type = "WRITE"
    BY <1>4, <2>1 DEF Collecting
  <2>6. Len(buffer') = 0 /\ Payload(header'.length) > 0
    BY <1>1, <1>2, <2>4 DEF Payload
  <2>7. BufferFits'
    BY <1>4, <2>5, <2>6, BufferSizeIs DEF BufferFits
  <2> QED BY <2>2, <2>3, <2>7 DEF BufferInv
<1>5. CASE state' # "SEGMENT_COLLECT"
  <2>1. /\ state' = "SERVICE_EXECUTE" /\ header.type = "READ" /\ next_state' = next_state
        /\ header' = [header EXCEPT !.subindex = b]
    BY <1>5 DEF HeaderByte
  <2>2. header'.type = "READ"
    BY <1>2, <2>1 DEF Headers
  <2>3. CollectOK'
    BY <1>1, <1>3, <2>1 DEF BufferInv, CollectOK, States
  <2>4. EmptyInHeader' /\ BufferFits'
    BY <1>1, <1>2, <2>1, <2>2, BufferSizeIs DEF EmptyInHeader, BufferFits, Collecting
  <2> QED BY <2>3, <2>4 DEF BufferInv
<1> QED BY <1>4, <1>5

(* One more data byte, counted against the length.                         *)
LEMMA OneMore ==
  ASSUME NEW k \in Nat, NEW len \in Byte, k < Payload(len)
  PROVE  /\ k + 1 <= 256 /\ k + 1 <= Payload(len)
         /\ k + 1 >= len => k + 1 = Payload(len)
         /\ ~(k + 1 >= len) => k + 1 < Payload(len)
BY DEF Payload, Byte

LEMMA DataByteStep ==
  ASSUME BufferInv, NEW b \in Byte, DataByte(b) PROVE BufferInv'
<1>1. /\ state = "DATA_COLLECT" /\ header' = header /\ buffer' = Append(buffer, b)
      /\ \/ state' = "SERVICE_EXECUTE" /\ next_state' = next_state /\ Len(buffer) + 1 >= header.length
         \/ state' = "SEGMENT_COLLECT" /\ next_state' = "DATA_COLLECT" /\ ~(Len(buffer) + 1 >= header.length)
  BY DEF DataByte
<1>2. header \in Headers /\ buffer \in Seq(Byte) /\ next_state \in States
  BY DEF BufferInv, CollectOK
<1>3. header.type = "WRITE" /\ Len(buffer) < Payload(header.length)
  BY <1>1 DEF BufferInv, BufferFits, Collecting
<1>4. Len(buffer) \in Nat /\ header.length \in Byte /\ buffer' \in Seq(Byte)
      /\ Len(buffer') = Len(buffer) + 1
  BY <1>1, <1>2 DEF Headers
<1>5. CollectOK'
  BY <1>1, <1>2, <1>4 DEF CollectOK, States
<1>6. EmptyInHeader'
  BY <1>1 DEF EmptyInHeader, Collecting, HeaderStates
<1>7. BufferFits'
  <2>1. /\ Len(buffer') <= 256
        /\ Len(buffer) + 1 >= header.length => Len(buffer') = Payload(header.length)
        /\ ~(Len(buffer) + 1 >= header.length) => Len(buffer') < Payload(header.length)
    BY <1>3, <1>4, OneMore
  <2>2. state' = "SERVICE_EXECUTE" => Len(buffer') = Payload(header.length)
    BY <1>1, <2>1
  <2>3. state' = "SEGMENT_COLLECT" => Len(buffer') < Payload(header.length)
    BY <1>1, <2>1
  <2>4. "DATA_COLLECT" \in Collecting' => state' = "SEGMENT_COLLECT"
    BY <1>1 DEF Collecting
  <2> QED BY <1>1, <1>3, <2>1, <2>2, <2>3, <2>4, BufferSizeIs DEF BufferFits
<1> QED BY <1>5, <1>6, <1>7 DEF BufferInv

LEMMA CollectStep ==
  ASSUME BufferInv, NEW b \in Byte, collect_byte(b) PROVE BufferInv'
<1>1. CASE IgnoreByte(b) \/ Collision(b) \/ SequenceError(b) \/ BadService(b)
  BY <1>1, KeepRequest DEF IgnoreByte, Collision, SequenceError, BadService, request
<1> QED BY <1>1, StartStep, SegmentStep, HeaderInitialStep, HeaderByteStep, DataByteStep
        DEF collect_byte

LEMMA ProcessStep ==
  ASSUME BufferInv, process PROVE BufferInv'
<1>1. /\ UNCHANGED <<next_state, header, buffer>>
      /\ state' \in {"IDLE", "RESPONSE_READY"}
  BY DEF process, SystemCommand, PopEvent, AccessLocks, DetailedStatus, DetailedStatusWrite,
     ErrorStats, ReadTag, WriteTag, DeviceStatus, PdinDescriptor, Identification,
     UnknownIndex, Respond, RespondError, Ready, Silent, request
<1> QED BY <1>1, KeepRequest

LEMMA NextBuffer == BufferInv /\ [Next]_vars => BufferInv'
<1> SUFFICES ASSUME BufferInv, [Next]_vars PROVE BufferInv'
  OBVIOUS
<1>1. CASE \E b \in Bytes[state] : collect_byte(b)
  <2>1. Bytes[state] \subseteq Byte
    BY BytesAreBytes DEF BufferInv, CollectOK
  <2> QED BY <1>1, <2>1, CollectStep
<1>2. CASE get_response_byte
  BY <1>2, KeepRequest DEF get_response_byte, NoResponse, ResponseControl, ResponseData,
     ResponseEmpty, Gotten, request
<1>3. CASE process
  BY <1>3, ProcessStep
<1>4. CASE \E e \in Event : TriggerEvent(e)
  BY <1>4, KeepRequest DEF TriggerEvent, request
<1>5. CASE UNCHANGED vars
  BY <1>5, KeepRequest DEF vars, request
<1> QED BY <1>1, <1>2, <1>3, <1>4, <1>5 DEF Next

(* No sequence of bytes makes collect_byte write past buffer[256], and no  *)
(* write is executed before all its data bytes are there, or with more.    *)
THEOREM IsduBufferFits == Spec => []BufferFits
<1>1. BufferInv => BufferFits
  BY DEF BufferInv
<1> QED BY <1>1, InitBuffer, NextBuffer, PTL DEF Spec

-----------------------------------------------------------------------------
(* The types of everything the engine keeps, and the response buffer.      *)
(* The index is put together from two bytes, so that it fits 16 bits rests *)
(* on its low byte being added to a multiple of 256 only.                  *)

IndexOK ==
  /\ header.index \in Word
  /\ "HEADER_INDEX_LOW" \in Collecting => header.index <= 65280

ControlOK ==
  /\ segment_seq \in 0..63
  /\ is_response_control_sent \in BOOLEAN
  /\ turn \in {"collect", "get"}

ResponseOK ==
  /\ response_buf \in Seq(Byte) /\ response_len \in Nat /\ response_idx \in Nat
  /\ tx \in Seq(Byte)
  /\ ResponseFits

StoreOK ==
  /\ reset_pending \in BOOLEAN /\ app_reset_pending \in BOOLEAN
  /\ tags \in [Tags -> Seq(Byte)]
  /\ access_locks \in Seq(Byte)
  /\ events \in Seq(Event) /\ Len(events) <= QueueSize

IsduInv == BufferInv /\ IndexOK /\ ControlOK /\ ResponseOK /\ StoreOK

-----------------------------------------------------------------------------
(* The operators that build an answer.                                     *)

(* Membership in a large interval, as bounds: the SMT backend cannot use   *)
(* a literal interval of that size.                                        *)
LEMMA IntervalBounds ==
  \A m \in Nat : \A n : n \in 0..m <=> n \in Int /\ 0 <= n /\ n <= m
OBVIOUS

LEMMA InWord == \A n : n \in Word <=> n \in Int /\ 0 <= n /\ n <= 65535
<1>1. PICK m \in Nat : m = 65535
  OBVIOUS
<1>2. Word = 0..m
  BY <1>1, SMT DEF Word
<1>3. m <= 65535 /\ 65535 <= m
  BY <1>1
<1> QED BY <1>2, <1>3, IntervalBounds

LEMMA InByte == \A n : n \in Byte <=> n \in Int /\ 0 <= n /\ n <= 255
<1> PICK m \in Nat : m = 255
  OBVIOUS
<1>1. Byte = 0..m
  BY Zenon DEF Byte
<1> QED BY <1>1, IntervalBounds

LEMMA SmallestExists ==
  ASSUME NEW S, S \subseteq Nat, S # {}
  PROVE  \E x \in S : \A y \in S : x =< y
<1> DEFINE R == OpToRel(<, Nat)
<1>1. IsWellFoundedOn(R, Nat)
  BY NatLessThanWellFounded
<1>2. \A x, y \in Nat : x < y => <<x, y>> \in R
  BY DEF OpToRel
<1> HIDE DEF R
<1>3. PICK x \in S : \A y \in S : ~(<<y, x>> \in R)
  BY <1>1, WFMin
<1>4. \A y \in S : x =< y
  <2> SUFFICES ASSUME NEW y \in S PROVE x =< y
    OBVIOUS
  <2>1. x \in Nat /\ y \in Nat
    OBVIOUS
  <2>2. ~(y < x)
    BY <1>2, <1>3, <2>1
  <2> QED BY <2>1, <2>2
<1> QED BY <1>4

LEMMA MinBelongs ==
  ASSUME NEW S, S \subseteq Nat, S # {}
  PROVE  Min(S) \in S
BY SmallestExists DEF Min

LEMMA SliceIsSeq ==
  ASSUME NEW S, NEW s \in Seq(S), NEW n \in 0..Len(s)
  PROVE  SubSeq(s, 1, n) \in Seq(S) /\ Len(SubSeq(s, 1, n)) = n
<1>1. \A i \in 1..n : s[i] \in S
  BY ElementOfSeq
<1> QED BY <1>1, SubSeqProperties

LEMMA CStringIsSeq ==
  ASSUME NEW s \in Seq(Byte) PROVE CString(s) \in Seq(Byte)
<1> DEFINE Z == {i \in 1..Len(s) : s[i] = 0}
<1>1. CASE Z # {}
  <2>1. Min(Z) \in 1..Len(s)
    <3>1. Z \subseteq Nat
      OBVIOUS
    <3> HIDE DEF Z
    <3>2. Min(Z) \in Z
      BY <1>1, <3>1, MinBelongs
    <3> QED BY <3>2 DEF Z
  <2>2. Min(Z) - 1 \in 0..Len(s)
    BY <2>1
  <2>3. CString(s) = SubSeq(s, 1, Min(Z) - 1)
    BY <1>1 DEF CString
  <2> HIDE DEF Z
  <2> QED BY <2>2, <2>3, SliceIsSeq
<1>2. CASE Z = {}
  BY <1>2 DEF CString
<1> QED BY <1>1, <1>2

LEMMA PrefixIsSeq ==
  ASSUME NEW S, NEW s \in Seq(S), NEW n \in Nat
  PROVE  Prefix(s, n) \in Seq(S)
<1>1. Len(s) \in Nat
  OBVIOUS
<1>2. Min({n, Len(s)}) \in 0..Len(s)
  BY <1>1 DEF Min
<1> QED BY <1>2, SliceIsSeq DEF Prefix

LEMMA SplitWord ==
  ASSUME NEW n \in Word PROVE n \div 256 \in Byte /\ n % 256 \in Byte
<1>1. n \in Nat /\ n <= 65535
  BY InWord
<1>2. n \div 256 \in Nat /\ n \div 256 <= 255 /\ n % 256 \in Nat /\ n % 256 <= 255
  BY <1>1
<1> QED BY <1>2, InByte

LEMMA CodesAre == EventCodes \subseteq Word
BY IsduConstants

LEMMA SeverityIs ==
  ASSUME NEW e \in Event
  PROVE  /\ Severity(e) \in 1..3
         /\ Qualifier(e) \in Byte /\ e.code \div 256 \in Byte /\ e.code % 256 \in Byte
<1>1. e.type \in {"NOTIFICATION", "WARNING", "ERROR"} /\ e.code \in EventCodes
  BY DEF Event, EventTypes
<1>2. e.code \in Word
  BY <1>1, CodesAre
<1>3. Severity(e) \in 1..3
  BY <1>1 DEF Severity
<1>4. Qualifier(e) \in Byte
  BY <1>3, InByte DEF Qualifier
<1>5. e.code \div 256 \in Byte /\ e.code % 256 \in Byte
  BY <1>2, SplitWord
<1> QED BY <1>3, <1>4, <1>5

LEMMA Uint16IsSeq ==
  ASSUME NEW n \in Word PROVE Uint16(n) \in Seq(Byte)
<1>1. n \div 256 \in Byte /\ n % 256 \in Byte
  BY SplitWord
<1> QED BY <1>1 DEF Uint16

LEMMA ListingIsSeq ==
  ASSUME NEW evs \in Seq(Event) PROVE Listing(evs) \in Seq(Byte)
<1> DEFINE n == 3 * Len(evs)
<1>1. n \in Nat
  OBVIOUS
<1>2. \A i \in 1..n : Listing(evs)[i] \in Byte
  <2> SUFFICES ASSUME NEW i \in 1..n PROVE Listing(evs)[i] \in Byte
    OBVIOUS
  <2> DEFINE k == (i + 2) \div 3
             e == evs[k]
  <2>1. k \in 1..Len(evs)
    BY <1>1
  <2>2. e \in Event
    BY <2>1, ElementOfSeq
  <2>3. i % 3 \in {0, 1, 2}
    BY <1>1
  <2>4. Listing(evs)[i] = CASE i % 3 = 1 -> Qualifier(e)
                            [] i % 3 = 2 -> e.code \div 256
                            [] i % 3 = 0 -> e.code % 256
    BY DEF Listing
  <2> HIDE DEF e
  <2> QED BY <2>2, <2>3, <2>4, SeverityIs
<1>3. DOMAIN Listing(evs) = 1..n /\ Listing(evs) = [i \in 1..n |-> Listing(evs)[i]]
  BY DEF Listing
<1>4. Listing(evs) \in [1..n -> Byte]
  BY <1>2, <1>3
<1> QED BY <1>1, <1>4

LEMMA StatusIsByte ==
  ASSUME NEW evs \in Seq(Event)
  PROVE  Max({0} \cup {Severity(evs[i]) : i \in 1..Len(evs)}) \in Byte
<1> DEFINE S == {0} \cup {Severity(evs[i]) : i \in 1..Len(evs)}
<1>1. S \subseteq 0..3 /\ 0 \in S
  BY SeverityIs, ElementOfSeq
<1> HIDE DEF S
<1>2. \E x \in S : \A y \in S : x >= y
  <2>1. S \subseteq {0, 1, 2, 3}
    BY <1>1
  <2> QED BY <1>1, <2>1
<1>3. Max(S) \in S
  BY <1>2 DEF Max
<1>4. Max(S) \in 0..3
  BY <1>1, <1>3
<1>5. 0..3 \subseteq Byte
  BY InByte
<1> QED BY <1>4, <1>5 DEF S

-----------------------------------------------------------------------------
(* IsduInv is inductive, part by part.                                     *)

LEMMA QueueSizeIs == QueueSize \in Nat /\ QueueSize > 0
BY IsduConstants

LEMMA InitIsdu == Init => IsduInv
<1> SUFFICES ASSUME Init PROVE IsduInv
  OBVIOUS
<1>1. BufferInv
  BY InitBuffer
<1>2. IndexOK
  <2>1. header.index = 0 /\ Collecting = {"IDLE"}
    BY DEF Init, Collecting
  <2> QED BY <2>1, InWord DEF IndexOK
<1>3. ControlOK
  <2>1. segment_seq = 0 /\ turn = "collect"
    BY DEF Init
  <2>2. is_response_control_sent \in BOOLEAN
    BY Zenon DEF Init
  <2> QED BY <2>1, <2>2 DEF ControlOK
<1>4. ResponseOK
  BY DEF Init, ResponseOK, ResponseFits
<1>5. StoreOK
  <2>1. AppTag \in Seq(Byte) /\ << >> \in Seq(Byte) /\ <<0, 0>> \in Seq(Byte)
    BY IsduConstants, InByte
  <2>2. tags \in [Tags -> Seq(Byte)]
    BY <2>1 DEF Init
  <2>3. events \in Seq(Event) /\ Len(events) <= QueueSize
    BY QueueSizeIs DEF Init
  <2> QED BY <2>1, <2>2, <2>3 DEF Init, StoreOK
<1> QED BY <1>1, <1>2, <1>3, <1>4, <1>5 DEF IsduInv

(* The index. *)
LEMMA IndexStays ==
  ASSUME IndexOK, header'.index = header.index,
         "HEADER_INDEX_LOW" \in Collecting' => "HEADER_INDEX_LOW" \in Collecting
  PROVE  IndexOK'
BY DEF IndexOK

LEMMA HeaderByteIndex ==
  ASSUME IsduInv, NEW b \in Byte, HeaderByte(b) PROVE IndexOK'
<1>1. /\ header \in Headers /\ header.index \in Int /\ 0 <= header.index
      /\ header.index <= 65535 /\ b \in Int /\ 0 <= b /\ b <= 255
  BY InWord, InByte DEF IsduInv, IndexOK, BufferInv, CollectOK
<1>2. CASE state = "HEADER_INDEX_HIGH"
  <2>1. header'.index = 256 * b
    BY <1>1, <1>2 DEF HeaderByte, Headers
  <2> QED BY <1>1, <2>1, InWord DEF IndexOK
<1>3. CASE state = "HEADER_INDEX_LOW"
  <2>1. header.index <= 65280
    BY <1>3 DEF IsduInv, IndexOK, Collecting
  <2>2. header'.index = header.index + b /\ state' = "SEGMENT_COLLECT"
        /\ next_state' = "HEADER_SUBINDEX"
    BY <1>1, <1>3 DEF HeaderByte, Headers
  <2>3. "HEADER_INDEX_LOW" \notin Collecting'
    BY <2>2 DEF Collecting
  <2> QED BY <1>1, <2>1, <2>2, <2>3, InWord DEF IndexOK
<1>4. CASE state \notin {"HEADER_INDEX_HIGH", "HEADER_INDEX_LOW"}
  <2>1. header'.index = header.index
    BY <1>1, <1>4 DEF HeaderByte, Headers
  <2>2. \/ state' = "SEGMENT_COLLECT" /\ next_state' # "HEADER_INDEX_LOW"
        \/ state' = "SERVICE_EXECUTE"
    BY <1>4 DEF HeaderByte
  <2>3. "HEADER_INDEX_LOW" \notin Collecting'
    BY <2>2 DEF Collecting
  <2> QED BY <2>1, <2>3, IndexStays DEF IsduInv
<1> QED BY <1>2, <1>3, <1>4

LEMMA CollectIndex ==
  ASSUME IsduInv, NEW b \in Byte, collect_byte(b) PROVE IndexOK'
<1>1. header \in Headers /\ IndexOK
  BY DEF IsduInv, BufferInv, CollectOK
<1>2. CASE IgnoreByte(b)
  BY <1>1, <1>2, IndexStays DEF IgnoreByte, request, Collecting
<1>3. CASE \/ StartRequest(b) \/ Collision(b) \/ SequenceError(b) \/ BadService(b) \/ DataByte(b)
  <2>1. header' = header
    BY <1>3 DEF StartRequest, Collision, SequenceError, BadService, DataByte, request
  <2>2. "HEADER_INDEX_LOW" \notin Collecting'
    BY <1>3 DEF StartRequest, Collision, SequenceError, BadService, DataByte, Collecting
  <2> QED BY <1>1, <2>1, <2>2, IndexStays
<1>4. CASE NextSegment(b)
  <2>1. header' = header /\ next_state' = next_state
        /\ state = "SEGMENT_COLLECT" /\ state' = next_state
    BY <1>4 DEF NextSegment, request
  <2> QED BY <1>1, <2>1, IndexStays DEF Collecting
<1>5. CASE HeaderInitial(b)
  <2>1. header'.index = header.index
    BY <1>1, <1>5 DEF HeaderInitial, Headers
  <2>2. state' = "SEGMENT_COLLECT" /\ next_state' # "HEADER_INDEX_LOW"
    BY <1>5 DEF HeaderInitial
  <2>3. "HEADER_INDEX_LOW" \notin Collecting'
    BY <2>2 DEF Collecting
  <2> QED BY <1>1, <2>1, <2>3, IndexStays
<1> QED BY <1>2, <1>3, <1>4, <1>5, HeaderByteIndex DEF collect_byte

(* The control part: the sequence number stays a number of six bits. *)
LEMMA SeqIsSmall ==
  /\ \A b \in Byte : SeqOf(b) \in 0..63
  /\ segment_seq \in 0..63 => NextSeq \in 0..63
<1>1. \A b \in Int : b % 64 \in 0..63
  OBVIOUS
<1> QED BY <1>1, InByte DEF SeqOf, NextSeq

LEMMA CollectControl ==
  ASSUME ControlOK, NEW b \in Byte, collect_byte(b) PROVE ControlOK'
<1>1. segment_seq' \in {segment_seq, 0, SeqOf(b)}
  BY DEF collect_byte, StartRequest, IgnoreByte, Collision, SequenceError, NextSegment,
     HeaderInitial, BadService, HeaderByte, DataByte
<1>2. is_response_control_sent' \in {is_response_control_sent, FALSE} /\ turn' = "get"
  BY DEF collect_byte, StartRequest, IgnoreByte, Collision, SequenceError, NextSegment,
     HeaderInitial, BadService, HeaderByte, DataByte, Collected
<1>3. segment_seq' \in 0..63
  BY <1>1, SeqIsSmall DEF ControlOK
<1>4. is_response_control_sent' \in BOOLEAN
  BY <1>2, Zenon DEF ControlOK
<1> QED BY <1>2, <1>3, <1>4 DEF ControlOK

LEMMA GetControl ==
  ASSUME ControlOK, get_response_byte PROVE ControlOK'
<1>1. segment_seq' \in {segment_seq, NextSeq}
  BY DEF get_response_byte, NoResponse, ResponseControl, ResponseData, ResponseEmpty
<1>2. is_response_control_sent' \in {is_response_control_sent, FALSE, TRUE} /\ turn' = "collect"
  BY DEF get_response_byte, NoResponse, ResponseControl, ResponseData, ResponseEmpty, Gotten
<1> QED BY <1>1, <1>2, SeqIsSmall DEF ControlOK

(* The response buffer. *)
LEMMA FreshResponse ==
  ASSUME NEW bytes \in Seq(Byte), response_buf' = bytes, response_len' = Len(bytes) % 256,
         response_idx' = 0, tx' = << >>
  PROVE  ResponseOK'
<1>1. Len(bytes) \in Nat
  OBVIOUS
<1>2. /\ Len(bytes) % 256 \in Nat /\ Len(bytes) % 256 <= Len(bytes)
      /\ Len(bytes) % 256 <= 256
  BY <1>1
<1> QED BY <1>2, BufferSizeIs DEF ResponseOK, ResponseFits

LEMMA ErrorIsFresh ==
  ASSUME NEW code \in Byte, ErrorResponse(code)
  PROVE  /\ <<128, code>> \in Seq(Byte) /\ response_buf' = <<128, code>>
         /\ response_len' = Len(<<128, code>>) % 256 /\ response_idx' = 0
<1>1. 128 \in Byte
  BY InByte
<1> QED BY <1>1 DEF ErrorResponse

LEMMA ErrorCodes ==
  /\ ERROR_SERVICE_NOT_AVAIL \in Byte /\ ERROR_SUBINDEX_NOT_AVAIL \in Byte
  /\ ERROR_BUSY \in Byte /\ ERROR_WRITE_PROTECTED \in Byte /\ ERROR_SEGMENTATION \in Byte
BY InByte DEF ERROR_SERVICE_NOT_AVAIL, ERROR_SUBINDEX_NOT_AVAIL, ERROR_BUSY,
   ERROR_WRITE_PROTECTED, ERROR_SEGMENTATION

LEMMA CollectResponse ==
  ASSUME IsduInv, NEW b \in Byte, collect_byte(b) PROVE ResponseOK'
<1>1. ResponseOK /\ BufferInv
  BY DEF IsduInv
<1>2. tx' = << >>
  BY DEF collect_byte, StartRequest, IgnoreByte, Collision, SequenceError, NextSegment,
     HeaderInitial, BadService, HeaderByte, DataByte, Collected
<1>3. CASE Collision(b) \/ SequenceError(b) \/ BadService(b)
  <2>1. PICK code \in Byte : ErrorResponse(code)
    BY <1>3, ErrorCodes DEF Collision, SequenceError, BadService
  <2> QED BY <1>2, <2>1, ErrorIsFresh, FreshResponse
<1>4. CASE IgnoreByte(b)
  BY <1>1, <1>2, <1>4 DEF IgnoreByte, response, ResponseOK, ResponseFits
<1>5. CASE StartRequest(b)
  BY <1>1, <1>2, <1>5 DEF StartRequest, ResponseOK, ResponseFits
<1>6. CASE NextSegment(b) \/ HeaderInitial(b) \/ HeaderByte(b) \/ DataByte(b)
  <2>1. UNCHANGED <<response_buf, response_len, response_idx>>
    BY <1>6 DEF NextSegment, HeaderInitial, HeaderByte, DataByte, response
  <2>2. state' # "RESPONSE_READY"
    BY <1>1, <1>6 DEF NextSegment, HeaderInitial, HeaderByte, DataByte, BufferInv, CollectOK,
       HeaderStates
  <2> QED BY <1>1, <1>2, <2>1, <2>2 DEF ResponseOK, ResponseFits
<1> QED BY <1>3, <1>4, <1>5, <1>6 DEF collect_byte

LEMMA GetResponse ==
  ASSUME IsduInv, get_response_byte PROVE ResponseOK'
<1>1. /\ response_buf \in Seq(Byte) /\ response_len \in Nat /\ response_idx \in Nat
      /\ tx \in Seq(Byte) /\ ResponseFits /\ segment_seq \in 0..63
  BY DEF IsduInv, ResponseOK, ControlOK
<1>2. UNCHANGED <<response_buf, response_len>>
  BY DEF get_response_byte, NoResponse, ResponseControl, ResponseData, ResponseEmpty, Gotten
<1>3. CASE NoResponse
  BY <1>1, <1>2, <1>3 DEF NoResponse, ResponseOK, ResponseFits
<1>4. CASE ResponseControl
  <2> DEFINE start == IF response_idx = 0 THEN 128 ELSE 0
             last  == IF (response_idx + 1) % 256 >= response_len THEN 64 ELSE 0
             c     == start + last + segment_seq
  <2>1. tx' = <<c>> /\ UNCHANGED <<state, response_idx>>
    BY <1>4 DEF ResponseControl
  <2>2. start \in {0, 128} /\ last \in {0, 64}
    OBVIOUS
  <2>3. c \in Int /\ 0 <= c /\ c <= 255
    BY <1>1, <2>2
  <2>4. c \in Byte
    BY <2>3, InByte
  <2> HIDE DEF c
  <2>5. tx' \in Seq(Byte)
    BY <2>1, <2>4
  <2> QED BY <1>1, <1>2, <2>1, <2>5 DEF ResponseOK, ResponseFits
<1>5. CASE ResponseData
  <2>1. /\ state = "RESPONSE_READY" /\ response_idx < response_len
        /\ tx' = <<response_buf[response_idx + 1]>> /\ response_idx' = response_idx + 1
        /\ response_idx + 1 >= response_len => state' = "IDLE"
    BY <1>5 DEF ResponseData
  <2>2. response_len <= Len(response_buf)
    BY <1>1, <2>1 DEF ResponseFits
  <2>3. response_idx + 1 \in 1..Len(response_buf)
    BY <1>1, <2>1, <2>2
  <2>4. response_buf[response_idx + 1] \in Byte
    BY <1>1, <2>3, ElementOfSeq
  <2>5. tx' \in Seq(Byte)
    BY <2>1, <2>4
  <2> QED BY <1>1, <1>2, <2>1, <2>5 DEF ResponseOK, ResponseFits
<1>6. CASE ResponseEmpty
  BY <1>1, <1>2, <1>6 DEF ResponseEmpty, ResponseOK, ResponseFits
<1> QED BY <1>3, <1>4, <1>5, <1>6 DEF get_response_byte

(* Every service answers with a sequence of bytes, or leaves the engine in *)
(* IDLE without an answer.                                                 *)
LEMMA ServiceAnswers ==
  ASSUME IsduInv, process
  PROVE  \/ \E bytes \in Seq(Byte) : Respond(bytes)
         \/ /\ Silent /\ response_buf' \in Seq(Byte) /\ response_len' \in {2, response_len}
            /\ response_idx' = response_idx
<1>1. /\ response_buf \in Seq(Byte) /\ response_len \in Nat
      /\ tags \in [Tags -> Seq(Byte)] /\ access_locks \in Seq(Byte)
      /\ events \in Seq(Event) /\ buffer \in Seq(Byte)
  BY DEF IsduInv, ResponseOK, StoreOK, BufferInv, CollectOK
<1>2. << >> \in Seq(Byte) /\ <<0, 0>> \in Seq(Byte) /\ <<2>> \in Seq(Byte)
  BY InByte
<1>3. ASSUME NEW code \in Byte, RespondError(code)
      PROVE  \E bytes \in Seq(Byte) : Respond(bytes)
  <2>1. Respond(<<128, code>>) /\ <<128, code>> \in Seq(Byte)
    BY <1>3, ErrorIsFresh DEF RespondError, Respond
  <2> QED BY <2>1
<1>4. CASE SystemCommand
  BY <1>2, <1>3, <1>4, ErrorCodes DEF SystemCommand
<1>5. CASE PopEvent
  <2>1. CASE events = << >>
    BY <1>2, <1>5, <2>1 DEF PopEvent
  <2>2. CASE events # << >>
    <3>1. Head(events) \in Event
      BY <1>1, <2>2, HeadTailProperties
    <3>2. Head(events).code \in Word
      BY <3>1, CodesAre DEF Event
    <3>3. Uint16(Head(events).code) \in Seq(Byte)
      BY <3>2, Uint16IsSeq
    <3> QED BY <1>5, <2>2, <3>3 DEF PopEvent
  <2> QED BY <2>1, <2>2
<1>6. CASE AccessLocks
  BY <1>1, <1>2, <1>6 DEF AccessLocks
<1>7. CASE DetailedStatus
  <2>1. Listing(Prefix(events, 8)) \in Seq(Byte)
    BY <1>1, PrefixIsSeq, ListingIsSeq
  <2> QED BY <1>7, <2>1 DEF DetailedStatus
<1>8. CASE DetailedStatusWrite
  <2>1. <<128, ERROR_WRITE_PROTECTED>> \in Seq(Byte)
    BY InByte, ErrorCodes
  <2> QED BY <1>8, <2>1 DEF DetailedStatusWrite
<1>9. CASE ErrorStats
  <2>1. Stats \in Seq(Byte)
    BY IsduConstants
  <2>2. \/ RespondError(ERROR_WRITE_PROTECTED) \/ RespondError(ERROR_SUBINDEX_NOT_AVAIL)
        \/ Respond(Stats)
    BY <1>9 DEF ErrorStats
  <2> QED BY <1>3, <2>1, <2>2, ErrorCodes
<1>10. CASE ReadTag
  BY <1>1, <1>10 DEF ReadTag
<1>11. CASE WriteTag
  BY <1>1, <1>2, <1>11 DEF WriteTag, response
<1>12. CASE DeviceStatus
  <2> DEFINE m == Max({0} \cup {Severity(events[i]) : i \in 1..Len(events)})
  <2>1. m \in Byte
    BY <1>1, StatusIsByte
  <2>2. Respond(<<m>>)
    BY <1>12 DEF DeviceStatus
  <2> HIDE DEF m
  <2>3. <<m>> \in Seq(Byte)
    BY <2>1
  <2> DEFINE bytes == <<m>>
  <2>4. bytes \in Seq(Byte) /\ Respond(bytes)
    BY <2>2, <2>3
  <2> HIDE DEF bytes
  <2> QED BY <2>4
<1>13. CASE PdinDescriptor
  BY <1>2, <1>3, <1>13, ErrorCodes DEF PdinDescriptor
<1>14. CASE Identification
  <2>1. Info[header.index] \in Seq(Byte)
    BY <1>14, IsduConstants DEF Identification
  <2>2. Prefix(CString(Info[header.index]), BufferSize) \in Seq(Byte)
    <3>1. CString(Info[header.index]) \in Seq(Byte)
      BY <2>1, CStringIsSeq
    <3> QED BY <3>1, PrefixIsSeq, BufferSizeIs
  <2>3. \/ Respond(Info[header.index])
        \/ Respond(Prefix(CString(Info[header.index]), BufferSize))
    BY <1>14 DEF Identification
  <2> QED BY <2>1, <2>2, <2>3
<1>15. CASE UnknownIndex
  BY <1>3, <1>15, ErrorCodes DEF UnknownIndex
<1> QED BY <1>4, <1>5, <1>6, <1>7, <1>8, <1>9, <1>10, <1>11, <1>12, <1>13, <1>14, <1>15
        DEF process

LEMMA ServiceResponse ==
  ASSUME IsduInv, process PROVE ResponseOK' /\ ControlOK' /\ IndexOK'
<1>1. IndexOK'
  <2>1. header' = header /\ state' \in {"IDLE", "RESPONSE_READY"}
    BY ServiceAnswers DEF Respond, Ready, Silent, request
  <2>2. "HEADER_INDEX_LOW" \notin Collecting'
    BY <2>1 DEF Collecting
  <2> QED BY <2>1, <2>2, IndexStays DEF IsduInv
<1>2. CASE \E bytes \in Seq(Byte) : Respond(bytes)
  <2>1. PICK bytes \in Seq(Byte) : Respond(bytes)
    BY <1>2
  <2>2. ResponseOK'
    BY <2>1, FreshResponse DEF Respond, Ready
  <2>3. segment_seq' = 0 /\ turn' = turn
    BY <2>1 DEF Respond, Ready
  <2>4. is_response_control_sent' \in BOOLEAN
    BY <2>1, Zenon DEF Respond, Ready
  <2> QED BY <1>1, <2>2, <2>3, <2>4 DEF ControlOK, IsduInv
<1>3. CASE /\ Silent /\ response_buf' \in Seq(Byte) /\ response_len' \in {2, response_len}
           /\ response_idx' = response_idx
  <2>1. ResponseOK'
    BY <1>3 DEF Silent, ResponseOK, ResponseFits, IsduInv
  <2>2. ControlOK'
    BY <1>3 DEF Silent, ControlOK, IsduInv
  <2> QED BY <1>1, <2>1, <2>2
<1> QED BY <1>2, <1>3, ServiceAnswers

(* The tags, locks, flags and the event queue. *)
LEMMA ServiceStore ==
  ASSUME IsduInv, process PROVE StoreOK'
<1>1. /\ tags \in [Tags -> Seq(Byte)] /\ access_locks \in Seq(Byte)
      /\ events \in Seq(Event) /\ Len(events) <= QueueSize /\ buffer \in Seq(Byte)
      /\ reset_pending \in BOOLEAN /\ app_reset_pending \in BOOLEAN
  BY DEF IsduInv, StoreOK, BufferInv, CollectOK
<1>2. reset_pending' \in BOOLEAN /\ app_reset_pending' \in BOOLEAN
  <2>1. CASE SystemCommand
    BY <1>1, <2>1, Zenon DEF SystemCommand
  <2>2. CASE ~SystemCommand
    <3>1. UNCHANGED <<reset_pending, app_reset_pending>>
      BY <2>2 DEF process, PopEvent, AccessLocks, DetailedStatus, DetailedStatusWrite,
         ErrorStats, ReadTag, WriteTag, DeviceStatus, PdinDescriptor, Identification,
         UnknownIndex, flags
    <3> QED BY <1>1, <3>1
  <2> QED BY <2>1, <2>2
<1>3. tags' \in [Tags -> Seq(Byte)]
  <2>1. CASE SystemCommand
    <3>1. FactoryTags \in [Tags -> Seq(Byte)]
      BY <1>1 DEF FactoryTags
    <3>2. tags' \in {FactoryTags, tags}
      BY <2>1 DEF SystemCommand
    <3> QED BY <1>1, <3>1, <3>2
  <2>2. CASE WriteTag
    <3>1. CString(Prefix(buffer, 32)) \in Seq(Byte)
      BY <1>1, PrefixIsSeq, CStringIsSeq
    <3>2. tags' = tags \/ tags' = [tags EXCEPT ![header.index] = CString(Prefix(buffer, 32))]
      BY <2>2 DEF WriteTag
    <3> QED BY <1>1, <3>1, <3>2
  <2>3. CASE ~SystemCommand /\ ~WriteTag
    <3>1. tags' = tags
      BY <2>3 DEF process, PopEvent, AccessLocks, DetailedStatus, DetailedStatusWrite,
         ErrorStats, ReadTag, DeviceStatus, PdinDescriptor, Identification,
         UnknownIndex, params
    <3> QED BY <1>1, <3>1
  <2> QED BY <2>1, <2>2, <2>3
<1>4. access_locks' \in Seq(Byte)
  <2>1. CASE AccessLocks
    <3>1. Prefix(buffer, 2) \in Seq(Byte)
      BY <1>1, PrefixIsSeq
    <3> QED BY <1>1, <2>1, <3>1 DEF AccessLocks
  <2>2. CASE ~AccessLocks
    <3>1. access_locks' = access_locks
      BY <2>2 DEF process, SystemCommand, PopEvent, DetailedStatus, DetailedStatusWrite,
         ErrorStats, ReadTag, WriteTag, DeviceStatus, PdinDescriptor, Identification,
         UnknownIndex, params
    <3> QED BY <1>1, <3>1
  <2> QED BY <2>1, <2>2
<1>5. events' \in Seq(Event) /\ Len(events') <= QueueSize
  <2>1. CASE PopEvent /\ events # << >>
    <3>1. Tail(events) \in Seq(Event) /\ Len(Tail(events)) = Len(events) - 1
      BY <1>1, <2>1, HeadTailProperties
    <3>2. Len(events) \in Nat
      BY <1>1
    <3>3. events' = Tail(events)
      BY <2>1 DEF PopEvent
    <3> QED BY <1>1, <3>1, <3>2, <3>3, QueueSizeIs
  <2>2. CASE ~(PopEvent /\ events # << >>)
    <3>1. events' = events
      BY <2>2 DEF process, SystemCommand, PopEvent, AccessLocks, DetailedStatus,
         DetailedStatusWrite, ErrorStats, ReadTag, WriteTag, DeviceStatus, PdinDescriptor,
         Identification, UnknownIndex
    <3> QED BY <1>1, <3>1
  <2> QED BY <2>1, <2>2
<1> QED BY <1>2, <1>3, <1>4, <1>5 DEF StoreOK

LEMMA StoreStays ==
  ASSUME StoreOK, UNCHANGED <<flags, params, events>> PROVE StoreOK'
BY DEF StoreOK, flags, params

LEMMA TriggerStore ==
  ASSUME IsduInv, NEW e \in Event, TriggerEvent(e) PROVE StoreOK'
<1>1. events \in Seq(Event) /\ Len(events) <= QueueSize /\ Len(events) \in Nat
  BY DEF IsduInv, StoreOK
<1> DEFINE q == IF Len(events) < QueueSize THEN events ELSE Tail(events)
<1>2. q \in Seq(Event) /\ Len(q) < QueueSize
  <2>1. CASE Len(events) < QueueSize
    BY <1>1, <2>1
  <2>2. CASE ~(Len(events) < QueueSize)
    <3>1. events # << >>
      BY <1>1, <2>2, QueueSizeIs
    <3>2. Tail(events) \in Seq(Event) /\ Len(Tail(events)) = Len(events) - 1
      BY <1>1, <3>1, HeadTailProperties
    <3> QED BY <1>1, <2>2, <3>2, QueueSizeIs
  <2> QED BY <2>1, <2>2
<1>3. events' = Append(q, e)
  BY DEF TriggerEvent
<1> HIDE DEF q
<1>4. events' \in Seq(Event) /\ Len(events') <= QueueSize
  BY <1>2, <1>3, QueueSizeIs
<1>5. UNCHANGED <<reset_pending, app_reset_pending, tags, access_locks>>
  BY DEF TriggerEvent, flags, params
<1> QED BY <1>4, <1>5 DEF StoreOK, IsduInv

LEMMA NextIsdu == IsduInv /\ [Next]_vars => IsduInv'
<1> SUFFICES ASSUME IsduInv, [Next]_vars PROVE IsduInv'
  OBVIOUS
<1>1. BufferInv'
  BY NextBuffer DEF IsduInv
<1>2. CASE \E b \in Bytes[state] : collect_byte(b)
  <2>1. PICK b \in Byte : collect_byte(b)
    BY <1>2, BytesAreBytes DEF IsduInv, BufferInv, CollectOK
  <2>2. UNCHANGED <<flags, params, events>>
    BY <2>1 DEF collect_byte, StartRequest, IgnoreByte, Collision, SequenceError, NextSegment,
       HeaderInitial, BadService, HeaderByte, DataByte, Collected
  <2> QED BY <1>1, <2>1, <2>2, CollectIndex, CollectControl, CollectResponse, StoreStays
          DEF IsduInv
<1>3. CASE get_response_byte
  <2>1. UNCHANGED <<flags, params, events, next_state, header, buffer>>
    BY <1>3 DEF get_response_byte, NoResponse, ResponseControl, ResponseData, ResponseEmpty,
       Gotten, request
  <2>2. state' = state \/ state' = "IDLE"
    BY <1>3 DEF get_response_byte, NoResponse, ResponseControl, ResponseData, ResponseEmpty
  <2>3. IndexOK'
    BY <2>1, <2>2, IndexStays DEF IsduInv, Collecting
  <2> QED BY <1>1, <1>3, <2>1, <2>3, GetControl, GetResponse, StoreStays DEF IsduInv
<1>4. CASE process
  BY <1>1, <1>4, ServiceResponse, ServiceStore DEF IsduInv
<1>5. CASE \E e \in Event : TriggerEvent(e)
  <2>1. PICK e \in Event : TriggerEvent(e)
    BY <1>5
  <2>2. UNCHANGED <<state, next_state, header, segment_seq, is_response_control_sent, turn,
                    response_buf, response_len, response_idx, tx>>
    BY <2>1 DEF TriggerEvent, request, response
  <2>3. IndexOK' /\ ControlOK' /\ ResponseOK'
    BY <2>2 DEF IsduInv, IndexOK, Collecting, ControlOK, ResponseOK, ResponseFits
  <2> QED BY <1>1, <2>1, <2>3, TriggerStore DEF IsduInv
<1>6. CASE UNCHANGED vars
  <2>1. UNCHANGED <<state, next_state, header, segment_seq, is_response_control_sent, turn,
                    response_buf, response_len, response_idx, tx>>
    BY <1>6 DEF vars, request, response
  <2>2. IndexOK' /\ ControlOK' /\ ResponseOK'
    BY <2>1 DEF IsduInv, IndexOK, Collecting, ControlOK, ResponseOK, ResponseFits
  <2> QED BY <1>1, <1>6, <2>2, StoreStays DEF IsduInv, vars
<1> QED BY <1>2, <1>3, <1>4, <1>5, <1>6 DEF Next

(* Whatever bytes the master sends, the engine's state keeps its types: in *)
(* particular the index put together from two bytes fits its 16 bits, the  *)
(* sequence number its six, and every byte given back is a byte.           *)
THEOREM IsduTypeCorrect == Spec => []TypeOK
<1>1. IsduInv => TypeOK
  <2> SUFFICES ASSUME IsduInv PROVE TypeOK
    OBVIOUS
  <2>1. header \in [type : {"READ", "WRITE"}, length : Byte, index : Word, subindex : Byte]
    BY DEF IsduInv, IndexOK, BufferInv, CollectOK, Headers
  <2>2. state \in States /\ next_state \in States /\ buffer \in Seq(Byte)
    BY DEF IsduInv, BufferInv, CollectOK
  <2> QED BY <2>1, <2>2 DEF TypeOK, IsduInv, ControlOK, ResponseOK, StoreOK
<1> QED BY <1>1, InitIsdu, NextIsdu, PTL DEF Spec

(* get_response_byte only reads what the present response wrote, inside    *)
(* response_buf[256], and a response that is being read is not used up.    *)
THEOREM IsduResponseFits == Spec => []ResponseFits
<1>1. IsduInv => ResponseFits
  BY DEF IsduInv, ResponseOK
<1> QED BY <1>1, InitIsdu, NextIsdu, PTL DEF Spec
=============================================================================
