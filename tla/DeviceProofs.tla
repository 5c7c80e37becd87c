---------------------------- MODULE DeviceProofs ----------------------------
(***************************************************************************)
(* Proofs about the composed device of module Device, driven by the master *)
(* of module MCDevice: the calls a frame leads to reach the ISDU engine in *)
(* the order its own module takes for granted, and a master that reads     *)
(* events receives them in order, losing at most one each time it aborts.  *)
(***************************************************************************)
EXTENDS MCDevice, SequenceTheorems, TLAPS

(* What is left of the calls of a step.  Either they are iolink_isdu_      *)
(* process and events, or send is the call number s and n of the frame's   *)
(* on-request bytes have still to be answered: the calls before it are     *)
(* events, then collect and get in turn, and turn says which of the two    *)
(* comes first when the events are over.                                   *)
CallAt(k, s, n) ==
  IF k = s THEN "send"
  ELSE IF k > s \/ k < s - 2 * n THEN "trigger"
  ELSE IF (s - k) % 2 = 0 THEN "collect" ELSE "get"

NoFrameCalls ==
  /\ turn = "collect"
  /\ \A k \in 1..Len(todo) : todo[k].call \in {"process", "trigger"}

FrameCalls(s, n) ==
  /\ Len(od_out) + n \in {1, OdLen}
  /\ 2 * n <= s
  /\ turn = IF s = 2 * n THEN "get" ELSE "collect"
  /\ \A k \in 1..Len(todo) : todo[k].call = CallAt(k, s, n)

CallsInv ==
  /\ todo \in Seq(Range(todo)) /\ od_out \in Seq(Range(od_out))
  /\ NoFrameCalls \/ \E s \in 1..Len(todo), n \in 0..OdLen : FrameCalls(s, n)

-----------------------------------------------------------------------------
(* Sequences of whatever elements they have.                               *)

LEMMA OwnRange ==
  ASSUME NEW S, NEW s \in Seq(S)
  PROVE  s \in Seq(Range(s))
<1>1. /\ Len(s) \in Nat /\ DOMAIN s = 1..Len(s) /\ s = [i \in 1..Len(s) |-> s[i]]
  OBVIOUS
<1>2. \A i \in 1..Len(s) : s[i] \in Range(s)
  BY <1>1 DEF Range
<1> QED  BY <1>1, <1>2

LEMMA JoinedRange ==
  ASSUME NEW s, s \in Seq(Range(s)), NEW t, t \in Seq(Range(t))
  PROVE  s \o t \in Seq(Range(s \o t))
<1>1. s \in Seq(Range(s) \cup Range(t)) /\ t \in Seq(Range(s) \cup Range(t))
  OBVIOUS
<1>2. s \o t \in Seq(Range(s) \cup Range(t))
  BY <1>1
<1> QED  BY <1>2, OwnRange

LEMMA TriggersAre ==
  ASSUME NEW evs \in Seq(EventCodes)
  PROVE  /\ Triggers(evs) \in Seq(Range(Triggers(evs)))
         /\ Len(Triggers(evs)) = Len(evs)
         /\ \A i \in 1..Len(evs) : Triggers(evs)[i].call = "trigger"
<1> DEFINE t == Triggers(evs)
           S == {Call("trigger", e) : e \in EventCodes}
<1>1. t \in Seq(S)
  <2>1. Len(evs) \in Nat /\ \A i \in 1..Len(evs) : Call("trigger", evs[i]) \in S
    OBVIOUS
  <2> HIDE DEF S
  <2> QED  BY <2>1 DEF Triggers
<1>2. t \in Seq(Range(t))
  BY <1>1, OwnRange
<1>3. Len(evs) \in Nat
  OBVIOUS
<1>4. Len(t) = Len(evs)
  BY <1>3 DEF Triggers
<1>5. \A i \in 1..Len(evs) : t[i].call = "trigger"
  BY <1>3 DEF Triggers, Call
<1> QED  BY <1>2, <1>4, <1>5

LEMMA OdCallsAre ==
  ASSUME NEW bytes, bytes \in Seq(Range(bytes))
  PROVE  /\ OdCalls(bytes) \in Seq(Range(OdCalls(bytes)))
         /\ Len(OdCalls(bytes)) = 2 * Len(bytes)
         /\ \A i \in 1..(2 * Len(bytes)) :
              OdCalls(bytes)[i].call = IF i % 2 = 1 THEN "collect" ELSE "get"
<1> DEFINE t == OdCalls(bytes)
           S == {Call("collect", b) : b \in Range(bytes)} \cup {Call("get", 0)}
<1>1. Len(bytes) \in Nat /\ 2 * Len(bytes) \in Nat
  OBVIOUS
<1>2. ASSUME NEW i \in 1..(2 * Len(bytes)), i % 2 = 1
      PROVE  Call("collect", bytes[(i + 1) \div 2]) \in S
  <2>1. (i + 1) \div 2 \in 1..Len(bytes)
    BY <1>1, <1>2
  <2> QED  BY <2>1
<1>3. Call("get", 0) \in S
  OBVIOUS
<1>4. t \in Seq(S)
  <2> HIDE DEF S
  <2> QED  BY <1>1, <1>2, <1>3 DEF OdCalls
<1>5. t \in Seq(Range(t))
  BY <1>4, OwnRange
<1>6. Len(t) = 2 * Len(bytes)
  BY <1>1 DEF OdCalls
<1>7. \A i \in 1..(2 * Len(bytes)) : t[i].call = IF i % 2 = 1 THEN "collect" ELSE "get"
  BY <1>1 DEF OdCalls, Call
<1> QED  BY <1>5, <1>6, <1>7

-----------------------------------------------------------------------------
(* What the calls of the ISDU engine do to turn.                           *)

LEMMA CollectTurn ==
  ASSUME NEW b, I!collect_byte(b)
  PROVE  turn = "collect" /\ turn' = "get"
BY DEF I!collect_byte, I!StartRequest, I!IgnoreByte, I!Collision, I!SequenceError,
       I!NextSegment, I!HeaderInitial, I!BadService, I!HeaderByte, I!DataByte, I!Collected

LEMMA GetTurn ==
  ASSUME I!get_response_byte
  PROVE  turn = "get" /\ turn' = "collect"
BY DEF I!get_response_byte, I!NoResponse, I!ResponseControl, I!ResponseData,
       I!ResponseEmpty, I!Gotten

LEMMA ProcessTurn ==
  ASSUME I!process
  PROVE  turn' = turn
BY DEF I!process, I!SystemCommand, I!PopEvent, I!AccessLocks, I!DetailedStatus,
       I!DetailedStatusWrite, I!ErrorStats, I!ReadTag, I!WriteTag, I!DeviceStatus,
       I!PdinDescriptor, I!Identification, I!UnknownIndex, I!Respond, I!RespondError,
       I!Ready, I!Silent

LEMMA TriggerTurn ==
  ASSUME NEW e, I!TriggerEvent(e)
  PROVE  turn' = turn
BY DEF I!TriggerEvent

-----------------------------------------------------------------------------
(* Steps of the DLL, which fill todo *)

(* The events of a step are a sequence of event codes.                     *)
LEMMA TimingEventIs == \A b : TimingEvent(b) \in Seq(EventCodes)
<1>1. "COMM_TIMING" \in EventCodes
  BY DEF EventCodes
<1>2. <<"COMM_TIMING">> \in Seq(EventCodes) /\ << >> \in Seq(EventCodes)
  BY <1>1
<1> QED  BY <1>2 DEF TimingEvent

LEMMA FallbackEvents ==
  ASSUME NEW names, NEW evs \in Seq(EventCodes), dll_enter_fallback(names, evs)
  PROVE  out'.events \in Seq(EventCodes)
<1> DEFINE more == IF fallback_count + 1 >= Threshold THEN <<"COMM_FRAMING">> ELSE << >>
<1>1. more \in Seq(EventCodes)
  <2>1. "COMM_FRAMING" \in EventCodes
    BY DEF EventCodes
  <2>2. <<"COMM_FRAMING">> \in Seq(EventCodes) /\ << >> \in Seq(EventCodes)
    BY <2>1
  <2> QED  BY <2>2
<1>2. out'.events = evs \o more
  BY DEF dll_enter_fallback, Output
<1> QED  BY <1>1, <1>2

(* A step that is no frame with on-request bytes starts with nothing to    *)
(* do and leaves nothing for the ISDU engine but iolink_isdu_process.      *)
LEMMA QuietCalls ==
  ASSUME CallsInv, Between, UNCHANGED od_out, out'.events \in Seq(EventCodes),
         NEW first, first \in {<< >>, <<Call("process", 0)>>},
         todo' = first \o Triggers(out'.events)
  PROVE  CallsInv'
<1> DEFINE t == Triggers(out'.events)
<1>1. /\ t \in Seq(Range(t)) /\ Len(t) \in Nat
      /\ \A i \in 1..Len(t) : t[i].call = "trigger"
  BY TriggersAre
<1>2. first \in Seq(Range(first))
  <2>1. << >> \in Seq({Call("process", 0)}) /\ <<Call("process", 0)>> \in Seq({Call("process", 0)})
    OBVIOUS
  <2> QED  BY <2>1, OwnRange
<1>3. turn = "collect" /\ turn' = turn
  BY DEF CallsInv, NoFrameCalls, Between, isdu_vars
<1> HIDE DEF t
<1>4. todo' \in Seq(Range(todo'))
  BY <1>1, <1>2, JoinedRange DEF t
<1>5. \A i \in 1..Len(first) : first[i].call = "process"
  BY DEF Call
<1>6. \A k \in 1..Len(todo') : todo'[k].call \in {"process", "trigger"}
  <2> SUFFICES ASSUME NEW k \in 1..Len(first \o t)
               PROVE  (first \o t)[k].call \in {"process", "trigger"}
    BY DEF t
  <2>1. Len(first) \in Nat /\ Len(first \o t) = Len(first) + Len(t)
    BY <1>1, <1>2
  <2>2. CASE k <= Len(first)
    BY <1>1, <1>2, <1>5, <2>1, <2>2
  <2>3. CASE k > Len(first)
    BY <1>1, <1>2, <2>1, <2>3
  <2> QED  BY <2>1, <2>2, <2>3
<1> QED  BY <1>3, <1>4, <1>6 DEF CallsInv, NoFrameCalls

LEMMA JoinedAt ==
  ASSUME NEW s, s \in Seq(Range(s)), NEW t, t \in Seq(Range(t))
  PROVE  /\ Len(s) \in Nat /\ Len(t) \in Nat /\ Len(s \o t) = Len(s) + Len(t)
         /\ \A k \in 1..Len(s) : (s \o t)[k] = s[k]
         /\ \A k \in (Len(s) + 1)..(Len(s) + Len(t)) : (s \o t)[k] = t[k - Len(s)]
OBVIOUS

(* The parts a frame's calls are made of.                                  *)
AllTriggers(t) == t \in Seq(Range(t)) /\ \A i \in 1..Len(t) : t[i].call = "trigger"

OdPairs(t, n) ==
  /\ t \in Seq(Range(t)) /\ Len(t) = 2 * n
  /\ \A i \in 1..(2 * n) : t[i].call = IF i % 2 = 1 THEN "collect" ELSE "get"

OneSend(t) == t \in Seq(Range(t)) /\ Len(t) = 1 /\ t[1].call = "send"

LEMMA OddFromTheEnd ==
  ASSUME NEW i \in Nat, NEW m \in Nat
  PROVE  i % 2 = 1 <=> (2 * m + 1 - i) % 2 = 0
OBVIOUS

(* Where the calls of a frame stand: p of them are events before the pairs *)
(* of n on-request bytes.                                                  *)
LEMMA PlaceOfCalls ==
  ASSUME NEW p \in Nat, NEW n \in Nat, NEW k \in Nat \ {0}
  PROVE  LET s == p + 2 * n + 1
         IN  CallAt(k, s, n) = IF k <= p \/ k > s THEN "trigger"
                               ELSE IF k = s THEN "send"
                               ELSE IF (k - p) % 2 = 1 THEN "collect" ELSE "get"
<1> DEFINE s == p + 2 * n + 1
<1>1. CASE k <= p
  BY <1>1 DEF CallAt
<1>2. CASE k >= s
  BY <1>2 DEF CallAt
<1>3. CASE k > p /\ k < s
  <2>1. k - p \in Nat /\ s - k = 2 * n + 1 - (k - p)
    BY <1>3
  <2>2. (k - p) % 2 = 1 <=> (s - k) % 2 = 0
    BY <2>1, OddFromTheEnd
  <2>3. k # s /\ ~(k > s) /\ ~(k < s - 2 * n) /\ ~(k <= p)
    BY <1>3
  <2> HIDE DEF s
  <2> QED  BY <2>2, <2>3 DEF CallAt, s
<1> QED  BY <1>1, <1>2, <1>3

IsFrameTodo(w, n) ==
  /\ w \in Seq(Range(w))
  /\ \E s \in 1..Len(w) :
       /\ 2 * n < s
       /\ \A k \in 1..Len(w) : w[k].call = CallAt(k, s, n)

(* Events, the calls of n on-request bytes, send and events again.         *)
LEMMA FrameTodo ==
  ASSUME NEW n \in Nat, NEW ta, NEW od, NEW one, NEW tc,
         AllTriggers(ta), OdPairs(od, n), OneSend(one), AllTriggers(tc)
  PROVE  IsFrameTodo(ta \o od \o one \o tc, n)
<1> DEFINE u == ta \o od
           v == u \o one
           z == v \o tc
<1>0. /\ ta \in Seq(Range(ta)) /\ od \in Seq(Range(od)) /\ Len(od) = 2 * n
      /\ one \in Seq(Range(one)) /\ Len(one) = 1 /\ tc \in Seq(Range(tc))
  BY DEF AllTriggers, OdPairs, OneSend
<1>1. u \in Seq(Range(u))
  BY <1>0, JoinedRange
<1>2. v \in Seq(Range(v))
  BY <1>0, <1>1, JoinedRange
<1>3. z \in Seq(Range(z))
  BY <1>0, <1>2, JoinedRange
<1>4. /\ Len(ta) \in Nat /\ Len(u) = Len(ta) + 2 * n
      /\ \A k \in 1..Len(ta) : u[k] = ta[k]
      /\ \A k \in (Len(ta) + 1)..(Len(ta) + 2 * n) : u[k] = od[k - Len(ta)]
  <2>1. /\ Len(ta) \in Nat /\ Len(u) = Len(ta) + Len(od)
        /\ \A k \in 1..Len(ta) : u[k] = ta[k]
        /\ \A k \in (Len(ta) + 1)..(Len(ta) + Len(od)) : u[k] = od[k - Len(ta)]
    BY <1>0, JoinedAt
  <2> HIDE DEF u
  <2> QED  BY <1>0, <2>1
<1>5. /\ Len(v) = Len(u) + 1
      /\ \A k \in 1..Len(u) : v[k] = u[k]
      /\ \A k \in (Len(u) + 1)..(Len(u) + 1) : v[k] = one[k - Len(u)]
  <2> HIDE DEF u
  <2>1. /\ Len(v) = Len(u) + Len(one)
        /\ \A k \in 1..Len(u) : v[k] = u[k]
        /\ \A k \in (Len(u) + 1)..(Len(u) + Len(one)) : v[k] = one[k - Len(u)]
    BY <1>0, <1>1, JoinedAt
  <2> HIDE DEF v
  <2> QED  BY <1>0, <2>1
<1>6. /\ Len(tc) \in Nat /\ Len(z) = Len(v) + Len(tc)
      /\ \A k \in 1..Len(v) : z[k] = v[k]
      /\ \A k \in (Len(v) + 1)..(Len(v) + Len(tc)) : z[k] = tc[k - Len(v)]
  <2> HIDE DEF v
  <2> QED  BY <1>0, <1>2, JoinedAt
<1> SUFFICES IsFrameTodo(z, n)
  OBVIOUS
<1> HIDE DEF u, v, z
<1>8. PICK p \in Nat : p = Len(ta)
  BY <1>4
<1>9. PICK s \in Nat : s = p + 2 * n + 1
  BY <1>8
<1>10. Len(u) = s - 1 /\ Len(v) = s
  BY <1>4, <1>5, <1>8, <1>9
<1>11. ASSUME NEW k \in 1..(s + Len(tc))
       PROVE  z[k].call = CallAt(k, s, n)
  <2>0. CallAt(k, s, n) = IF k <= p \/ k > s THEN "trigger"
                          ELSE IF k = s THEN "send"
                          ELSE IF (k - p) % 2 = 1 THEN "collect" ELSE "get"
    <3>1. k \in Nat \ {0}
      BY <1>6
    <3> QED  BY <1>9, <3>1, PlaceOfCalls
  <2>1. CASE k <= p
    <3>0. k \in 1..Len(ta) /\ k \in 1..Len(u) /\ k \in 1..Len(v)
      BY <1>6, <1>8, <1>9, <1>10, <2>1
    <3>1. z[k] = ta[k] /\ k \in 1..Len(ta)
      BY <1>4, <1>5, <1>6, <3>0
    <3>2. z[k].call = "trigger"
      BY <3>1 DEF AllTriggers
    <3> QED  BY <2>0, <2>1, <3>2
  <2>2. CASE k > p /\ k < s
    <3>1. z[k] = od[k - p] /\ k - p \in 1..(2 * n)
      BY <1>4, <1>5, <1>6, <1>8, <1>9, <1>10, <2>2
    <3>2. z[k].call = IF (k - p) % 2 = 1 THEN "collect" ELSE "get"
      BY <3>1 DEF OdPairs
    <3>3. k # s /\ ~(k > s) /\ ~(k <= p)
      BY <1>8, <1>9, <2>2
    <3> QED  BY <2>0, <3>2, <3>3
  <2>3. CASE k = s
    <3>1. z[k] = one[1] /\ ~(k <= p) /\ ~(k > s)
      BY <1>4, <1>5, <1>6, <1>8, <1>9, <1>10, <2>3
    <3> QED  BY <2>0, <2>3, <3>1 DEF OneSend
  <2>4. CASE k > s
    <3>1. z[k] = tc[k - s] /\ k - s \in 1..Len(tc)
      BY <1>6, <1>9, <1>10, <2>4
    <3>2. z[k].call = "trigger"
      BY <3>1 DEF AllTriggers
    <3> QED  BY <2>0, <2>4, <3>2
  <2> QED  BY <1>8, <1>9, <2>1, <2>2, <2>3, <2>4
<1>12. s \in 1..Len(z) /\ Len(z) = s + Len(tc) /\ 2 * n < s
  BY <1>6, <1>8, <1>9, <1>10
<1> QED  BY <1>3, <1>11, <1>12 DEF IsFrameTodo

(* A frame with on-request bytes.                                          *)
LEMMA FrameMakesCalls ==
  ASSUME CallsInv, Between, od_out' = << >>,
         NEW a \in Seq(EventCodes), NEW c \in Seq(EventCodes),
         NEW bytes, bytes \in Seq(Range(bytes)), Len(bytes) \in {1, OdLen},
         todo' = Triggers(a) \o OdCalls(bytes) \o Send \o Triggers(c)
  PROVE  CallsInv'
<1> DEFINE ta == Triggers(a)
           od == OdCalls(bytes)
           tc == Triggers(c)
<1>1. PICK n \in Nat : n = Len(bytes)
  OBVIOUS
<1>2. n \in {1, OdLen} /\ n \in 0..OdLen
  <2>1. n \in {1, OdLen}
    BY <1>1
  <2>2. OdLen = 1 \/ OdLen = 2
    BY DllConstants
  <2> QED  BY <2>1, <2>2
<1>3. AllTriggers(ta) /\ AllTriggers(tc)
  BY TriggersAre DEF AllTriggers
<1>4. OdPairs(od, n)
  BY <1>1, OdCallsAre DEF OdPairs
<1>5. OneSend(Send)
  <2>1. Send \in Seq({Call("send", 0)})
    BY DEF Send
  <2> QED  BY <2>1, OwnRange DEF OneSend, Send, Call
<1>7. turn' = "collect"
  BY DEF CallsInv, NoFrameCalls, Between, isdu_vars
<1> HIDE DEF ta, od, tc
<1>8. todo' = ta \o od \o Send \o tc
  BY DEF ta, od, tc
<1>9. IsFrameTodo(todo', n)
  BY <1>3, <1>4, <1>5, <1>8, FrameTodo
<1>10. PICK s \in 1..Len(todo') :
         /\ 2 * n < s
         /\ \A k \in 1..Len(todo') : todo'[k].call = CallAt(k, s, n)
  BY <1>9 DEF IsFrameTodo
<1>11. FrameCalls(s, n)'
  <2>1. Len(od_out') = 0
    OBVIOUS
  <2>2. Len(od_out') + n \in {1, OdLen} /\ 2 * n <= s /\ s # 2 * n
    BY <1>2, <1>10, <2>1
  <2> QED  BY <1>7, <1>10, <2>2 DEF FrameCalls
<1>12. od_out' \in Seq(Range(od_out'))
  BY OwnRange
<1> QED  BY <1>2, <1>9, <1>10, <1>11, <1>12 DEF CallsInv, IsFrameTodo

-----------------------------------------------------------------------------
(* Making the calls *)

LEMMA ShiftedCall ==
  ASSUME NEW s \in Nat, NEW n \in Nat, NEW k \in Nat
  PROVE  CallAt(k + 1, s, n) = CallAt(k, s - 1, n)
<1>1. (s - (k + 1)) % 2 = (s - 1 - k) % 2
  OBVIOUS
<1>2. /\ k + 1 = s <=> k = s - 1
      /\ k + 1 > s <=> k > s - 1
      /\ k + 1 < s - 2 * n <=> k < s - 1 - 2 * n
  OBVIOUS
<1> QED  BY <1>1, <1>2 DEF CallAt

(* After get the pair it belongs to is over.                               *)
LEMMA PairOver ==
  ASSUME NEW n \in Nat \ {0}, NEW k \in Nat \ {0}
  PROVE  CallAt(k, 2 * n - 1, n) = CallAt(k, 2 * n - 1, n - 1)
<1>1. ~(k < 2 * n - 1 - 2 * n) /\ ~(k < 2 * n - 1 - 2 * (n - 1))
  OBVIOUS
<1> QED  BY <1>1 DEF CallAt

(* The first call of a frame's, by where send stands.                      *)
LEMMA FirstCall ==
  ASSUME NEW s \in Nat \ {0}, NEW n \in Nat, 2 * n <= s
  PROVE  CallAt(1, s, n) = IF s = 1 THEN "send"
                           ELSE IF s = 2 * n THEN "get"
                           ELSE IF s = 2 * n + 1 THEN "collect" ELSE "trigger"
<1>1. CASE s = 1
  BY <1>1 DEF CallAt
<1>2. CASE s # 1 /\ s = 2 * n
  <2>1. (s - 1) % 2 = 1
    BY <1>2
  <2>2. ~(1 > s) /\ ~(1 < s - 2 * n)
    BY <1>2
  <2> QED  BY <1>2, <2>1, <2>2 DEF CallAt
<1>3. CASE s # 1 /\ s = 2 * n + 1
  <2>1. (s - 1) % 2 = 0
    BY <1>3
  <2>2. ~(1 > s) /\ ~(1 < s - 2 * n) /\ s # 2 * n
    BY <1>3
  <2> QED  BY <1>3, <2>1, <2>2 DEF CallAt
<1>4. CASE s # 1 /\ s # 2 * n /\ s # 2 * n + 1
  <2>1. 1 < s - 2 * n
    BY <1>4
  <2> QED  BY <1>4, <2>1 DEF CallAt
<1> QED  BY <1>1, <1>2, <1>3, <1>4

(* What making the first call does to turn and to the response.            *)
CallEffect ==
  LET first == todo[1].call
  IN  /\ first \in {"process", "trigger", "send"} => turn' = turn /\ od_out' = od_out
      /\ first = "collect" => turn' = "get" /\ od_out' = od_out
      /\ first = "get" => turn' = "collect" /\ \E x : od_out' = Append(od_out, x)

LEMMA CallStep ==
  ASSUME CallsInv, todo # << >>, todo' = Tail(todo), CallEffect
  PROVE  CallsInv'
<1> DEFINE first == todo[1].call
<1>1. todo \in Seq(Range(todo)) /\ od_out \in Seq(Range(od_out))
  BY DEF CallsInv
<1>2. /\ Len(todo) \in Nat \ {0} /\ Len(todo') = Len(todo) - 1
      /\ \A k \in 1..Len(todo') : todo'[k] = todo[k + 1]
  BY <1>1
<1>3. todo' \in Seq(Range(todo'))
  <2>1. todo' \in Seq(Range(todo))
    BY <1>1
  <2> QED  BY <2>1, OwnRange
<1>4. CASE NoFrameCalls
  <2>1. first \in {"process", "trigger"}
    BY <1>2, <1>4 DEF NoFrameCalls
  <2>2. turn' = turn /\ od_out' = od_out
    BY <2>1 DEF CallEffect
  <2>3. \A k \in 1..Len(todo') : todo'[k].call \in {"process", "trigger"}
    BY <1>2, <1>4 DEF NoFrameCalls
  <2> QED  BY <1>1, <1>3, <1>4, <2>2, <2>3 DEF CallsInv, NoFrameCalls
<1>5. ASSUME NEW s \in 1..Len(todo), NEW n \in 0..OdLen, FrameCalls(s, n)
      PROVE  CallsInv'
  <2>0. n \in Nat /\ s \in Nat \ {0} /\ OdLen \in Nat /\ Len(od_out) \in Nat
    BY <1>1, <1>2, DllConstants
  <2>1. /\ Len(od_out) + n \in {1, OdLen} /\ 2 * n <= s
        /\ turn = IF s = 2 * n THEN "get" ELSE "collect"
    BY <1>5 DEF FrameCalls
  <2>2. \A k \in 1..Len(todo) : todo[k].call = CallAt(k, s, n)
    BY <1>5 DEF FrameCalls
  <2>3. first = CallAt(1, s, n)
    BY <1>2, <2>2
  <2>4. \A k \in 1..Len(todo') : todo'[k].call = CallAt(k, s - 1, n)
    <3> TAKE k \in 1..Len(todo')
    <3>1. k \in Nat /\ k + 1 \in 1..Len(todo) /\ todo'[k] = todo[k + 1]
      BY <1>2
    <3>2. CallAt(k + 1, s, n) = CallAt(k, s - 1, n)
      BY <2>0, <3>1, ShiftedCall
    <3> QED  BY <2>2, <3>1, <3>2
  <2>5. CASE s = 1
    <3>1. first = "send" /\ turn = "collect"
      BY <2>0, <2>1, <2>3, <2>5, FirstCall
    <3>2. turn' = "collect" /\ od_out' = od_out
      BY <3>1 DEF CallEffect
    <3>3. \A k \in 1..Len(todo') : CallAt(k, s - 1, n) = "trigger"
      BY <1>2, <2>5 DEF CallAt
    <3>4. NoFrameCalls'
      BY <2>4, <3>2, <3>3 DEF NoFrameCalls
    <3> QED  BY <1>1, <1>3, <3>2, <3>4 DEF CallsInv
  <2>6. CASE s # 1 /\ s = 2 * n
    <3>1. first = "get"
      BY <2>0, <2>1, <2>3, <2>6, FirstCall
    <3>2. turn' = "collect" /\ \E x : od_out' = Append(od_out, x)
      BY <3>1 DEF CallEffect
    <3>3. Len(od_out') = Len(od_out) + 1 /\ od_out' \in Seq(Range(od_out'))
      <4>1. PICK x : od_out' = Append(od_out, x)
        BY <3>2
      <4>2. od_out \in Seq(Range(od_out) \cup {x}) /\ x \in Range(od_out) \cup {x}
        BY <1>1
      <4>3. od_out' \in Seq(Range(od_out) \cup {x}) /\ Len(od_out') = Len(od_out) + 1
        BY <4>1, <4>2
      <4> QED  BY <4>3, OwnRange
    <3>4. \A k \in 1..Len(todo') : todo'[k].call = CallAt(k, s - 1, n - 1)
      <4> TAKE k \in 1..Len(todo')
      <4>1. k \in Nat \ {0} /\ n \in Nat \ {0}
        BY <1>2, <2>0, <2>6
      <4>2. CallAt(k, s - 1, n) = CallAt(k, s - 1, n - 1)
        BY <2>6, <4>1, PairOver
      <4> QED  BY <2>4, <4>2
    <3>5. /\ s - 1 \in 1..Len(todo') /\ n - 1 \in 0..OdLen
          /\ 2 * (n - 1) <= s - 1 /\ s - 1 # 2 * (n - 1)
          /\ Len(od_out') + (n - 1) \in {1, OdLen}
      <4>1. n \in Nat \ {0} /\ n <= OdLen /\ s <= Len(todo)
        BY <1>2, <2>0, <2>6
      <4>2. Len(od_out') + (n - 1) = Len(od_out) + n
        BY <2>0, <3>3
      <4>3. s - 1 \in 1..Len(todo') /\ n - 1 \in 0..OdLen
        BY <1>2, <2>0, <2>6, <4>1
      <4>4. 2 * (n - 1) <= s - 1 /\ s - 1 # 2 * (n - 1)
        BY <2>0, <2>6, <4>1
      <4> QED  BY <2>1, <4>2, <4>3, <4>4
    <3>6. FrameCalls(s - 1, n - 1)'
      BY <3>2, <3>4, <3>5 DEF FrameCalls
    <3> QED  BY <1>3, <3>3, <3>5, <3>6 DEF CallsInv
  <2>7. CASE s # 1 /\ s # 2 * n
    <3>1. first = IF s = 2 * n + 1 THEN "collect" ELSE "trigger"
      BY <2>0, <2>1, <2>3, <2>7, FirstCall
    <3>2. /\ turn' = IF s - 1 = 2 * n THEN "get" ELSE "collect"
          /\ od_out' = od_out
      BY <2>0, <2>1, <2>7, <3>1 DEF CallEffect
    <3>3. s - 1 \in 1..Len(todo') /\ 2 * n <= s - 1
      BY <1>2, <2>0, <2>1, <2>7
    <3>4. FrameCalls(s - 1, n)'
      BY <2>1, <2>4, <3>2, <3>3 DEF FrameCalls
    <3> QED  BY <1>1, <1>3, <3>2, <3>3, <3>4 DEF CallsInv
  <2> QED  BY <2>5, <2>6, <2>7
<1> QED  BY <1>4, <1>5 DEF CallsInv

(* The actions that make a call have that effect.                          *)
LEMMA CallActions ==
  ASSUME CallsInv, CallTrigger \/ CallCollect \/ CallGet \/ CallProcess \/ CallSend
  PROVE  CallsInv'
<1>1. todo # << >> /\ todo' = Tail(todo)
  BY DEF CallTrigger, CallCollect, CallGet, CallProcess, CallSend, Next1
<1>2. CallEffect
  <2>1. CASE CallTrigger
    BY <2>1, TriggerTurn DEF CallTrigger, Next1, CallEffect
  <2>2. CASE CallCollect
    BY <2>2, CollectTurn DEF CallCollect, Next1, CallEffect
  <2>3. CASE CallGet
    BY <2>3, GetTurn DEF CallGet, Next1, CallEffect
  <2>4. CASE CallProcess
    BY <2>4, ProcessTurn DEF CallProcess, Next1, CallEffect
  <2>5. CASE CallSend
    BY <2>5 DEF CallSend, Next1, CallEffect, isdu_vars
  <2> QED  BY <2>1, <2>2, <2>3, <2>4, <2>5
<1> QED  BY <1>1, <1>2, CallStep

-----------------------------------------------------------------------------
(* A step that only triggers events, by the step of the DLL it is.         *)
LEMMA QuietStepKeeps ==
  ASSUME CallsInv, Between, out'.events \in Seq(EventCodes),
         todo' = Triggers(out'.events), UNCHANGED od_out
  PROVE  CallsInv'
<1> DEFINE t == Triggers(out'.events)
<1>1. t \in Seq(Range(t))
  BY TriggersAre
<1> HIDE DEF t
<1>2. << >> \o t = t
  BY <1>1
<1>3. todo' = << >> \o Triggers(out'.events)
  BY <1>2 DEF t
<1> QED  BY <1>3, QuietCalls

LEMMA QuietEvents ==
  /\ NoOut.events \in Seq(EventCodes)
  /\ \A b, armed_now : RecvByte(b, armed_now) => out'.events \in Seq(EventCodes)
  /\ \A c : FrameTransition(c) => out'.events \in Seq(EventCodes)
  /\ \A c : FrameBadCrc(c) => out'.events \in Seq(EventCodes)
  /\ SilenceCheck => out'.events \in Seq(EventCodes)
<1>1. NoOut.events \in Seq(EventCodes)
  BY DEF NoOut, Output
<1>2. ASSUME NEW b, NEW armed_now, RecvByte(b, armed_now)
      PROVE  out'.events \in Seq(EventCodes)
  BY <1>2, TimingEventIs DEF RecvByte, Output
<1>3. ASSUME NEW c, FrameTransition(c)
      PROVE  out'.events \in Seq(EventCodes)
  BY <1>3, TimingEventIs DEF FrameTransition, Output
<1>4. ASSUME NEW c, FrameBadCrc(c)
      PROVE  out'.events \in Seq(EventCodes)
  BY <1>4, TimingEventIs, FallbackEvents DEF FrameBadCrc
<1>5. ASSUME SilenceCheck
      PROVE  out'.events \in Seq(EventCodes)
  BY <1>1, <1>5, TimingEventIs, FallbackEvents DEF SilenceCheck
<1> QED  BY <1>1, <1>2, <1>3, <1>4, <1>5

LEMMA QuietActions ==
  ASSUME CallsInv,
         \/ \E b, armed_now : QuietStep(RecvByte(b, armed_now))
         \/ \E c : QuietStep(FrameTransition(c)) \/ QuietStep(FrameBadCrc(c))
         \/ \E w : QuietStep(SioPoll(w))
         \/ QuietStep(SilenceCheck) \/ QuietStep(DwuOver) \/ QuietStep(LoopEnd)
         \/ QuietStep(Tick)
  PROVE  CallsInv'
<1>1. Between /\ todo' = Triggers(out'.events) /\ UNCHANGED od_out
  BY DEF QuietStep
<1>2. out'.events \in Seq(EventCodes)
  <2>1. CASE \E w : QuietStep(SioPoll(w))
    BY <2>1, QuietEvents DEF QuietStep, SioPoll
  <2>2. CASE QuietStep(DwuOver) \/ QuietStep(LoopEnd) \/ QuietStep(Tick)
    BY <2>2, QuietEvents DEF QuietStep, DwuOver, LoopEnd, Tick
  <2> QED  BY <2>1, <2>2, QuietEvents DEF QuietStep
<1> QED  BY <1>1, <1>2, QuietStepKeeps

LEMMA BeginCallKeeps ==
  ASSUME CallsInv, NEW v, NEW s, BeginCall(v, s)
  PROVE  CallsInv'
<1> DEFINE ev == IF v THEN <<"VOLTAGE_FAULT">> ELSE << >>
           es == IF s THEN <<"SHORT_CIRCUIT">> ELSE << >>
<1>1. ev \in Seq(EventCodes) /\ es \in Seq(EventCodes)
  <2>1. "VOLTAGE_FAULT" \in EventCodes /\ "SHORT_CIRCUIT" \in EventCodes
    BY DEF EventCodes
  <2>2. /\ <<"VOLTAGE_FAULT">> \in Seq(EventCodes) /\ <<"SHORT_CIRCUIT">> \in Seq(EventCodes)
        /\ << >> \in Seq(EventCodes)
    BY <2>1
  <2> QED  BY <2>2
<1>2. out'.events = ev \o es
  BY DEF BeginCall, Begin, Output, Diagnostics
<1>3. out'.events \in Seq(EventCodes)
  BY <1>1, <1>2
<1>4. /\ Between /\ UNCHANGED od_out
      /\ todo' = ProcessCall \o Triggers(out'.events)
      /\ ProcessCall \in {<< >>, <<Call("process", 0)>>}
  BY DEF BeginCall, ProcessCall
<1> QED  BY <1>3, <1>4, QuietCalls

LEMMA Type0FrameKeeps ==
  ASSUME CallsInv, NEW c, NEW b, Type0Frame(c, b)
  PROVE  CallsInv'
<1>1. << >> \in Seq(EventCodes) /\ TimingEvent(c) \in Seq(EventCodes)
  BY TimingEventIs
<1>2. <<b>> \in Seq(Range(<<b>>)) /\ Len(<<b>>) \in {1, OdLen}
  <2>1. <<b>> \in Seq({b})
    OBVIOUS
  <2> QED  BY <2>1, OwnRange
<1> DEFINE t == Triggers(TimingEvent(c)) \o OdCalls(<<b>>) \o Send
<1>3. t \in Seq(Range(t))
  <2>1. Triggers(TimingEvent(c)) \in Seq(Range(Triggers(TimingEvent(c))))
    BY <1>1, TriggersAre
  <2>2. OdCalls(<<b>>) \in Seq(Range(OdCalls(<<b>>)))
    BY <1>2, OdCallsAre
  <2>3. Send \in Seq(Range(Send))
    <3>1. Send \in Seq({Call("send", 0)})
      BY DEF Send
    <3> QED  BY <3>1, OwnRange
  <2>4. Triggers(TimingEvent(c)) \o OdCalls(<<b>>)
          \in Seq(Range(Triggers(TimingEvent(c)) \o OdCalls(<<b>>)))
    BY <2>1, <2>2, JoinedRange
  <2> QED  BY <2>3, <2>4, JoinedRange
<1>4. Triggers(<< >>) = << >>
  BY DEF Triggers
<1>5. Between /\ od_out' = << >> /\ todo' = t
  BY DEF Type0Frame
<1> HIDE DEF t
<1>6. t \o << >> = t
  BY <1>3
<1>7. todo' = Triggers(TimingEvent(c)) \o OdCalls(<<b>>) \o Send \o Triggers(<< >>)
  BY <1>4, <1>5, <1>6 DEF t
<1> QED  BY <1>1, <1>2, <1>5, <1>7, FrameMakesCalls

LEMMA CyclicFrameKeeps ==
  ASSUME CallsInv, NEW c, NEW late, NEW bytes,
         bytes \in Seq(Range(bytes)), Len(bytes) = OdLen,
         CyclicFrame(c, late, bytes)
  PROVE  CallsInv'
<1>1. TimingEvent(c) \in Seq(EventCodes) /\ TimingEvent(late) \in Seq(EventCodes)
  BY TimingEventIs
<1>2. /\ Between /\ od_out' = << >>
      /\ todo' = Triggers(TimingEvent(c)) \o OdCalls(bytes) \o Send \o
                   Triggers(TimingEvent(late))
  BY DEF CyclicFrame
<1> QED  BY <1>1, <1>2, FrameMakesCalls

LEMMA FrameKeeps ==
  ASSUME CallsInv, Frame
  PROVE  CallsInv'
<1> DEFINE bytes == [i \in 1..OdLen |-> OdByte(pos + i - 1)]
           S     == {OdByte(pos + i - 1) : i \in 1..OdLen}
<1>1. bytes \in Seq(Range(bytes)) /\ Len(bytes) = OdLen
  <2>1. OdLen \in Nat
    BY DllConstants
  <2>2. \A i \in 1..OdLen : OdByte(pos + i - 1) \in S
    OBVIOUS
  <2> HIDE DEF S
  <2>3. bytes \in Seq(S) /\ Len(bytes) = OdLen
    BY <2>1, <2>2
  <2> HIDE DEF bytes
  <2> QED  BY <2>3, OwnRange
<1>2. CASE QuietStep(FrameTransition(FALSE))
  BY <1>2, QuietActions
<1>3. CASE Type0Frame(FALSE, OdByte(pos))
  BY <1>3, Type0FrameKeeps
<1>4. CASE CyclicFrame(FALSE, FALSE, bytes)
  BY <1>1, <1>4, CyclicFrameKeeps
<1> QED  BY <1>2, <1>3, <1>4 DEF Frame

(* The invariant depends on the calls, turn and the response only.         *)
LEMMA CallsInvKept ==
  ASSUME CallsInv, UNCHANGED <<todo, od_out, turn>>
  PROVE  CallsInv'
BY DEF CallsInv, NoFrameCalls, FrameCalls

LEMMA DeviceKeepsCalls ==
  ASSUME CallsInv, [MCNext]_all_vars
  PROVE  CallsInv'
<1>1. CASE MasterByte
  BY <1>1, QuietActions DEF MasterByte
<1>2. CASE MasterTransition
  BY <1>2, QuietActions DEF MasterTransition
<1>3. CASE MasterHears
  BY <1>3, CallActions DEF MasterHears
<1>4. CASE MasterAborts
  BY <1>4, CallsInvKept DEF MasterAborts, device_vars, isdu_vars
<1>5. CASE Corrupt
  BY <1>5, QuietActions DEF Corrupt
<1>6. CASE Pause
  BY <1>6, QuietActions DEF Pause
<1>7. CASE AppTriggers
  BY <1>7, CallsInvKept, TriggerTurn DEF AppTriggers, AppEvent
<1>8. CASE Frame
  BY <1>8, FrameKeeps
<1>9. CASE Loop
  BY <1>9, QuietActions, BeginCallKeeps DEF Loop
<1>10. CASE Calls
  BY <1>10, CallActions DEF Calls
<1>11. CASE UNCHANGED all_vars
  BY <1>11, CallsInvKept DEF all_vars, device_vars, isdu_vars
<1> QED
  BY <1>1, <1>2, <1>3, <1>4, <1>5, <1>6, <1>7, <1>8, <1>9, <1>10, <1>11
     DEF MCNext, DeviceStep

(* What the invariant says of the call that comes next.                    *)
LEMMA CallsInvKeepsTurn ==
  ASSUME CallsInv
  PROVE  CallsKeepTurn
<1> SUFFICES ASSUME todo # << >>
             PROVE  /\ todo[1].call \in {"collect", "process"} => turn = "collect"
                    /\ todo[1].call = "get" => turn = "get"
                    /\ todo[1].call = "send" => turn = "collect" /\ Len(od_out) \in {1, OdLen}
  BY DEF CallsKeepTurn
<1>1. Len(todo) \in Nat \ {0} /\ Len(od_out) \in Nat
  BY DEF CallsInv
<1>2. CASE NoFrameCalls
  <2>1. todo[1].call \in {"process", "trigger"} /\ turn = "collect"
    BY <1>1, <1>2 DEF NoFrameCalls
  <2> QED  BY <2>1
<1>3. ASSUME NEW s \in 1..Len(todo), NEW n \in 0..OdLen, FrameCalls(s, n)
      PROVE  /\ todo[1].call \in {"collect", "process"} => turn = "collect"
             /\ todo[1].call = "get" => turn = "get"
             /\ todo[1].call = "send" => turn = "collect" /\ Len(od_out) \in {1, OdLen}
  <2>0. n \in Nat /\ s \in Nat \ {0}
    BY <1>1, DllConstants
  <2>1. /\ Len(od_out) + n \in {1, OdLen} /\ 2 * n <= s
        /\ turn = IF s = 2 * n THEN "get" ELSE "collect"
        /\ todo[1].call = CallAt(1, s, n)
    BY <1>1, <1>3 DEF FrameCalls
  <2>2. todo[1].call = IF s = 1 THEN "send"
                       ELSE IF s = 2 * n THEN "get"
                       ELSE IF s = 2 * n + 1 THEN "collect" ELSE "trigger"
    BY <2>0, <2>1, FirstCall
  <2>3. s = 1 => n = 0
    BY <2>0, <2>1
  <2>4. CASE s = 1
    <3>1. todo[1].call = "send" /\ turn = "collect" /\ Len(od_out) \in {1, OdLen}
      BY <1>1, <2>0, <2>1, <2>2, <2>3, <2>4
    <3> QED  BY <3>1
  <2>5. CASE s # 1 /\ s = 2 * n
    <3>1. todo[1].call = "get" /\ turn = "get"
      BY <2>1, <2>2, <2>5
    <3> QED  BY <3>1
  <2>6. CASE s # 1 /\ s # 2 * n
    <3>1. todo[1].call \in {"collect", "trigger"} /\ turn = "collect"
      BY <2>1, <2>2, <2>6
    <3> QED  BY <3>1
  <2> QED  BY <2>4, <2>5, <2>6
<1> QED  BY <1>2, <1>3 DEF CallsInv

(* dll.c calls iolink_isdu_collect_byte and iolink_isdu_get_response_byte  *)
(* in turn, iolink_isdu_process only between two such pairs, and sends a   *)
(* response only with all of its on-request bytes answered: for one or two *)
(* on-request bytes, any request of the master, and any faults, aborts and *)
(* events in between.                                                      *)
THEOREM DeviceCallsKeepTurn == MCSpec => []CallsKeepTurn
<1>1. MCInit => CallsInv
  <2> SUFFICES ASSUME todo = << >>, od_out = << >>, turn = "collect"
               PROVE  CallsInv
    BY DEF MCInit, DeviceInit, I!Init
  <2>1. << >> \in Seq(Range(<< >>))
    BY OwnRange
  <2> QED  BY <2>1 DEF CallsInv, NoFrameCalls
<1>2. CallsInv /\ [MCNext]_all_vars => CallsInv'
  BY DeviceKeepsCalls
<1>3. CallsInv => CallsKeepTurn
  BY CallsInvKeepsTurn
<1> QED  BY <1>1, <1>2, <1>3, PTL DEF MCSpec

-----------------------------------------------------------------------------
(* From here on the master reads events.  Its request and the engine are   *)
(* two machines that walk over the same bytes.  Taken is the number of     *)
(* bytes of the master's cycle that the engine has collected, and Virtual  *)
(* what the master will have received of an answer once the response at    *)
(* hand is sent.                                                           *)

Codes == AppCodes \cup {CodeOf[n] : n \in EventCodes}

Collect(k) == Call("collect", OdByte(k))

(* The calls of a frame, by the on-request bytes it has still to handle.   *)
TwoLeft(k) ==
  /\ turn = "collect" /\ Len(od_out) = 0
  /\ todo = <<Collect(k), Call("get", 0), Collect(k + 1), Call("get", 0), Call("send", 0)>>
OneAndGet(k) ==
  /\ turn = "get" /\ Len(od_out) = 0
  /\ todo = <<Call("get", 0), Collect(k), Call("get", 0), Call("send", 0)>>
OneLeft(k) ==
  /\ turn = "collect" /\ Len(od_out) \in {0, 1}
  /\ todo = <<Collect(k), Call("get", 0), Call("send", 0)>>
GetLeft ==
  /\ turn = "get" /\ Len(od_out) \in {0, 1}
  /\ todo = <<Call("get", 0), Call("send", 0)>>
SendLeft ==
  /\ turn = "collect" /\ Len(od_out) \in {1, 2}
  /\ todo = <<Call("send", 0)>>

FrameAt(k) == TwoLeft(k) \/ OneAndGet(k) \/ OneLeft(k) \/ GetLeft \/ SendLeft

TriggerCalls == {Call("trigger", n) : n \in EventCodes}

(* No frame: events, or iolink_isdu_process.                               *)
Elsewhere == turn = "collect" /\ (todo \in Seq(TriggerCalls) \/ todo = <<Call("process", 0)>>)

Pending == \E i \in 1..Len(todo) : todo[i].call = "send"

Half == IF turn = "get" THEN 1 ELSE 0
Taken == IF Pending THEN pos + Len(od_out) + Half ELSE pos
Virtual == IF Pending THEN Heard ELSE rx

TodoInv == IF Pending THEN FrameAt(Taken) ELSE Elsewhere

EventSet == [code : Codes, type : {"NOTIFICATION", "WARNING", "ERROR"}]

Headers == [type : {"READ", "WRITE"}, length : Nat, index : Nat, subindex : Nat]

DataInv ==
  /\ pos \in Nat /\ aborts \in Int
  /\ od_out \in Seq(Range(od_out))
  /\ header \in Headers
  /\ is_response_control_sent \in BOOLEAN
  /\ popped \in Seq(Codes) /\ delivered \in Seq(Codes) /\ triggered \in Seq(Codes)
  /\ events \in Seq(EventSet)
  /\ pos < 8 => rx = NoRx

(* A request that is complete is executed before the next frame: the       *)
(* master waits, and iolink_dll_process begins with iolink_isdu_process.   *)
FrameJustDone == pc = "loop" /\ out.frame = "good" /\ frame_index = 0

PcInv ==
  /\ Pending => FrameJustDone
  /\ isdu_state = "SERVICE_EXECUTE" =>
       IF Pending THEN Len(od_out) + Half >= 1
       ELSE FrameJustDone \/ pc = "idle" \/ (pc = "gate" /\ todo = <<Call("process", 0)>>)

-----------------------------------------------------------------------------
(* How far the two sides are *)

ReadOf(n) == header.type = "READ" /\ header.index = n

(* The engine has the bytes of the request that the master has sent.       *)
Requesting ==
  \/ Taken = 1 /\ isdu_state = "HEADER_INITIAL" /\ segment_seq = 0
  \/ /\ Taken = 2 /\ isdu_state = "SEGMENT_COLLECT" /\ next_state = "HEADER_INDEX_HIGH"
     /\ segment_seq = 0 /\ header.type = "READ"
  \/ Taken = 3 /\ isdu_state = "HEADER_INDEX_HIGH" /\ segment_seq = 1 /\ header.type = "READ"
  \/ /\ Taken = 4 /\ isdu_state = "SEGMENT_COLLECT" /\ next_state = "HEADER_INDEX_LOW"
     /\ segment_seq = 1 /\ ReadOf(0)
  \/ Taken = 5 /\ isdu_state = "HEADER_INDEX_LOW" /\ segment_seq = 2 /\ ReadOf(0)
  \/ /\ Taken = 6 /\ isdu_state = "SEGMENT_COLLECT" /\ next_state = "HEADER_SUBINDEX"
     /\ segment_seq = 2 /\ ReadOf(2)
  \/ Taken = 7 /\ isdu_state = "HEADER_SUBINDEX" /\ segment_seq = 3 /\ ReadOf(2)
  \/ /\ Taken \in {8, 9} /\ isdu_state = "SERVICE_EXECUTE" /\ ReadOf(2)
     /\ Pending => pos < 8

(* The bytes of an answer that were given out.                             *)
Given == 2 * response_idx + (IF is_response_control_sent THEN 1 ELSE 0)

TwoByteAnswer == isdu_state = "RESPONSE_READY" /\ response_len = 2 /\ response_idx \in {0, 1}

(* What the master has after g bytes of the answer c.                      *)
RxAt(g, c) ==
  CASE g = 0 -> NoRx
    [] g = 1 -> [on |-> TRUE, want_data |-> TRUE, seq |-> 0, last |-> FALSE, data |-> << >>]
    [] g = 2 -> [on |-> TRUE, want_data |-> FALSE, seq |-> 0, last |-> FALSE,
                 data |-> <<c \div 256>>]
    [] g = 3 -> [on |-> TRUE, want_data |-> TRUE, seq |-> 1, last |-> TRUE,
                 data |-> <<c \div 256>>]
    [] g = 4 -> [on |-> TRUE, want_data |-> FALSE, seq |-> 1, last |-> TRUE,
                 data |-> <<c \div 256, c % 256>>]

(* The engine gives the answer c and the master hears it.                  *)
Answering(c) ==
  /\ pos >= 8
  /\ \/ /\ TwoByteAnswer /\ response_buf = <<c \div 256, c % 256>>
        /\ segment_seq = response_idx
        /\ Virtual = RxAt(Given, c)
        /\ Pending => Given >= Len(od_out)
     \/ isdu_state = "IDLE" /\ Pending /\ Virtual = RxAt(4, c)

(* The master has begun a request over an older one: the engine refuses it *)
(* or misses its start, and has given out its answer before the master     *)
(* listens.                                                                *)
OutOfStep ==
  \/ /\ Taken = 0
     /\ isdu_state \in {"IDLE", "HEADER_INITIAL", "HEADER_INDEX_HIGH", "HEADER_INDEX_LOW",
                        "HEADER_SUBINDEX", "SEGMENT_COLLECT", "SERVICE_EXECUTE",
                        "RESPONSE_READY"}
     /\ isdu_state \in {"HEADER_SUBINDEX", "SERVICE_EXECUTE"} => ReadOf(2)
  \/ Taken = 1 /\ isdu_state = "SEGMENT_COLLECT"
  \/ Taken = 1 /\ TwoByteAnswer /\ Given + Half <= 1
  \/ /\ Taken \in {1, 2} /\ isdu_state = "SERVICE_EXECUTE" /\ ReadOf(2)
     /\ Pending => pos = 0
  \/ Taken = 2 /\ isdu_state = "HEADER_INITIAL" /\ ~is_response_control_sent
  \/ Taken >= 2 /\ TwoByteAnswer /\ Given + Half \in {Taken - 2, Taken - 1}
  \/ Taken >= 3 /\ isdu_state = "IDLE"

-----------------------------------------------------------------------------
(* The events that were read and not received *)

Lost == Len(popped) - Len(delivered)
Aborted == MaxAborts - aborts

(* A request that was given up and is executed all the same.               *)
Stale == IF isdu_state \in {"HEADER_SUBINDEX", "SERVICE_EXECUTE"} THEN 1 ELSE 0

InStep(c) ==
  \/ c = 0 /\ Virtual = NoRx /\ Requesting /\ Lost <= Aborted
  \/ Answering(c) /\ Lost <= Aborted + (IF c = 0 THEN 0 ELSE 1)
  \/ c = 0 /\ Virtual = NoRx /\ OutOfStep /\ Lost + Stale <= Aborted

(* The events that left the queue, read or dropped.                        *)
Past == Len(triggered) - Len(events)

(* The queue q holds the last events of t.                                 *)
Matches(q, t) ==
  /\ Len(q) <= Len(t)
  /\ \A i \in 1..Len(q) : q[i].code = t[Len(t) - Len(q) + i]

(* The events that were received are triggered[d[1]], triggered[d[2]], ... *)
InOrder(d, c) ==
  /\ d \in [1..Len(delivered) -> 1..Past]
  /\ \A i \in 1..Len(delivered) : delivered[i] = triggered[d[i]]
  /\ \A i, j \in 1..Len(delivered) : i < j => d[i] < d[j]
  /\ c # 0 => \E q \in 1..Past : triggered[q] = c /\ \A i \in 1..Len(delivered) : d[i] < q

QueueInv == Matches(events, triggered)

Ordered(c) == \E d \in [1..Len(delivered) -> 1..Past] : InOrder(d, c)

DeliveryInv ==
  /\ DataInv /\ TodoInv /\ PcInv /\ QueueInv
  /\ \E c \in {0} \cup Codes : InStep(c) /\ Ordered(c)

-----------------------------------------------------------------------------
(* What the invariant says of the calls, by the first of them.             *)

LEMMA FrameIsPending ==
  ASSUME NEW k, FrameAt(k)
  PROVE  Pending
<1>1. CASE TwoLeft(k)
  <2>1. Len(todo) = 5 /\ todo[5].call = "send"
    BY <1>1 DEF TwoLeft, Call
  <2> QED  BY <2>1 DEF Pending
<1>2. CASE OneAndGet(k)
  <2>1. Len(todo) = 4 /\ todo[4].call = "send"
    BY <1>2 DEF OneAndGet, Call
  <2> QED  BY <2>1 DEF Pending
<1>3. CASE OneLeft(k)
  <2>1. Len(todo) = 3 /\ todo[3].call = "send"
    BY <1>3 DEF OneLeft, Call
  <2> QED  BY <2>1 DEF Pending
<1>4. CASE GetLeft
  <2>1. Len(todo) = 2 /\ todo[2].call = "send"
    BY <1>4 DEF GetLeft, Call
  <2> QED  BY <2>1 DEF Pending
<1>5. CASE SendLeft
  <2>1. Len(todo) = 1 /\ todo[1].call = "send"
    BY <1>5 DEF SendLeft, Call
  <2> QED  BY <2>1 DEF Pending
<1> QED  BY <1>1, <1>2, <1>3, <1>4, <1>5 DEF FrameAt

LEMMA FiveCalls ==
  ASSUME NEW t, NEW a, NEW b, NEW c, NEW d, NEW e, t = <<a, b, c, d, e>>
  PROVE  t[1] = a /\ Tail(t) = <<b, c, d, e>>
OBVIOUS

(* The first call and the others.                                          *)
LEMMA FrameParts ==
  ASSUME NEW k
  PROVE  /\ TwoLeft(k) => /\ todo[1] = Collect(k)
                          /\ Tail(todo) = <<Call("get", 0), Collect(k + 1), Call("get", 0),
                                            Call("send", 0)>>
         /\ OneAndGet(k) => /\ todo[1] = Call("get", 0)
                            /\ Tail(todo) = <<Collect(k), Call("get", 0), Call("send", 0)>>
         /\ OneLeft(k) => /\ todo[1] = Collect(k)
                          /\ Tail(todo) = <<Call("get", 0), Call("send", 0)>>
         /\ GetLeft => todo[1] = Call("get", 0) /\ Tail(todo) = <<Call("send", 0)>>
         /\ SendLeft => todo[1] = Call("send", 0) /\ Tail(todo) = << >>
<1>1. TwoLeft(k) => /\ todo[1] = Collect(k)
                    /\ Tail(todo) = <<Call("get", 0), Collect(k + 1), Call("get", 0),
                                      Call("send", 0)>>
  <2>1. PICK a, b, c, d : a = Collect(k) /\ b = Collect(k + 1) /\ c = Call("get", 0) /\ d = Call("send", 0)
    OBVIOUS
  <2>2. TwoLeft(k) => todo = <<a, c, b, c, d>>
    BY <2>1 DEF TwoLeft
  <2>3. todo = <<a, c, b, c, d>> => todo[1] = a /\ Tail(todo) = <<c, b, c, d>>
    BY FiveCalls
  <2> QED  BY <2>1, <2>2, <2>3
<1>2. OneAndGet(k) => /\ todo[1] = Call("get", 0)
                      /\ Tail(todo) = <<Collect(k), Call("get", 0), Call("send", 0)>>
  BY DEF OneAndGet
<1>3. OneLeft(k) => /\ todo[1] = Collect(k)
                    /\ Tail(todo) = <<Call("get", 0), Call("send", 0)>>
  BY DEF OneLeft
<1>4. GetLeft => todo[1] = Call("get", 0) /\ Tail(todo) = <<Call("send", 0)>>
  BY DEF GetLeft
<1>5. SendLeft => todo[1] = Call("send", 0) /\ Tail(todo) = << >>
  BY DEF SendLeft
<1> QED  BY <1>1, <1>2, <1>3, <1>4, <1>5

LEMMA CallFields ==
  \A n, a : Call(n, a).call = n /\ Call(n, a).arg = a
BY DEF Call

LEMMA FrameTurn ==
  ASSUME TodoInv, NEW n \in {"collect", "get", "send"}, Next1(n)
  PROVE  /\ Pending
         /\ n = "collect" => TwoLeft(Taken) \/ OneLeft(Taken)
         /\ n = "get" => OneAndGet(Taken) \/ GetLeft
         /\ n = "send" => SendLeft
<1>1. Pending
  BY DEF TodoInv, Elsewhere, TriggerCalls, Call, Next1
<1>2. FrameAt(Taken) /\ todo[1].call = n
  BY <1>1 DEF TodoInv, Next1
<1>3. PICK k : k = Taken
  OBVIOUS
<1>4. /\ TwoLeft(k) \/ OneLeft(k) => todo[1].call = "collect"
      /\ OneAndGet(k) \/ GetLeft => todo[1].call = "get"
      /\ SendLeft => todo[1].call = "send"
  BY FrameParts, CallFields DEF Collect
<1> QED  BY <1>1, <1>2, <1>3, <1>4 DEF FrameAt

LEMMA CollectTodo ==
  ASSUME DataInv, TodoInv, Next1("collect"), turn' = "get", UNCHANGED <<od_out, pos>>
  PROVE  /\ Pending /\ Pending' /\ turn = "collect" /\ Len(od_out) \in {0, 1}
         /\ todo[1].arg = OdByte(Taken) /\ Taken' = Taken + 1 /\ TodoInv'
         /\ Half = 0 /\ Half' = 1
<1>0. Len(od_out) \in Nat /\ pos \in Nat
  BY DEF DataInv
<1>1. Pending /\ (TwoLeft(Taken) \/ OneLeft(Taken))
  BY FrameTurn
<1>2. turn = "collect" /\ Len(od_out) \in {0, 1}
  BY <1>1 DEF TwoLeft, OneLeft
<1>3. PICK k \in Nat : k = Taken /\ k = pos + Len(od_out)
  BY <1>0, <1>1, <1>2 DEF Taken, Half
<1>4. todo[1].arg = OdByte(k)
  BY <1>1, <1>3, FrameParts, CallFields DEF Collect
<1>5. (Collect(k + 1))' = Collect(k + 1)
  BY DEF Collect, OdByte
<1>6. OneAndGet(k + 1)' \/ GetLeft'
  <2>1. todo' = Tail(todo)
    BY DEF Next1
  <2>2. CASE TwoLeft(k)
    <3>1. todo' = <<Call("get", 0), Collect(k + 1), Call("get", 0), Call("send", 0)>>
      BY <2>1, <2>2, FrameParts
    <3> QED  BY <1>5, <2>2, <3>1 DEF OneAndGet, TwoLeft
  <2>3. CASE OneLeft(k)
    <3>1. todo' = <<Call("get", 0), Call("send", 0)>>
      BY <2>1, <2>3, FrameParts
    <3> QED  BY <2>3, <3>1 DEF GetLeft, OneLeft
  <2> QED  BY <1>1, <1>3, <2>2, <2>3
<1>7. FrameAt(k + 1)'
  BY <1>6 DEF FrameAt
<1>8. Pending'
  <2>1. CASE OneAndGet(k + 1)'
    <3>1. Len(todo') = 4 /\ todo'[4].call = "send"
      BY <2>1 DEF OneAndGet, Call
    <3> QED  BY <3>1 DEF Pending
  <2>2. CASE GetLeft'
    <3>1. Len(todo') = 2 /\ todo'[2].call = "send"
      BY <2>2 DEF GetLeft, Call
    <3> QED  BY <3>1 DEF Pending
  <2> QED  BY <1>6, <2>1, <2>2
<1>9. Taken' = k + 1
  BY <1>0, <1>3, <1>8 DEF Taken, Half
<1> QED  BY <1>1, <1>2, <1>3, <1>4, <1>7, <1>8, <1>9 DEF TodoInv, Half

LEMMA GetTodo ==
  ASSUME DataInv, TodoInv, Next1("get"), turn' = "collect", UNCHANGED pos,
         NEW x, od_out' = Append(od_out, x)
  PROVE  /\ Pending /\ Pending' /\ turn = "get" /\ Len(od_out) \in {0, 1}
         /\ Len(od_out') = Len(od_out) + 1
         /\ Taken' = Taken /\ Taken = pos + Len(od_out) + 1 /\ TodoInv'
         /\ Half = 1 /\ Half' = 0
<1>0. Len(od_out) \in Nat /\ pos \in Nat /\ Len(od_out') = Len(od_out) + 1
  BY DEF DataInv
<1>1. Pending /\ (OneAndGet(Taken) \/ GetLeft)
  BY FrameTurn
<1>2. turn = "get" /\ Len(od_out) \in {0, 1}
  BY <1>1 DEF OneAndGet, GetLeft
<1>3. PICK k \in Nat : k = Taken /\ k = pos + Len(od_out) + 1
  BY <1>0, <1>1, <1>2 DEF Taken, Half
<1>5. (Collect(k))' = Collect(k)
  BY DEF Collect, OdByte
<1>6. OneLeft(k)' \/ SendLeft'
  <2>1. todo' = Tail(todo)
    BY DEF Next1
  <2>2. CASE OneAndGet(k)
    <3>1. todo' = <<Collect(k), Call("get", 0), Call("send", 0)>>
      BY <2>1, <2>2, FrameParts
    <3>2. Len(od_out') = 1
      BY <1>0, <2>2 DEF OneAndGet
    <3> QED  BY <1>5, <3>1, <3>2 DEF OneLeft
  <2>3. CASE GetLeft
    <3>1. todo' = <<Call("send", 0)>>
      BY <2>1, <2>3, FrameParts
    <3>2. Len(od_out') \in {1, 2}
      <4>1. Len(od_out) = 0 => Len(od_out') = 1
        BY <1>0
      <4>2. Len(od_out) = 1 => Len(od_out') = 2
        BY <1>0
      <4> QED  BY <1>2, <4>1, <4>2
    <3> QED  BY <3>1, <3>2 DEF SendLeft
  <2> QED  BY <1>1, <1>3, <2>2, <2>3
<1>7. FrameAt(k)'
  BY <1>6 DEF FrameAt
<1>8. Pending'
  <2>1. CASE OneLeft(k)'
    <3>1. Len(todo') = 3 /\ todo'[3].call = "send"
      BY <2>1 DEF OneLeft, Call
    <3> QED  BY <3>1 DEF Pending
  <2>2. CASE SendLeft'
    <3>1. Len(todo') = 1 /\ todo'[1].call = "send"
      BY <2>2 DEF SendLeft, Call
    <3> QED  BY <3>1 DEF Pending
  <2> QED  BY <1>6, <2>1, <2>2
<1>9. Taken' = k
  BY <1>0, <1>3, <1>8 DEF Taken, Half
<1> QED  BY <1>0, <1>1, <1>2, <1>3, <1>7, <1>8, <1>9 DEF TodoInv, Half

LEMMA SendTodo ==
  ASSUME DataInv, TodoInv, Next1("send"), UNCHANGED turn
  PROVE  /\ Pending /\ ~Pending' /\ turn = "collect" /\ Len(od_out) \in {1, 2}
         /\ Taken = pos + Len(od_out) /\ Taken' = pos' /\ TodoInv'
         /\ Half = 0 /\ Half' = 0 /\ todo' = << >>
<1>0. Len(od_out) \in Nat /\ pos \in Nat
  BY DEF DataInv
<1>1. Pending /\ SendLeft
  BY FrameTurn
<1>2. todo' = << >>
  BY <1>1, FrameParts DEF Next1
<1>3. turn = "collect" /\ Len(od_out) \in {1, 2}
  BY <1>1 DEF SendLeft
<1>4. ~Pending'
  BY <1>2 DEF Pending
<1>5. Elsewhere'
  <2>1. << >> \in Seq(TriggerCalls)
    OBVIOUS
  <2> QED  BY <1>2, <1>3, <2>1 DEF Elsewhere, TriggerCalls
<1>6. Taken = pos + Len(od_out) /\ Taken' = pos'
  BY <1>0, <1>1, <1>3, <1>4 DEF Taken, Half
<1> QED  BY <1>1, <1>2, <1>3, <1>4, <1>5, <1>6 DEF TodoInv, Half

LEMMA NoneIsPending ==
  ASSUME NEW t \in Seq(TriggerCalls)
  PROVE  ~ \E i \in 1..Len(t) : t[i].call = "send"
BY DEF TriggerCalls, Call

LEMMA NotAFrame ==
  ASSUME TodoInv, Next1("trigger") \/ Next1("process")
  PROVE  ~Pending
<1> SUFFICES ASSUME FrameAt(Taken) PROVE FALSE
  BY DEF TodoInv
<1>1. PICK k : k = Taken
  OBVIOUS
<1>2. todo[1].call \in {"collect", "get", "send"}
  BY <1>1, FrameParts, CallFields DEF FrameAt, Collect
<1> QED  BY <1>2 DEF Next1

LEMMA TriggerTodo ==
  ASSUME TodoInv, Next1("trigger"), UNCHANGED turn
  PROVE  ~Pending /\ ~Pending' /\ TodoInv' /\ todo[1].arg \in EventCodes
<1>1. ~Pending
  BY NotAFrame
<1>2. todo \in Seq(TriggerCalls) /\ turn = "collect"
  BY <1>1 DEF TodoInv, Elsewhere, Call, Next1
<1>3. todo' \in Seq(TriggerCalls) /\ todo[1] \in TriggerCalls
  BY <1>2 DEF Next1
<1>4. ~Pending'
  BY <1>3, NoneIsPending DEF Pending
<1>5. todo[1].arg \in EventCodes
  BY <1>3 DEF TriggerCalls, Call
<1>6. TriggerCalls' = TriggerCalls
  BY DEF TriggerCalls
<1> QED  BY <1>1, <1>2, <1>3, <1>4, <1>5, <1>6 DEF TodoInv, Elsewhere

LEMMA ProcessTodo ==
  ASSUME TodoInv, Next1("process"), UNCHANGED turn
  PROVE  /\ ~Pending /\ ~Pending' /\ TodoInv' /\ todo = <<Call("process", 0)>>
         /\ todo' = << >>
<1>1. ~Pending
  BY NotAFrame
<1>2. turn = "collect" /\ todo = <<Call("process", 0)>>
  BY <1>1 DEF TodoInv, Elsewhere, Call, Next1, TriggerCalls
<1>3. todo' = << >>
  BY <1>2 DEF Next1
<1>4. ~Pending' /\ todo' \in Seq(TriggerCalls')
  BY <1>3 DEF Pending
<1> QED  BY <1>1, <1>2, <1>3, <1>4 DEF TodoInv, Elsewhere

LEMMA NoTodo ==
  ASSUME TodoInv, todo = << >>
  PROVE  ~Pending /\ turn = "collect"
BY DEF TodoInv, Elsewhere, Pending

(* A step that leaves only events, or iolink_isdu_process, to do.          *)
LEMMA NewTodo ==
  ASSUME TodoInv, todo = << >>, UNCHANGED turn,
         todo' \in Seq(TriggerCalls) \/ todo' = <<Call("process", 0)>>
  PROVE  ~Pending /\ ~Pending' /\ TodoInv'
<1>1. ~Pending /\ turn' = "collect"
  BY NoTodo
<1>2. ~Pending'
  BY NoneIsPending DEF Pending, Call
<1>3. TriggerCalls' = TriggerCalls
  BY DEF TriggerCalls
<1> QED  BY <1>1, <1>2, <1>3 DEF TodoInv, Elsewhere

-----------------------------------------------------------------------------
(* The bytes of the read request.                                          *)
LEMMA RequestBytes ==
  ASSUME Request = ReadEvent
  PROVE  /\ Len(Request) = 8
         /\ OdByte(0) = 128 /\ OdByte(1) = 128 /\ OdByte(2) = 1 /\ OdByte(3) = 0
         /\ OdByte(4) = 2 /\ OdByte(5) = 2 /\ OdByte(6) = 67 /\ OdByte(7) = 0
         /\ \A k \in Nat : k >= 8 => OdByte(k) = 0
<1>1. Len(Request) = 8
  BY DEF ReadEvent
<1>2. /\ Request[1] = 128 /\ Request[2] = 128 /\ Request[3] = 1 /\ Request[4] = 0
      /\ Request[5] = 2 /\ Request[6] = 2 /\ Request[7] = 67 /\ Request[8] = 0
  BY DEF ReadEvent
<1>3. \A k \in Nat : k >= 8 => OdByte(k) = 0
  BY <1>1 DEF OdByte
<1> QED  BY <1>1, <1>2, <1>3 DEF OdByte

(* Only the first two bytes have the START bit.                            *)
LEMMA LaterBytes ==
  ASSUME Request = ReadEvent, NEW k \in Nat, k >= 2
  PROVE  OdByte(k) \in Nat /\ OdByte(k) < 128
<1>1. k = 2 \/ k = 3 \/ k = 4 \/ k = 5 \/ k = 6 \/ k = 7 \/ k >= 8
  OBVIOUS
<1> QED  BY <1>1, RequestBytes

-----------------------------------------------------------------------------
(* iolink_isdu_collect_byte, by the state of the engine *)

EngineSame == UNCHANGED <<isdu_state, next_state, segment_seq, header, response_buf,
                          response_len, response_idx, is_response_control_sent>>

(* A refused request: an answer of two bytes from its start.               *)
Refused == isdu_state' = "RESPONSE_READY" /\ response_len' = 2 /\ response_idx' = 0

LEMMA CollectIgnored ==
  ASSUME NEW b \in Nat, I!collect_byte(b),
         \/ isdu_state = "SERVICE_EXECUTE"
         \/ isdu_state \in {"IDLE", "RESPONSE_READY"} /\ b < 128
  PROVE  EngineSame /\ UNCHANGED events
<1>1. I!IgnoreByte(b)
  BY DEF I!collect_byte, I!StartRequest, I!Collision, I!SequenceError, I!NextSegment,
         I!HeaderInitial, I!BadService, I!HeaderByte, I!DataByte, I!Start
<1> QED  BY <1>1 DEF I!IgnoreByte, I!Collected, I!request, I!response, EngineSame

LEMMA CollectStart ==
  ASSUME NEW b \in Nat, I!collect_byte(b), b >= 128,
         isdu_state \in {"IDLE", "RESPONSE_READY"}
  PROVE  /\ isdu_state' = "HEADER_INITIAL" /\ segment_seq' = b % 64
         /\ ~is_response_control_sent' /\ UNCHANGED <<header, events>>
<1>1. I!StartRequest(b)
  BY DEF I!collect_byte, I!IgnoreByte, I!Collision, I!SequenceError, I!NextSegment,
         I!HeaderInitial, I!BadService, I!HeaderByte, I!DataByte, I!Start
<1> QED  BY <1>1 DEF I!StartRequest, I!Collected, I!SeqOf

LEMMA CollectCollides ==
  ASSUME NEW b \in Nat, I!collect_byte(b), b >= 128, isdu_state = "SEGMENT_COLLECT"
  PROVE  Refused /\ ~is_response_control_sent' /\ UNCHANGED <<header, events>>
<1>1. I!Collision(b)
  BY DEF I!collect_byte, I!StartRequest, I!IgnoreByte, I!SequenceError, I!NextSegment,
         I!HeaderInitial, I!BadService, I!HeaderByte, I!DataByte, I!Start
<1> QED  BY <1>1 DEF I!Collision, I!Collected, I!ErrorResponse, I!request, Refused

LEMMA CollectSegment ==
  ASSUME NEW b \in Nat, I!collect_byte(b), b < 128, isdu_state = "SEGMENT_COLLECT",
         b % 64 = (segment_seq + 1) % 64
  PROVE  isdu_state' = next_state /\ segment_seq' = b % 64 /\ UNCHANGED <<header, events>>
<1>1. I!NextSegment(b)
  BY DEF I!collect_byte, I!StartRequest, I!IgnoreByte, I!Collision, I!SequenceError,
         I!HeaderInitial, I!BadService, I!HeaderByte, I!DataByte, I!Start, I!SeqOf, I!NextSeq
<1> QED  BY <1>1 DEF I!NextSegment, I!Collected, I!request, I!SeqOf

LEMMA CollectService ==
  ASSUME NEW b \in Nat, I!collect_byte(b), isdu_state = "HEADER_INITIAL", b \div 16 = 8
  PROVE  /\ isdu_state' = "SEGMENT_COLLECT" /\ next_state' = "HEADER_INDEX_HIGH"
         /\ header' = [header EXCEPT !.type = "READ", !.length = 0]
         /\ UNCHANGED <<segment_seq, events>>
<1>1. I!HeaderInitial(b)
  BY DEF I!collect_byte, I!StartRequest, I!IgnoreByte, I!Collision, I!SequenceError,
         I!NextSegment, I!BadService, I!HeaderByte, I!DataByte
<1>2. b \div 16 # 9
  OBVIOUS
<1>3. isdu_state' = "SEGMENT_COLLECT" /\ UNCHANGED <<segment_seq, events>>
  BY <1>1 DEF I!HeaderInitial, I!Collected
<1>4. next_state' = "HEADER_INDEX_HIGH"
  BY <1>1, <1>2, Zenon DEF I!HeaderInitial
<1>5. header' = [header EXCEPT !.type = "READ", !.length = 0]
  BY <1>1, <1>2, Zenon DEF I!HeaderInitial
<1> QED  BY <1>3, <1>4, <1>5

LEMMA CollectBadService ==
  ASSUME NEW b \in Nat, I!collect_byte(b), isdu_state = "HEADER_INITIAL", b < 128
  PROVE  Refused /\ UNCHANGED <<is_response_control_sent, header, events>>
<1>1. b \div 16 \notin {8, 9}
  OBVIOUS
<1>2. I!BadService(b)
  BY <1>1 DEF I!collect_byte, I!StartRequest, I!IgnoreByte, I!Collision, I!SequenceError,
         I!NextSegment, I!HeaderInitial, I!HeaderByte, I!DataByte
<1> QED  BY <1>2 DEF I!BadService, I!Collected, I!ErrorResponse, I!request, Refused

LEMMA CollectHeader ==
  ASSUME NEW b \in Nat, I!collect_byte(b)
  PROVE  /\ isdu_state = "HEADER_INDEX_HIGH" =>
              /\ isdu_state' = "SEGMENT_COLLECT" /\ next_state' = "HEADER_INDEX_LOW"
              /\ header' = [header EXCEPT !.index = 256 * b]
              /\ UNCHANGED <<segment_seq, events>>
         /\ isdu_state = "HEADER_INDEX_LOW" =>
              /\ isdu_state' = "SEGMENT_COLLECT" /\ next_state' = "HEADER_SUBINDEX"
              /\ header' = [header EXCEPT !.index = header.index + b]
              /\ UNCHANGED <<segment_seq, events>>
         /\ isdu_state = "HEADER_SUBINDEX" /\ header.type = "READ" =>
              /\ isdu_state' = "SERVICE_EXECUTE"
              /\ header' = [header EXCEPT !.subindex = b]
              /\ UNCHANGED events
<1>1. isdu_state \in {"HEADER_INDEX_HIGH", "HEADER_INDEX_LOW", "HEADER_SUBINDEX"} =>
        I!HeaderByte(b)
  BY DEF I!collect_byte, I!StartRequest, I!IgnoreByte, I!Collision, I!SequenceError,
         I!NextSegment, I!HeaderInitial, I!BadService, I!DataByte
<1> QED  BY <1>1 DEF I!HeaderByte, I!Collected

-----------------------------------------------------------------------------
(* iolink_isdu_get_response_byte, and what the master makes of the byte *)

LEMMA GetNothing ==
  ASSUME I!get_response_byte, isdu_state # "RESPONSE_READY"
  PROVE  EngineSame /\ tx' = << >> /\ UNCHANGED events
<1>1. I!NoResponse
  BY DEF I!get_response_byte, I!ResponseControl, I!ResponseData, I!ResponseEmpty
<1> QED  BY <1>1 DEF I!NoResponse, I!Gotten, I!request, EngineSame

LEMMA GetKeepsRest ==
  ASSUME I!get_response_byte
  PROVE  UNCHANGED <<next_state, header, response_buf, response_len, events>>
BY DEF I!get_response_byte, I!NoResponse, I!ResponseControl, I!ResponseData,
       I!ResponseEmpty, I!Gotten, I!request

LEMMA GetTypes ==
  ASSUME I!get_response_byte, is_response_control_sent \in BOOLEAN
  PROVE  is_response_control_sent' \in BOOLEAN
BY DEF I!get_response_byte, I!NoResponse, I!ResponseControl, I!ResponseData,
       I!ResponseEmpty

LEMMA GetControl ==
  ASSUME I!get_response_byte, TwoByteAnswer, ~is_response_control_sent
  PROVE  /\ response_idx = 0 => tx' = <<128 + 0 + segment_seq>>
         /\ response_idx = 1 => tx' = <<0 + 64 + segment_seq>>
         /\ is_response_control_sent'
         /\ UNCHANGED <<isdu_state, segment_seq, response_idx>>
<1>1. I!ResponseControl
  BY DEF I!get_response_byte, I!NoResponse, I!ResponseData, I!ResponseEmpty, TwoByteAnswer
<1>2. response_idx = 0 => tx' = <<128 + 0 + segment_seq>>
  BY <1>1 DEF I!ResponseControl, TwoByteAnswer
<1>3. response_idx = 1 => tx' = <<0 + 64 + segment_seq>>
  BY <1>1 DEF I!ResponseControl, TwoByteAnswer
<1> QED  BY <1>1, <1>2, <1>3 DEF I!ResponseControl

LEMMA GetData ==
  ASSUME I!get_response_byte, TwoByteAnswer, is_response_control_sent
  PROVE  /\ tx' = <<response_buf[response_idx + 1]>> /\ response_idx' = response_idx + 1
         /\ response_idx = 0 => /\ isdu_state' = "RESPONSE_READY"
                                /\ segment_seq' = (segment_seq + 1) % 64
                                /\ ~is_response_control_sent'
         /\ response_idx = 1 => isdu_state' = "IDLE"
<1>0. ~(response_idx >= response_len) /\ isdu_state = "RESPONSE_READY"
  BY DEF TwoByteAnswer
<1>1. I!ResponseData
  BY <1>0, Zenon DEF I!get_response_byte, I!NoResponse, I!ResponseControl, I!ResponseEmpty
<1>2. response_idx = 0 => /\ isdu_state' = "RESPONSE_READY"
                          /\ segment_seq' = (segment_seq + 1) % 64
                          /\ ~is_response_control_sent'
  BY <1>1 DEF I!ResponseData, TwoByteAnswer, I!NextSeq
<1>3. response_idx = 1 => isdu_state' = "IDLE"
  BY <1>1 DEF I!ResponseData, TwoByteAnswer
<1>4. tx' = <<response_buf[response_idx + 1]>> /\ response_idx' = response_idx + 1
  BY <1>1 DEF I!ResponseData
<1> QED  BY <1>2, <1>3, <1>4

(* Hear, case by case.                                                     *)
LEMMA HearData ==
  ASSUME NEW r, NEW b, r.want_data = TRUE
  PROVE  Hear(r, b) = [r EXCEPT !.want_data = FALSE, !.data = Append(@, b)]
BY Zenon DEF Hear

LEMMA HearEnd ==
  ASSUME NEW r, NEW b, r.want_data = FALSE, r.last = TRUE
  PROVE  Hear(r, b) = r
BY Zenon DEF Hear

LEMMA HearFirst ==
  ASSUME NEW r, NEW b \in Nat, b >= 128, r.want_data = FALSE, r.last = FALSE
  PROVE  Hear(r, b) = [on |-> TRUE, want_data |-> TRUE, seq |-> b % 64,
                       last |-> (b \div 64) % 2 = 1, data |-> << >>]
<1>1. ~(b < 128)
  OBVIOUS
<1> QED  BY <1>1, Zenon DEF Hear

(* The five stages of an answer of two bytes.                              *)
LEMMA RxIs ==
  ASSUME NEW c
  PROVE  /\ RxAt(0, c) = NoRx
         /\ RxAt(1, c) = [on |-> TRUE, want_data |-> TRUE, seq |-> 0, last |-> FALSE,
                          data |-> << >>]
         /\ RxAt(2, c) = [on |-> TRUE, want_data |-> FALSE, seq |-> 0, last |-> FALSE,
                          data |-> <<c \div 256>>]
         /\ RxAt(3, c) = [on |-> TRUE, want_data |-> TRUE, seq |-> 1, last |-> TRUE,
                          data |-> <<c \div 256>>]
         /\ RxAt(4, c) = [on |-> TRUE, want_data |-> FALSE, seq |-> 1, last |-> TRUE,
                          data |-> <<c \div 256, c % 256>>]
BY DEF RxAt

LEMMA HearSteps ==
  ASSUME NEW c
  PROVE  /\ Hear(NoRx, 0) = NoRx
         /\ Hear(RxAt(0, c), 128) = RxAt(1, c)
         /\ Hear(RxAt(1, c), c \div 256) = RxAt(2, c)
         /\ Hear(RxAt(2, c), 65) = RxAt(3, c)
         /\ Hear(RxAt(3, c), c % 256) = RxAt(4, c)
         /\ Hear(RxAt(4, c), 0) = RxAt(4, c)
<1> DEFINE hi == c \div 256
           lo == c % 256
<1>10. RxAt(0, c) = NoRx
  BY DEF RxAt
<1>11. RxAt(1, c) = [on |-> TRUE, want_data |-> TRUE, seq |-> 0, last |-> FALSE, data |-> << >>]
  BY DEF RxAt
<1>12. RxAt(2, c) = [on |-> TRUE, want_data |-> FALSE, seq |-> 0, last |-> FALSE, data |-> <<hi>>]
  BY DEF RxAt
<1>13. RxAt(3, c) = [on |-> TRUE, want_data |-> TRUE, seq |-> 1, last |-> TRUE, data |-> <<hi>>]
  BY DEF RxAt
<1>14. RxAt(4, c) = [on |-> TRUE, want_data |-> FALSE, seq |-> 1, last |-> TRUE, data |-> <<hi, lo>>]
  BY DEF RxAt
<1>15. hi = c \div 256 /\ lo = c % 256
  OBVIOUS
<1> HIDE DEF hi, lo
<1>1. Hear(NoRx, 0) = NoRx
  BY DEF Hear, NoRx
<1>2. Hear(RxAt(0, c), 128) = RxAt(1, c)
  <2>1. 128 % 64 = 0 /\ ~((128 \div 64) % 2 = 1)
    OBVIOUS
  <2>2. ((128 \div 64) % 2 = 1) = FALSE
    BY <2>1, Zenon
  <2>3. NoRx.want_data = FALSE /\ NoRx.last = FALSE
    BY DEF NoRx
  <2>4. Hear(NoRx, 128) = [on |-> TRUE, want_data |-> TRUE, seq |-> 128 % 64,
                           last |-> (128 \div 64) % 2 = 1, data |-> << >>]
    <3>1. 128 \in Nat /\ 128 >= 128
      OBVIOUS
    <3> QED  BY <2>3, <3>1, HearFirst, Zenon
  <2>5. Hear(NoRx, 128) = [on |-> TRUE, want_data |-> TRUE, seq |-> 0,
                           last |-> FALSE, data |-> << >>]
    BY <2>1, <2>2, <2>4, Zenon
  <2> QED  BY <1>10, <1>11, <2>5, Zenon
<1>3. Hear(RxAt(1, c), c \div 256) = RxAt(2, c)
  <2>1. PICK r : r = RxAt(1, c)
    OBVIOUS
  <2>2. PICK h : h = c \div 256
    OBVIOUS
  <2>3. r = [on |-> TRUE, want_data |-> TRUE, seq |-> 0, last |-> FALSE, data |-> << >>]
    BY <1>11, <2>1, Zenon
  <2>4. Hear(r, h) = [r EXCEPT !.want_data = FALSE, !.data = Append(@, h)]
    BY <2>3, HearData
  <2>5. Append(<< >>, h) = <<h>>
    OBVIOUS
  <2>6. Hear(r, h) = [on |-> TRUE, want_data |-> FALSE, seq |-> 0, last |-> FALSE, data |-> <<h>>]
    BY <2>3, <2>4, <2>5
  <2>7. RxAt(2, c) = [on |-> TRUE, want_data |-> FALSE, seq |-> 0, last |-> FALSE, data |-> <<h>>]
    BY <1>12, <1>15, <2>2, Zenon
  <2> QED  BY <2>1, <2>2, <2>6, <2>7, Zenon
<1>4. Hear(RxAt(2, c), 65) = RxAt(3, c)
  <2>1. 65 % 64 = 1 /\ (65 \div 64) % 2 = 1 /\ (0 + 1) % 64 = 1
    OBVIOUS
  <2>2. ((65 \div 64) % 2 = 1) = TRUE
    BY <2>1, Zenon
  <2>3. PICK r : r = RxAt(2, c)
    OBVIOUS
  <2>4. PICK h : h = c \div 256
    OBVIOUS
  <2>5. r = [on |-> TRUE, want_data |-> FALSE, seq |-> 0, last |-> FALSE, data |-> <<h>>]
    BY <1>12, <1>15, <2>3, <2>4, Zenon
  <2>6. Hear(r, 65) = [r EXCEPT !.want_data = TRUE, !.seq = 65 % 64,
                                !.last = (65 \div 64) % 2 = 1]
    <3>1. r.want_data = FALSE /\ r.last = FALSE /\ r.on = TRUE /\ r.seq = 0
      BY <2>5
    <3>2. 65 % 64 = (r.seq + 1) % 64
      BY <2>1, <3>1
    <3>3. PICK b \in Nat : b = 65 /\ b < 128
      OBVIOUS
    <3>4. b % 64 = (r.seq + 1) % 64
      BY <3>2, <3>3
    <3>5. Hear(r, b) = [r EXCEPT !.want_data = TRUE, !.seq = b % 64,
                                 !.last = (b \div 64) % 2 = 1]
      <4>1. ~(b >= 128)
        BY <3>3
      <4> QED  BY <3>1, <3>3, <3>4, <4>1, Zenon DEF Hear
    <3> QED  BY <3>3, <3>5, Zenon
  <2>7. Hear(r, 65) = [r EXCEPT !.want_data = TRUE, !.seq = 1, !.last = TRUE]
    BY <2>1, <2>2, <2>6, Zenon
  <2>8. Hear(r, 65) = [on |-> TRUE, want_data |-> TRUE, seq |-> 1, last |-> TRUE, data |-> <<h>>]
    BY <2>5, <2>7
  <2> QED  BY <1>13, <1>15, <2>3, <2>4, <2>8, Zenon
<1>5. Hear(RxAt(3, c), c % 256) = RxAt(4, c)
  <2>1. PICK r : r = RxAt(3, c)
    OBVIOUS
  <2>2. PICK h, l : h = c \div 256 /\ l = c % 256
    OBVIOUS
  <2>3. r = [on |-> TRUE, want_data |-> TRUE, seq |-> 1, last |-> TRUE, data |-> <<h>>]
    BY <1>13, <1>15, <2>1, <2>2, Zenon
  <2>4. Hear(r, l) = [r EXCEPT !.want_data = FALSE, !.data = Append(@, l)]
    BY <2>3, HearData
  <2>5. Append(<<h>>, l) = <<h, l>>
    <3>1. PICK u : u = Append(<<h>>, l)
      OBVIOUS
    <3>2. <<h>> \in Seq({h, l}) /\ Len(<<h>>) = 1 /\ <<h>>[1] = h /\ l \in {h, l}
      OBVIOUS
    <3>3. u \in Seq({h, l}) /\ Len(u) = 2 /\ u[1] = h /\ u[2] = l
      BY <3>1, <3>2
    <3>4. u = <<h, l>>
      BY <3>3
    <3> QED  BY <3>1, <3>4
  <2>6. Hear(r, l) = [on |-> TRUE, want_data |-> FALSE, seq |-> 1, last |-> TRUE, data |-> <<h, l>>]
    BY <2>3, <2>4, <2>5
  <2>7. RxAt(4, c) = [on |-> TRUE, want_data |-> FALSE, seq |-> 1, last |-> TRUE, data |-> <<h, l>>]
    BY <1>14, <1>15, <2>2, Zenon
  <2> QED  BY <2>1, <2>2, <2>6, <2>7, Zenon
<1>6. Hear(RxAt(4, c), 0) = RxAt(4, c)
  <2>1. RxAt(4, c).want_data = FALSE /\ RxAt(4, c).last = TRUE
    BY <1>14
  <2> QED  BY <2>1, HearEnd, Zenon
<1> QED  BY <1>1, <1>2, <1>3, <1>4, <1>5, <1>6

LEMMA HearAllStep ==
  ASSUME NEW S, NEW w \in Seq(S), Len(w) \in {0, 1}, NEW r, NEW x
  PROVE  HearAll(r, Append(w, x)) = Hear(HearAll(r, w), x)
<1>1. CASE Len(w) = 0
  <2>1. Len(Append(w, x)) = 1 /\ Append(w, x)[1] = x
    BY <1>1
  <2>2. HearAll(r, w) = r
    BY <1>1 DEF HearAll
  <2> QED  BY <2>1, <2>2 DEF HearAll
<1>2. CASE Len(w) = 1
  <2>0. w \in Seq(S \cup {x}) /\ x \in S \cup {x}
    OBVIOUS
  <2>1. Len(Append(w, x)) = 2 /\ Append(w, x)[1] = w[1] /\ Append(w, x)[2] = x
    BY <1>2, <2>0
  <2>2. HearAll(r, w) = Hear(r, w[1])
    BY <1>2 DEF HearAll
  <2> QED  BY <2>1, <2>2 DEF HearAll
<1> QED  BY <1>1, <1>2

LEMMA VirtualStep ==
  ASSUME Request = ReadEvent, DataInv, Pending, Pending', Len(od_out) \in {0, 1},
         UNCHANGED <<pos, rx>>, NEW x, od_out' = Append(od_out, x)
  PROVE  Virtual' = IF pos < 8 THEN Virtual ELSE Hear(Virtual, x)
<1>1. Len(Request) = 8 /\ pos \in Nat
  BY RequestBytes DEF DataInv
<1>2. CASE pos < 8
  <2>1. Virtual = NoRx /\ Virtual' = NoRx
    BY <1>1, <1>2 DEF Virtual, Heard
  <2> QED  BY <1>2, <2>1
<1>3. CASE ~(pos < 8)
  <2>1. Virtual = HearAll(rx, od_out) /\ Virtual' = HearAll(rx, od_out')
    BY <1>1, <1>3 DEF Virtual, Heard
  <2>2. HearAll(rx, Append(od_out, x)) = Hear(HearAll(rx, od_out), x)
    BY HearAllStep DEF DataInv
  <2> QED  BY <1>3, <2>1, <2>2
<1> QED  BY <1>2, <1>3

-----------------------------------------------------------------------------
(* iolink_isdu_process for a read of index 2.                              *)

LEMMA ReadOf2Pops ==
  ASSUME I!process, ReadOf(2)
  PROVE  I!PopEvent
<1>1. 2 \notin DOMAIN Info /\ 2 \in I!Known
  BY DeviceConstants DEF I!Known, I!SYSTEM_COMMAND
<1>2. I!Read /\ header.index = 2 /\ header.index \notin I!Tags
  BY DEF ReadOf, I!Read, I!Tags, I!APPLICATION_TAG, I!FUNCTION_TAG, I!LOCATION_TAG
<1>3. ~I!SystemCommand /\ ~I!DetailedStatusWrite /\ ~I!WriteTag
  BY <1>2, Zenon DEF I!SystemCommand, I!DetailedStatusWrite, I!WriteTag
<1>4. ~I!ReadTag /\ ~I!Identification /\ ~I!UnknownIndex
  BY <1>1, <1>2, Zenon DEF I!ReadTag, I!Identification, I!UnknownIndex
<1>5. /\ 2 # I!ACCESS_LOCKS /\ 2 # I!DETAILED_STATUS /\ 2 # I!ERROR_STATS
      /\ 2 # I!DEVICE_STATUS /\ 2 # I!PDIN_DESCRIPTOR
  BY DEF I!ACCESS_LOCKS, I!DETAILED_STATUS, I!ERROR_STATS, I!DEVICE_STATUS, I!PDIN_DESCRIPTOR
<1>6. ~I!AccessLocks /\ ~I!DetailedStatus /\ ~I!ErrorStats /\ ~I!DeviceStatus /\ ~I!PdinDescriptor
  BY <1>2, <1>5, Zenon DEF I!AccessLocks, I!DetailedStatus, I!ErrorStats, I!DeviceStatus,
     I!PdinDescriptor
<1> QED  BY <1>3, <1>4, <1>6 DEF I!process

(* The answer is the oldest event, or zero.                                *)
LEMMA PopAnswers ==
  ASSUME I!PopEvent
  PROVE  /\ isdu_state = "SERVICE_EXECUTE" /\ isdu_state' = "RESPONSE_READY"
         /\ response_len' = 2 /\ response_idx' = 0 /\ segment_seq' = 0
         /\ ~is_response_control_sent' /\ UNCHANGED <<header, turn>>
         /\ \/ events = << >> /\ events' = events /\ response_buf' = <<0 \div 256, 0 % 256>>
            \/ /\ events # << >> /\ events' = Tail(events)
               /\ response_buf' = <<Head(events).code \div 256, Head(events).code % 256>>
<1>1. /\ isdu_state = "SERVICE_EXECUTE" /\ isdu_state' = "RESPONSE_READY" /\ response_idx' = 0
      /\ segment_seq' = 0 /\ ~is_response_control_sent' /\ UNCHANGED <<header, turn>>
  BY DEF I!PopEvent, I!CanProcess, I!Respond, I!Ready, I!request
<1>2. 0 \div 256 = 0 /\ 0 % 256 = 0 /\ 2 % 256 = 2
  OBVIOUS
<1>3. CASE events = << >>
  <2>1. events' = events /\ I!Respond(<<0, 0>>)
    BY <1>3, Zenon DEF I!PopEvent
  <2>2. response_buf' = <<0, 0>> /\ response_len' = 2
    BY <1>2, <2>1 DEF I!Respond
  <2> QED  BY <1>1, <1>2, <1>3, <2>1, <2>2
<1>4. CASE events # << >>
  <2>1. events' = Tail(events) /\ I!Respond(I!Uint16(Head(events).code))
    BY <1>4, Zenon DEF I!PopEvent
  <2>2. PICK h, l : h = Head(events).code \div 256 /\ l = Head(events).code % 256
    OBVIOUS
  <2>3. I!Uint16(Head(events).code) = <<h, l>>
    BY <2>2 DEF I!Uint16
  <2>4. response_buf' = <<h, l>> /\ response_len' = 2
    BY <1>2, <2>1, <2>3 DEF I!Respond
  <2> QED  BY <1>1, <1>4, <2>1, <2>2, <2>4
<1> QED  BY <1>3, <1>4

-----------------------------------------------------------------------------
(* The codes of events are not zero, and their two bytes make them up.     *)

CodeFacts(c) == c \in Nat /\ c # 0 /\ c \div 256 \notin {0, 128}
                /\ 256 * (c \div 256) + (c % 256) = c

LEMMA SplitCode ==
  ASSUME NEW c \in Nat
  PROVE  256 * (c \div 256) + (c % 256) = c
OBVIOUS

LEMMA CodesAre == \A c \in Codes : CodeFacts(c)
<1>1. ASSUME NEW c \in Nat, c \div 256 \notin {0, 128}
      PROVE  CodeFacts(c)
  <2>1. c # 0
    <3>1. 0 \div 256 = 0
      OBVIOUS
    <3> QED  BY <1>1, <3>1
  <2> QED  BY <1>1, <2>1, SplitCode DEF CodeFacts
<1>2. ASSUME NEW c \in AppCodes
      PROVE  CodeFacts(c)
  BY <1>1, DeviceConstants
<1>3. ASSUME NEW n \in EventCodes
      PROVE  CodeFacts(CodeOf[n])
  <2>1. CodeOf[n] \in {6145, 6148, 6149, 6150}
    BY DEF CodeOf, FramingCode, EventCodes
  <2>2. \A c \in {6145, 6148, 6149, 6150} : c \in Nat /\ c \div 256 = 24
    OBVIOUS
  <2> QED  BY <1>1, <2>1, <2>2
<1> QED  BY <1>2, <1>3 DEF Codes

-----------------------------------------------------------------------------
(* A byte is collected *)

LEMMA CollectTypes ==
  ASSUME NEW b \in Nat, I!collect_byte(b), header \in Headers,
         is_response_control_sent \in BOOLEAN
  PROVE  header' \in Headers /\ is_response_control_sent' \in BOOLEAN
<1>0. b % 16 \in Nat /\ 256 * b \in Nat
  OBVIOUS
<1>1. CASE I!HeaderInitial(b)
  <2>1. UNCHANGED is_response_control_sent
    BY <1>1 DEF I!HeaderInitial
  <2>2. PICK t \in {"READ", "WRITE"}, l \in Nat :
          header' = [header EXCEPT !.type = t, !.length = l]
    <3>1. header.length \in Nat
      BY DEF Headers
    <3>2. /\ (IF b \div 16 = 9 THEN "WRITE" ELSE "READ") \in {"READ", "WRITE"}
          /\ (IF ~(b \div 16 = 9) THEN 0
              ELSE IF b \div 16 = 9 /\ b % 16 = 15 THEN header.length ELSE b % 16) \in Nat
      BY <1>0, <3>1
    <3>3. header' = [header EXCEPT
            !.type = IF b \div 16 = 9 THEN "WRITE" ELSE "READ",
            !.length = IF ~(b \div 16 = 9) THEN 0
                       ELSE IF b \div 16 = 9 /\ b % 16 = 15 THEN header.length ELSE b % 16]
      BY <1>1, Zenon DEF I!HeaderInitial
    <3> QED  BY <3>2, <3>3
  <2> QED  BY <2>1, <2>2 DEF Headers
<1>2. CASE I!HeaderByte(b)
  <2>1. UNCHANGED is_response_control_sent
    BY <1>2 DEF I!HeaderByte
  <2>2. PICK l \in Nat : \/ header' = [header EXCEPT !.length = l]
                         \/ header' = [header EXCEPT !.index = l]
                         \/ header' = [header EXCEPT !.subindex = l]
    <3>1. header.index + b \in Nat
      BY DEF Headers
    <3> QED  BY <1>0, <1>2, <3>1 DEF I!HeaderByte
  <2> QED  BY <2>1, <2>2 DEF Headers
<1>3. CASE ~I!HeaderInitial(b) /\ ~I!HeaderByte(b)
  BY <1>3 DEF I!collect_byte, I!StartRequest, I!IgnoreByte, I!Collision, I!SequenceError,
     I!NextSegment, I!BadService, I!DataByte, I!request
<1> QED  BY <1>1, <1>2, <1>3

(* The step that collects the byte number k of the master's cycle.         *)
Collecting(k) ==
  /\ k \in Nat /\ Taken = k /\ Taken' = k + 1
  /\ Half = 0 /\ Half' = 1 /\ Pending /\ Pending'
  /\ pos \in Nat /\ Len(od_out) \in {0, 1} /\ k = pos + Len(od_out)
  /\ header \in Headers /\ is_response_control_sent \in BOOLEAN
  /\ I!collect_byte(OdByte(k))
  /\ UNCHANGED <<pos, rx, od_out>>

LEMMA CollectRequesting ==
  ASSUME Request = ReadEvent, NEW k, Collecting(k), Requesting
  PROVE  Requesting'
<1>0. /\ k \in Nat /\ Taken = k /\ Taken' = k + 1 /\ Pending /\ Pending' /\ pos \in Nat
      /\ pos' = pos /\ Len(od_out) \in {0, 1} /\ k = pos + Len(od_out) /\ header \in Headers
      /\ I!collect_byte(OdByte(k))
  BY DEF Collecting
<1>1. CASE Taken = 1 /\ isdu_state = "HEADER_INITIAL" /\ segment_seq = 0
  <2>1. I!collect_byte(128) /\ 128 \div 16 = 8 /\ Taken' = 2
    BY <1>0, <1>1, RequestBytes
  <2>2. /\ isdu_state' = "SEGMENT_COLLECT" /\ next_state' = "HEADER_INDEX_HIGH"
        /\ header' = [header EXCEPT !.type = "READ", !.length = 0]
        /\ segment_seq' = segment_seq
    BY <1>1, <2>1, CollectService
  <2>3. header'.type = "READ"
    BY <1>0, <2>2 DEF Headers
  <2> QED  BY <1>1, <2>1, <2>2, <2>3 DEF Requesting
<1>2. CASE /\ Taken = 2 /\ isdu_state = "SEGMENT_COLLECT" /\ next_state = "HEADER_INDEX_HIGH"
           /\ segment_seq = 0 /\ header.type = "READ"
  <2>1. I!collect_byte(1) /\ 1 % 64 = (segment_seq + 1) % 64 /\ 1 % 64 = 1 /\ Taken' = 3
    BY <1>0, <1>2, RequestBytes
  <2>2. isdu_state' = next_state /\ segment_seq' = 1 /\ header' = header
    BY <1>2, <2>1, CollectSegment
  <2> QED  BY <1>2, <2>1, <2>2 DEF Requesting
<1>3. CASE Taken = 3 /\ isdu_state = "HEADER_INDEX_HIGH" /\ segment_seq = 1 /\ header.type = "READ"
  <2>1. I!collect_byte(0) /\ Taken' = 4
    BY <1>0, <1>3, RequestBytes
  <2>2. /\ isdu_state' = "SEGMENT_COLLECT" /\ next_state' = "HEADER_INDEX_LOW"
        /\ header' = [header EXCEPT !.index = 256 * 0] /\ segment_seq' = segment_seq
    BY <1>3, <2>1, CollectHeader
  <2>3. ReadOf(0)'
    BY <1>0, <1>3, <2>2 DEF Headers, ReadOf
  <2> QED  BY <1>3, <2>1, <2>2, <2>3 DEF Requesting
<1>4. CASE /\ Taken = 4 /\ isdu_state = "SEGMENT_COLLECT" /\ next_state = "HEADER_INDEX_LOW"
           /\ segment_seq = 1 /\ ReadOf(0)
  <2>1. I!collect_byte(2) /\ 2 % 64 = (segment_seq + 1) % 64 /\ 2 % 64 = 2 /\ Taken' = 5
    BY <1>0, <1>4, RequestBytes
  <2>2. isdu_state' = next_state /\ segment_seq' = 2 /\ header' = header
    BY <1>4, <2>1, CollectSegment
  <2>3. ReadOf(0)'
    BY <1>4, <2>2 DEF ReadOf
  <2> QED  BY <1>4, <2>1, <2>2, <2>3 DEF Requesting
<1>5. CASE Taken = 5 /\ isdu_state = "HEADER_INDEX_LOW" /\ segment_seq = 2 /\ ReadOf(0)
  <2>1. I!collect_byte(2) /\ Taken' = 6
    BY <1>0, <1>5, RequestBytes
  <2>2. /\ isdu_state' = "SEGMENT_COLLECT" /\ next_state' = "HEADER_SUBINDEX"
        /\ header' = [header EXCEPT !.index = header.index + 2] /\ segment_seq' = segment_seq
    BY <1>5, <2>1, CollectHeader
  <2>3. ReadOf(2)'
    BY <1>0, <1>5, <2>2 DEF Headers, ReadOf
  <2> QED  BY <1>5, <2>1, <2>2, <2>3 DEF Requesting
<1>6. CASE /\ Taken = 6 /\ isdu_state = "SEGMENT_COLLECT" /\ next_state = "HEADER_SUBINDEX"
           /\ segment_seq = 2 /\ ReadOf(2)
  <2>1. I!collect_byte(67) /\ 67 % 64 = (segment_seq + 1) % 64 /\ 67 % 64 = 3 /\ Taken' = 7
    BY <1>0, <1>6, RequestBytes
  <2>2. isdu_state' = next_state /\ segment_seq' = 3 /\ header' = header
    BY <1>6, <2>1, CollectSegment
  <2>3. ReadOf(2)'
    BY <1>6, <2>2 DEF ReadOf
  <2> QED  BY <1>6, <2>1, <2>2, <2>3 DEF Requesting
<1>7. CASE Taken = 7 /\ isdu_state = "HEADER_SUBINDEX" /\ segment_seq = 3 /\ ReadOf(2)
  <2>1. I!collect_byte(0) /\ Taken' = 8 /\ pos' < 8
    BY <1>0, <1>7, RequestBytes
  <2>2. /\ isdu_state' = "SERVICE_EXECUTE"
        /\ header' = [header EXCEPT !.subindex = 0]
    BY <1>7, <2>1, CollectHeader DEF ReadOf
  <2>3. ReadOf(2)'
    BY <1>0, <1>7, <2>2 DEF Headers, ReadOf
  <2> QED  BY <2>1, <2>2, <2>3 DEF Requesting
<1>8. CASE /\ Taken \in {8, 9} /\ isdu_state = "SERVICE_EXECUTE" /\ ReadOf(2)
           /\ Pending => pos < 8
  <2>0. pos < 8 /\ (Len(od_out) = 0 \/ Len(od_out) = 1) /\ (k = 8 \/ k = 9)
    BY <1>0, <1>8
  <2>1. pos < 8 /\ k = 8 /\ OdByte(8) = 0
    <3>1. \A p \in Nat, m \in Nat : p < 8 /\ (m = 0 \/ m = 1) /\ (p + m = 8 \/ p + m = 9) => p + m = 8
      OBVIOUS
    <3>2. k = 8
      BY <1>0, <2>0, <3>1
    <3> QED  BY <2>0, <3>2, RequestBytes
  <2>2. EngineSame
    BY <1>0, <1>8, <2>1, CollectIgnored
  <2>3. ReadOf(2)'
    BY <1>8, <2>2 DEF ReadOf, EngineSame
  <2> QED  BY <1>0, <1>8, <2>1, <2>2, <2>3 DEF Requesting, EngineSame
<1> QED  BY <1>1, <1>2, <1>3, <1>4, <1>5, <1>6, <1>7, <1>8 DEF Requesting

LEMMA CollectAnswering ==
  ASSUME Request = ReadEvent, NEW k, Collecting(k), NEW c, Answering(c)
  PROVE  Answering(c)'
<1>0. /\ k \in Nat /\ pos \in Nat /\ k = pos + Len(od_out) /\ Len(od_out) \in {0, 1} /\ pos >= 8
      /\ I!collect_byte(OdByte(k))
  BY DEF Collecting, Answering
<1>1. OdByte(k) = 0 /\ isdu_state \in {"IDLE", "RESPONSE_READY"}
  BY <1>0, RequestBytes DEF Answering, TwoByteAnswer
<1>2. EngineSame
  BY <1>0, <1>1, CollectIgnored
<1>3. Virtual' = Virtual
  BY DEF Virtual, Heard, Collecting
<1> QED
  BY <1>2, <1>3 DEF Answering, TwoByteAnswer, EngineSame, Collecting, Given

(* A request over an older one: it is refused, or starts, or goes on to be *)
(* missed.                                                                 *)
LEMMA CollectOutOfStep ==
  ASSUME Request = ReadEvent, NEW k, Collecting(k), OutOfStep
  PROVE  Requesting' \/ (OutOfStep' /\ Stale' = Stale)
<1>0. /\ k \in Nat /\ Taken = k /\ Taken' = k + 1 /\ Half = 0 /\ Half' = 1 /\ Pending /\ Pending'
      /\ pos \in Nat /\ pos' = pos /\ (Len(od_out) = 0 \/ Len(od_out) = 1)
      /\ k = pos + Len(od_out) /\ header \in Headers
      /\ I!collect_byte(OdByte(k)) /\ is_response_control_sent \in BOOLEAN
  BY DEF Collecting
<1>1. CASE /\ Taken = 0
           /\ isdu_state \in {"IDLE", "HEADER_INITIAL", "HEADER_INDEX_HIGH",
                "HEADER_INDEX_LOW", "HEADER_SUBINDEX", "SEGMENT_COLLECT",
                "SERVICE_EXECUTE", "RESPONSE_READY"}
           /\ isdu_state \in {"HEADER_SUBINDEX", "SERVICE_EXECUTE"} => ReadOf(2)
  <2>0. I!collect_byte(128) /\ Taken' = 1 /\ pos' = 0 /\ 128 % 64 = 0 /\ 128 \div 16 = 8
    BY <1>0, <1>1, RequestBytes
  <2>1. CASE isdu_state \in {"IDLE", "RESPONSE_READY"}
    <3>1. isdu_state' = "HEADER_INITIAL" /\ segment_seq' = 0
      BY <2>0, <2>1, CollectStart
    <3> QED  BY <2>0, <3>1 DEF Requesting
  <2>2. CASE isdu_state \in {"HEADER_INITIAL", "HEADER_INDEX_HIGH", "HEADER_INDEX_LOW"}
    <3>1. isdu_state' = "SEGMENT_COLLECT"
      BY <2>0, <2>2, CollectService, CollectHeader
    <3> QED  BY <2>0, <2>2, <3>1 DEF OutOfStep, Stale
  <2>3. CASE isdu_state = "HEADER_SUBINDEX"
    <3>1. isdu_state' = "SERVICE_EXECUTE" /\ header' = [header EXCEPT !.subindex = 128]
      BY <1>1, <2>0, <2>3, CollectHeader DEF ReadOf
    <3>2. ReadOf(2)'
      BY <1>0, <1>1, <2>3, <3>1 DEF ReadOf, Headers
    <3> QED  BY <2>0, <2>3, <3>1, <3>2 DEF OutOfStep, Stale
  <2>4. CASE isdu_state = "SEGMENT_COLLECT"
    <3>1. Refused /\ ~is_response_control_sent'
      BY <2>0, <2>4, CollectCollides
    <3>2. TwoByteAnswer' /\ Given' = 0
      BY <3>1 DEF Refused, TwoByteAnswer, Given
    <3> QED  BY <1>0, <2>0, <2>4, <3>1, <3>2 DEF OutOfStep, Stale, Refused
  <2>5. CASE isdu_state = "SERVICE_EXECUTE"
    <3>1. EngineSame
      BY <2>0, <2>5, CollectIgnored
    <3>2. ReadOf(2)'
      BY <1>1, <2>5, <3>1 DEF ReadOf, EngineSame
    <3> QED  BY <2>0, <2>5, <3>1, <3>2 DEF OutOfStep, Stale, EngineSame
  <2> QED  BY <1>1, <2>1, <2>2, <2>3, <2>4, <2>5
<1>2. CASE Taken = 1 /\ isdu_state = "SEGMENT_COLLECT"
  <2>0. I!collect_byte(128) /\ Taken' = 2
    BY <1>0, <1>2, RequestBytes
  <2>1. Refused /\ ~is_response_control_sent'
    BY <1>2, <2>0, CollectCollides
  <2>2. TwoByteAnswer' /\ Given' = 0
    BY <2>1 DEF Refused, TwoByteAnswer, Given
  <2>3. Given' + Half' = 1 /\ 1 = Taken' - 1
    BY <1>0, <2>0, <2>2
  <2> QED  BY <1>2, <2>0, <2>1, <2>2, <2>3 DEF OutOfStep, Stale, Refused
<1>3. CASE Taken = 1 /\ TwoByteAnswer /\ Given + Half <= 1
  <2>0. I!collect_byte(128) /\ Taken' = 2
    BY <1>0, <1>3, RequestBytes
  <2>1. isdu_state' = "HEADER_INITIAL" /\ ~is_response_control_sent'
    BY <1>3, <2>0, CollectStart DEF TwoByteAnswer
  <2> QED  BY <1>3, <2>0, <2>1 DEF OutOfStep, Stale, TwoByteAnswer
<1>4. CASE /\ Taken \in {1, 2} /\ isdu_state = "SERVICE_EXECUTE" /\ ReadOf(2)
           /\ Pending => pos = 0
  <2>a. pos = 0 /\ (k = 1 \/ k = 2)
    BY <1>0, <1>4
  <2>b. k = 1
    BY <1>0, <2>a
  <2>0. pos = 0 /\ k = 1 /\ Taken' = 2 /\ OdByte(k) = 128
    <3>1. OdByte(1) = 128
      BY RequestBytes
    <3> QED  BY <1>0, <2>a, <2>b, <3>1
  <2>1. EngineSame
    BY <1>0, <1>4, <2>0, CollectIgnored
  <2>2. ReadOf(2)'
    BY <1>4, <2>1 DEF ReadOf, EngineSame
  <2> QED  BY <1>0, <1>4, <2>0, <2>1, <2>2 DEF OutOfStep, Stale, EngineSame
<1>5. CASE Taken = 2 /\ isdu_state = "HEADER_INITIAL" /\ ~is_response_control_sent
  <2>0. I!collect_byte(1) /\ Taken' = 3
    BY <1>0, <1>5, RequestBytes
  <2>1. Refused /\ is_response_control_sent' = is_response_control_sent
    BY <1>5, <2>0, CollectBadService
  <2>2. TwoByteAnswer' /\ Given' = 0
    BY <1>5, <2>1 DEF Refused, TwoByteAnswer, Given
  <2>3. Given' + Half' = 1 /\ 1 = Taken' - 2
    BY <1>0, <2>0, <2>2
  <2> QED  BY <1>5, <2>0, <2>1, <2>2, <2>3 DEF OutOfStep, Stale, Refused
<1>6. CASE \/ Taken >= 2 /\ TwoByteAnswer /\ Given + Half \in {Taken - 2, Taken - 1}
           \/ Taken >= 3 /\ isdu_state = "IDLE"
  <2>0. k >= 2 /\ OdByte(k) \in Nat /\ OdByte(k) < 128 /\ isdu_state \in {"IDLE", "RESPONSE_READY"}
    BY <1>0, <1>6, LaterBytes DEF TwoByteAnswer
  <2>1. EngineSame
    BY <1>0, <2>0, CollectIgnored
  <2>2. CASE Taken >= 2 /\ TwoByteAnswer /\ Given + Half \in {Taken - 2, Taken - 1}
    <3>1. TwoByteAnswer' /\ Given' = Given /\ Given \in Nat
      BY <1>0, <2>1, <2>2 DEF TwoByteAnswer, EngineSame, Given
    <3>2. PICK g \in Nat : g = Given
      BY <3>1
    <3>3. Given' + Half' \in {Taken' - 2, Taken' - 1} /\ Taken' >= 2
      BY <1>0, <2>2, <3>1, <3>2
    <3>4. OutOfStep'
      BY <3>1, <3>3 DEF OutOfStep
    <3> QED  BY <2>1, <3>4 DEF Stale, EngineSame
  <2>3. CASE Taken >= 3 /\ isdu_state = "IDLE"
    BY <1>0, <2>1, <2>3 DEF OutOfStep, Stale, EngineSame
  <2> QED  BY <1>6, <2>2, <2>3
<1> QED  BY <1>1, <1>2, <1>3, <1>4, <1>5, <1>6 DEF OutOfStep

-----------------------------------------------------------------------------
(* A byte of the answer is asked for *)

(* The step that asks for the answer to the byte number k - 1; x is the    *)
(* byte of the response.                                                   *)
Getting(k, x) ==
  /\ k \in Nat /\ Taken = k /\ Taken' = k
  /\ Half = 1 /\ Half' = 0 /\ Pending /\ Pending'
  /\ pos \in Nat /\ Len(od_out) \in {0, 1} /\ k = pos + Len(od_out) + 1
  /\ is_response_control_sent \in BOOLEAN
  /\ I!get_response_byte
  /\ tx' = << >> => x = 0
  /\ \A y : tx' = <<y>> => x = y
  /\ od_out' = Append(od_out, x) /\ Len(od_out') = Len(od_out) + 1
  /\ Virtual' = IF pos < 8 THEN Virtual ELSE Hear(Virtual, x)
  /\ UNCHANGED <<pos, rx>>

LEMMA GetRequesting ==
  ASSUME NEW k, NEW x, Getting(k, x), Requesting
  PROVE  Requesting' /\ Virtual' = Virtual
<1>0. /\ k \in Nat /\ Taken = k /\ Taken' = k /\ Pending /\ Pending' /\ pos \in Nat /\ pos' = pos
      /\ (Len(od_out) = 0 \/ Len(od_out) = 1) /\ k = pos + Len(od_out) + 1
  BY DEF Getting
<1>1. isdu_state # "RESPONSE_READY"
  BY DEF Requesting
<1>2. EngineSame
  BY <1>1, GetNothing DEF Getting
<1>3. Requesting'
  <2>1. \A n \in {0, 2} : ReadOf(n)' = ReadOf(n)
    BY <1>2 DEF ReadOf, EngineSame
  <2> QED  BY <1>0, <1>2, <2>1 DEF Requesting, EngineSame
<1>4. pos < 8
  <2>1. k = 1 \/ k = 2 \/ k = 3 \/ k = 4 \/ k = 5 \/ k = 6 \/ k = 7 \/ pos < 8
    BY <1>0 DEF Requesting
  <2> QED  BY <1>0, <2>1
<1> QED  BY <1>3, <1>4 DEF Getting

LEMMA GetOutOfStep ==
  ASSUME NEW k, NEW x, Getting(k, x), OutOfStep, Virtual = NoRx
  PROVE  OutOfStep' /\ Stale' = Stale /\ Virtual' = NoRx
<1>0. /\ k \in Nat /\ Taken = k /\ Taken' = k /\ Pending /\ Pending' /\ pos \in Nat /\ pos' = pos
      /\ (Len(od_out) = 0 \/ Len(od_out) = 1) /\ k = pos + Len(od_out) + 1
      /\ Half = 1 /\ Half' = 0 /\ is_response_control_sent \in BOOLEAN
      /\ I!get_response_byte
  BY DEF Getting
<1>1. k >= 1 /\ (k <= 8 => pos < 8)
  BY <1>0
<1>2. CASE isdu_state # "RESPONSE_READY"
  <2>1. EngineSame /\ tx' = << >>
    BY <1>0, <1>2, GetNothing
  <2>2. ReadOf(2)' = ReadOf(2) /\ Stale' = Stale
    BY <2>1 DEF ReadOf, EngineSame, Stale
  <2>3. OutOfStep'
    BY <1>0, <1>1, <1>2, <2>1, <2>2 DEF OutOfStep, EngineSame, TwoByteAnswer
  <2>4. Virtual' = NoRx
    <3>1. Hear(NoRx, 0) = NoRx
      BY HearSteps
    <3>2. x = 0
      BY <2>1 DEF Getting
    <3> QED  BY <3>1, <3>2 DEF Getting
  <2> QED  BY <2>2, <2>3, <2>4
<1>3. CASE isdu_state = "RESPONSE_READY"
  <2>1. /\ TwoByteAnswer
        /\ \/ k = 1 /\ Given + 1 <= 1
           \/ k >= 2 /\ (Given + 1 = k - 2 \/ Given + 1 = k - 1)
    BY <1>0, <1>1, <1>3 DEF OutOfStep
  <2>2. PICK i \in {0, 1} : i = response_idx
    BY <2>1 DEF TwoByteAnswer
  <2>3. CASE ~is_response_control_sent
    <3>1. Given = 2 * i
      BY <2>2, <2>3 DEF Given
    <3>2. /\ isdu_state' = "RESPONSE_READY" /\ response_idx' = response_idx /\ response_len' = 2
          /\ is_response_control_sent'
      BY <1>0, <2>1, <2>3, GetControl, GetKeepsRest DEF TwoByteAnswer
    <3>3. TwoByteAnswer' /\ Given' = 2 * i + 1
      BY <2>1, <2>2, <3>2 DEF TwoByteAnswer, Given
    <3>4. /\ Taken' = 1 => Given' + Half' <= 1
          /\ Taken' >= 2 => Given' + Half' = Taken' - 2 \/ Given' + Half' = Taken' - 1
      BY <1>0, <2>1, <2>2, <3>1, <3>3
    <3>5. OutOfStep'
      BY <1>0, <1>1, <3>3, <3>4 DEF OutOfStep
    <3>6. pos < 8
      BY <1>0, <1>1, <2>1, <2>2, <3>1
    <3> QED  BY <1>3, <3>2, <3>5, <3>6 DEF Getting, Stale
  <2>4. CASE is_response_control_sent
    <3>1. Given = 2 * i + 1
      BY <2>2, <2>4 DEF Given
    <3>2. k >= 2 /\ (2 * i + 2 = k - 2 \/ 2 * i + 2 = k - 1)
      BY <1>0, <2>1, <2>2, <3>1
    <3>3. pos < 8
      BY <1>0, <1>1, <2>2, <3>2
    <3>4. CASE i = 0
      <4>1. /\ isdu_state' = "RESPONSE_READY" /\ response_idx' = 0 + 1 /\ response_len' = 2
            /\ ~is_response_control_sent'
        BY <1>0, <2>1, <2>2, <2>4, <3>4, GetData, GetKeepsRest DEF TwoByteAnswer
      <4>2. TwoByteAnswer' /\ Given' = 2
        BY <4>1 DEF TwoByteAnswer, Given
      <4>3. Taken' >= 2 /\ (Given' + Half' = Taken' - 2 \/ Given' + Half' = Taken' - 1)
        BY <1>0, <3>2, <3>4, <4>2
      <4>4. OutOfStep'
        BY <4>2, <4>3 DEF OutOfStep
      <4> QED  BY <1>3, <3>3, <4>1, <4>4 DEF Getting, Stale
    <3>5. CASE i = 1
      <4>1. isdu_state' = "IDLE"
        BY <1>0, <2>1, <2>2, <2>4, <3>5, GetData
      <4>2. Taken' >= 3
        BY <1>0, <3>2, <3>5
      <4>3. OutOfStep'
        BY <4>1, <4>2 DEF OutOfStep
      <4> QED  BY <1>3, <3>3, <4>1, <4>3 DEF Getting, Stale
    <3> QED  BY <3>4, <3>5
  <2> QED  BY <1>0, <2>3, <2>4
<1> QED  BY <1>2, <1>3

LEMMA GetAnswering ==
  ASSUME NEW k, NEW x, Getting(k, x), NEW c, Answering(c)
  PROVE  Answering(c)'
<1>0. /\ k \in Nat /\ Pending /\ Pending' /\ pos \in Nat /\ pos' = pos /\ pos >= 8
      /\ (Len(od_out) = 0 \/ Len(od_out) = 1) /\ Len(od_out') = Len(od_out) + 1
      /\ is_response_control_sent \in BOOLEAN
      /\ I!get_response_byte
  BY DEF Getting, Answering
<1>1. Virtual' = Hear(Virtual, x)
  <2>1. ~(pos < 8)
    BY <1>0
  <2> QED  BY <2>1 DEF Getting
<1>2. CASE isdu_state = "IDLE"
  <2>1. Virtual = RxAt(4, c)
    BY <1>2 DEF Answering, TwoByteAnswer
  <2>2. EngineSame /\ tx' = << >>
    BY <1>0, <1>2, GetNothing
  <2>3. x = 0
    BY <2>2 DEF Getting
  <2>4. Virtual' = RxAt(4, c)
    BY <1>1, <2>1, <2>3, HearSteps
  <2> QED  BY <1>0, <1>2, <2>2, <2>4 DEF Answering, EngineSame
<1>3. CASE isdu_state = "RESPONSE_READY"
  <2>1. /\ TwoByteAnswer /\ response_buf = <<c \div 256, c % 256>>
        /\ segment_seq = response_idx /\ Virtual = RxAt(Given, c) /\ Given >= Len(od_out)
    BY <1>0, <1>3 DEF Answering
  <2>2. response_buf' = response_buf /\ response_len' = 2 /\ response_len = 2
    BY <1>0, <2>1, GetKeepsRest DEF TwoByteAnswer
  <2>3. CASE ~is_response_control_sent /\ response_idx = 0
    <3>1. Given = 0 /\ tx' = <<128>> /\ 128 + 0 + 0 = 128
      BY <1>0, <2>1, <2>3, GetControl DEF Given
    <3>2. x = 128
      BY <3>1 DEF Getting
    <3>3. Virtual' = RxAt(1, c)
      BY <1>1, <2>1, <3>1, <3>2, HearSteps
    <3>4. isdu_state' = "RESPONSE_READY" /\ response_idx' = 0 /\ segment_seq' = 0 /\ is_response_control_sent'
      BY <1>0, <1>3, <2>1, <2>3, GetControl
    <3>5. TwoByteAnswer' /\ Given' = 1
      BY <2>2, <3>4 DEF TwoByteAnswer, Given
    <3>6. Len(od_out') <= 1
      BY <1>0, <2>1, <3>1
    <3> QED  BY <1>0, <2>1, <2>2, <3>3, <3>4, <3>5, <3>6 DEF Answering
  <2>4. CASE is_response_control_sent /\ response_idx = 0
    <3>1. Given = 1 /\ tx' = <<response_buf[0 + 1]>>
      BY <1>0, <2>1, <2>4, GetData DEF Given
    <3>2. response_buf[1] = c \div 256
      BY <2>1
    <3>3. x = c \div 256
      BY <3>1, <3>2 DEF Getting
    <3>4. Virtual' = RxAt(2, c)
      BY <1>1, <2>1, <3>1, <3>3, HearSteps
    <3>5. isdu_state' = "RESPONSE_READY" /\ response_idx' = 1 /\ segment_seq' = 1 /\ ~is_response_control_sent'
      <4>1. (0 + 1) % 64 = 1 /\ 0 + 1 = 1
        OBVIOUS
      <4> QED  BY <1>0, <2>1, <2>4, <4>1, GetData
    <3>6. TwoByteAnswer' /\ Given' = 2
      BY <2>2, <3>5 DEF TwoByteAnswer, Given
    <3>7. Len(od_out') <= 2
      BY <1>0, <2>1, <3>1
    <3> QED  BY <1>0, <2>1, <2>2, <3>4, <3>5, <3>6, <3>7 DEF Answering
  <2>5. CASE ~is_response_control_sent /\ response_idx = 1
    <3>1. Given = 2 /\ tx' = <<65>> /\ 0 + 64 + 1 = 65
      BY <1>0, <2>1, <2>5, GetControl DEF Given
    <3>2. x = 65
      BY <3>1 DEF Getting
    <3>3. Virtual' = RxAt(3, c)
      BY <1>1, <2>1, <3>1, <3>2, HearSteps
    <3>4. isdu_state' = "RESPONSE_READY" /\ response_idx' = 1 /\ segment_seq' = 1 /\ is_response_control_sent'
      BY <1>0, <1>3, <2>1, <2>5, GetControl
    <3>5. TwoByteAnswer' /\ Given' = 3
      BY <2>2, <3>4 DEF TwoByteAnswer, Given
    <3>6. Len(od_out') <= 3
      <4>1. \A m, n \in Nat : (m = 0 \/ m = 1) /\ n = m + 1 => n <= 3
        OBVIOUS
      <4>2. Len(od_out) \in Nat /\ Len(od_out') \in Nat
        BY <1>0
      <4> QED  BY <1>0, <4>1, <4>2
    <3> QED  BY <1>0, <2>1, <2>2, <3>3, <3>4, <3>5, <3>6 DEF Answering
  <2>6. CASE is_response_control_sent /\ response_idx = 1
    <3>1. Given = 3 /\ tx' = <<response_buf[1 + 1]>> /\ isdu_state' = "IDLE"
      BY <1>0, <2>1, <2>6, GetData DEF Given
    <3>2. response_buf[1 + 1] = c % 256
      BY <2>1
    <3>3. x = c % 256
      BY <3>1, <3>2 DEF Getting
    <3>4. Virtual' = RxAt(4, c)
      BY <1>1, <2>1, <3>1, <3>3, HearSteps
    <3> QED  BY <1>0, <3>1, <3>4 DEF Answering
  <2>7. response_idx = 0 \/ response_idx = 1
    BY <2>1 DEF TwoByteAnswer
  <2> QED  BY <1>0, <2>3, <2>4, <2>5, <2>6, <2>7
<1> QED  BY <1>2, <1>3 DEF Answering, TwoByteAnswer

-----------------------------------------------------------------------------
(* The steps of the device and of the master keep the invariant *)

LEMMA ByteIsNat ==
  ASSUME Request = ReadEvent, NEW k \in Nat
  PROVE  OdByte(k) \in Nat
<1>1. CASE k >= 2
  BY <1>1, LaterBytes
<1>2. CASE k = 0 \/ k = 1
  BY <1>2, RequestBytes
<1> QED  BY <1>1, <1>2

LEMMA QueueKept ==
  ASSUME UNCHANGED <<events, triggered, delivered>>
  PROVE  /\ QueueInv => QueueInv'
         /\ \A c : Ordered(c) => Ordered(c)'
<1>1. Past' = Past
  BY DEF Past
<1> QED  BY <1>1 DEF QueueInv, Ordered, InOrder

LEMMA EngineKeepsQueue ==
  ASSUME I!get_response_byte \/ \E b : I!collect_byte(b)
  PROVE  events' = events
BY DEF I!get_response_byte, I!NoResponse, I!ResponseControl, I!ResponseData, I!ResponseEmpty,
       I!Gotten, I!collect_byte, I!StartRequest, I!IgnoreByte, I!Collision, I!SequenceError,
       I!NextSegment, I!HeaderInitial, I!BadService, I!HeaderByte, I!DataByte, I!Collected

LEMMA CollectKeeps ==
  ASSUME Request = ReadEvent, DeliveryInv, CallCollect, UNCHANGED <<master, history>>
  PROVE  DeliveryInv'
<1>0. /\ UNCHANGED <<pos, rx, aborts, delivered, triggered, popped, od_out>>
      /\ UNCHANGED <<pc, out, frame_index>>
      /\ Next1("collect") /\ I!collect_byte(todo[1].arg)
  BY DEF CallCollect, Next1, vars, link, frame, master, history
<1>1. turn' = "get" /\ events' = events
  BY <1>0, CollectTurn, EngineKeepsQueue
<1>2. /\ Pending /\ Pending' /\ turn = "collect" /\ Len(od_out) \in {0, 1}
      /\ todo[1].arg = OdByte(Taken) /\ Taken' = Taken + 1 /\ TodoInv'
      /\ Half = 0 /\ Half' = 1
  BY <1>0, <1>1, CollectTodo DEF DeliveryInv
<1>3. pos \in Nat /\ header \in Headers /\ is_response_control_sent \in BOOLEAN
  BY DEF DeliveryInv, DataInv
<1>4. PICK k \in Nat : k = Taken /\ k = pos + Len(od_out)
  BY <1>2, <1>3 DEF Taken
<1>5. Collecting(k)
  BY <1>0, <1>2, <1>3, <1>4 DEF Collecting
<1>6. DataInv'
  <2>1. header' \in Headers /\ is_response_control_sent' \in BOOLEAN
    BY <1>0, <1>2, <1>3, <1>4, ByteIsNat, CollectTypes
  <2> QED  BY <1>0, <1>1, <2>1 DEF DeliveryInv, DataInv, Headers, EventSet, Codes
<1>7. PcInv'
  <2>1. Len(od_out') + Half' >= 1
    BY <1>0, <1>2
  <2> QED  BY <1>0, <1>2, <2>1 DEF DeliveryInv, PcInv, FrameJustDone
<1>8. Virtual' = Virtual /\ Lost' = Lost /\ Aborted' = Aborted
  BY <1>0, <1>2 DEF Virtual, Heard, Lost, Aborted
<1>9. PICK c \in {0} \cup Codes : InStep(c) /\ Ordered(c)
  BY DEF DeliveryInv
<1>10. InStep(c)'
  <2>1. CASE c = 0 /\ Virtual = NoRx /\ Requesting /\ Lost <= Aborted
    BY <1>5, <1>8, <2>1, CollectRequesting DEF InStep, NoRx
  <2>2. CASE Answering(c) /\ Lost <= Aborted + (IF c = 0 THEN 0 ELSE 1)
    BY <1>5, <1>8, <2>2, CollectAnswering DEF InStep
  <2>3. CASE c = 0 /\ Virtual = NoRx /\ OutOfStep /\ Lost + Stale <= Aborted
    <3>1. Lost <= Aborted
      BY <2>3, MasterConstants DEF Lost, Aborted, Stale, DeliveryInv, DataInv
    <3> QED  BY <1>5, <1>8, <2>3, <3>1, CollectOutOfStep DEF InStep, NoRx
  <2> QED  BY <1>9, <2>1, <2>2, <2>3 DEF InStep
<1>11. QueueInv' /\ Ordered(c)'
  BY <1>0, <1>1, <1>9, QueueKept DEF DeliveryInv
<1> QED  BY <1>2, <1>6, <1>7, <1>9, <1>10, <1>11 DEF DeliveryInv, Codes

LEMMA GetKeeps ==
  ASSUME Request = ReadEvent, DeliveryInv, CallGet, UNCHANGED <<master, history>>
  PROVE  DeliveryInv'
<1> DEFINE x == IF tx' = << >> THEN 0 ELSE tx'[1]
<1>0. /\ UNCHANGED <<pos, rx, aborts, delivered, triggered, popped>>
      /\ UNCHANGED <<pc, out, frame_index>>
      /\ Next1("get") /\ I!get_response_byte /\ od_out' = Append(od_out, x)
  BY DEF CallGet, Next1, vars, link, frame, master, history
<1>x. (tx' = << >> => x = 0) /\ \A y : tx' = <<y>> => x = y
  OBVIOUS
<1> HIDE DEF x
<1>1. turn' = "collect" /\ events' = events
  BY <1>0, GetTurn, EngineKeepsQueue
<1>2. /\ Pending /\ Pending' /\ turn = "get" /\ Len(od_out) \in {0, 1}
      /\ Len(od_out') = Len(od_out) + 1
      /\ Taken' = Taken /\ Taken = pos + Len(od_out) + 1 /\ TodoInv'
      /\ Half = 1 /\ Half' = 0
  BY <1>0, <1>1, GetTodo DEF DeliveryInv
<1>3. pos \in Nat /\ is_response_control_sent \in BOOLEAN /\ od_out \in Seq(Range(od_out))
  BY DEF DeliveryInv, DataInv
<1>4. PICK k \in Nat : k = Taken /\ k = pos + Len(od_out) + 1
  BY <1>2, <1>3
<1>5. Virtual' = IF pos < 8 THEN Virtual ELSE Hear(Virtual, x)
  BY <1>0, <1>2, VirtualStep DEF DeliveryInv
<1>6. Getting(k, x)
  BY <1>0, <1>x, <1>2, <1>3, <1>4, <1>5 DEF Getting
<1>7. DataInv'
  <2>1. header' = header /\ is_response_control_sent' \in BOOLEAN
    BY <1>0, <1>3, GetKeepsRest, GetTypes
  <2>2. od_out' \in Seq(Range(od_out'))
    <3>1. od_out \in Seq(Range(od_out) \cup {x}) /\ x \in Range(od_out) \cup {x}
      BY <1>3
    <3>2. od_out' \in Seq(Range(od_out) \cup {x})
      BY <1>0, <3>1
    <3> QED  BY <3>2, OwnRange
  <2> QED  BY <1>0, <1>1, <2>1, <2>2 DEF DeliveryInv, DataInv, Headers, EventSet, Codes
<1>8. PcInv'
  <2>1. Len(od_out') + Half' >= 1
    BY <1>2
  <2> QED  BY <1>0, <1>2, <2>1 DEF DeliveryInv, PcInv, FrameJustDone
<1>9. Lost' = Lost /\ Aborted' = Aborted
  BY <1>0 DEF Lost, Aborted
<1>10. PICK c \in {0} \cup Codes : InStep(c) /\ Ordered(c)
  BY DEF DeliveryInv
<1>11. InStep(c)'
  <2>1. CASE c = 0 /\ Virtual = NoRx /\ Requesting /\ Lost <= Aborted
    BY <1>6, <1>9, <2>1, GetRequesting DEF InStep, NoRx
  <2>2. CASE Answering(c) /\ Lost <= Aborted + (IF c = 0 THEN 0 ELSE 1)
    BY <1>6, <1>9, <2>2, GetAnswering DEF InStep
  <2>3. CASE c = 0 /\ Virtual = NoRx /\ OutOfStep /\ Lost + Stale <= Aborted
    BY <1>6, <1>9, <2>3, GetOutOfStep DEF InStep, NoRx
  <2> QED  BY <1>10, <2>1, <2>2, <2>3 DEF InStep
<1>12. QueueInv' /\ Ordered(c)'
  BY <1>0, <1>1, <1>10, QueueKept DEF DeliveryInv
<1> QED  BY <1>2, <1>7, <1>8, <1>10, <1>11, <1>12 DEF DeliveryInv, Codes

(* The engine stands still, and so does the master.                        *)
LEMMA ModeKept ==
  ASSUME EngineSame, UNCHANGED <<pos, rx, od_out, turn, popped, delivered, aborts>>,
         ~Pending, ~Pending', NEW c, InStep(c)
  PROVE  InStep(c)'
<1>1. /\ Taken' = Taken /\ Virtual' = Virtual /\ Half' = Half /\ Given' = Given
      /\ Lost' = Lost /\ Aborted' = Aborted /\ Stale' = Stale
      /\ TwoByteAnswer' = TwoByteAnswer
      /\ ReadOf(2)' = ReadOf(2) /\ ReadOf(0)' = ReadOf(0)
  BY DEF EngineSame, Taken, Virtual, Half, Given, Lost, Aborted, Stale, TwoByteAnswer, ReadOf
<1>2. UNCHANGED <<isdu_state, next_state, segment_seq, header, response_buf, response_idx,
                  is_response_control_sent>>
  BY DEF EngineSame
<1>3. Requesting => Requesting'
  BY <1>1, <1>2 DEF Requesting
<1>4. Answering(c) => Answering(c)'
  BY <1>1, <1>2 DEF Answering
<1>5. OutOfStep => OutOfStep'
  BY <1>1, <1>2 DEF OutOfStep
<1> QED  BY <1>1, <1>3, <1>4, <1>5 DEF InStep, NoRx

LEMMA OrderedKept ==
  ASSUME Past \in Nat, Past' \in Nat, Past <= Past', delivered' = delivered,
         \A i \in 1..Past : triggered'[i] = triggered[i],
         NEW c, Ordered(c)
  PROVE  Ordered(c)'
<1>1. PICK d \in [1..Len(delivered) -> 1..Past] : InOrder(d, c)
  BY DEF Ordered
<1>2. \A i \in 1..Len(delivered) : d[i] \in 1..Past /\ d[i] \in 1..Past'
  OBVIOUS
<1>3. d \in [1..Len(delivered') -> 1..Past']
  BY <1>2
<1>4. \A i \in 1..Len(delivered') : delivered'[i] = triggered'[d[i]]
  BY <1>1, <1>2 DEF InOrder
<1>5. \A i, j \in 1..Len(delivered') : i < j => d[i] < d[j]
  BY <1>1 DEF InOrder
<1>6. c # 0 => \E q \in 1..Past' : triggered'[q] = c /\ \A i \in 1..Len(delivered') : d[i] < q
  <2> SUFFICES ASSUME c # 0
               PROVE  \E q \in 1..Past' : triggered'[q] = c /\ \A i \in 1..Len(delivered) : d[i] < q
    OBVIOUS
  <2>1. PICK q \in 1..Past : triggered[q] = c /\ \A i \in 1..Len(delivered) : d[i] < q
    BY <1>1 DEF InOrder
  <2>2. q \in 1..Past' /\ triggered'[q] = c
    BY <2>1
  <2> QED  BY <2>1, <2>2
<1>7. InOrder(d, c)'
  BY <1>3, <1>4, <1>5, <1>6 DEF InOrder
<1> QED  BY <1>3, <1>7 DEF Ordered

LEMMA MatchAppend ==
  ASSUME NEW S, NEW C, NEW q \in Seq(S), NEW t \in Seq(C), NEW e \in S, e.code \in C,
         Matches(q, t)
  PROVE  Matches(Append(q, e), Append(t, e.code))
<1>1. PICK n, m \in Nat : n = Len(q) /\ m = Len(t)
  OBVIOUS
<1>2. n <= m /\ \A i \in 1..n : q[i].code = t[m - n + i]
  BY <1>1 DEF Matches
<1>3. PICK w, z : w = Append(q, e) /\ z = Append(t, e.code)
  OBVIOUS
<1>4. Len(w) = n + 1 /\ w[n + 1] = e /\ \A i \in 1..n : w[i] = q[i]
  BY <1>1, <1>3
<1>5. Len(z) = m + 1 /\ z[m + 1] = e.code /\ \A i \in 1..m : z[i] = t[i]
  BY <1>1, <1>3
<1>6. \A i \in 1..(n + 1) : w[i].code = z[m + 1 - (n + 1) + i]
  <2> TAKE i \in 1..(n + 1)
  <2>1. CASE i \in 1..n
    <3>1. m + 1 - (n + 1) + i = m - n + i /\ m - n + i \in 1..m
      BY <1>2, <2>1
    <3>2. w[i].code = t[m - n + i]
      BY <1>2, <1>4, <2>1
    <3> QED  BY <1>5, <3>1, <3>2
  <2>2. CASE i = n + 1
    <3>1. m + 1 - (n + 1) + i = m + 1
      BY <1>2, <2>2
    <3> QED  BY <1>4, <1>5, <2>2, <3>1
  <2> QED  BY <2>1, <2>2
<1>7. Matches(w, z)
  BY <1>2, <1>4, <1>5, <1>6 DEF Matches
<1> QED  BY <1>3, <1>7

LEMMA MatchTail ==
  ASSUME NEW S, NEW C, NEW q \in Seq(S), NEW t \in Seq(C), q # << >>, Matches(q, t)
  PROVE  Matches(Tail(q), t)
<1>1. PICK n, m \in Nat : n = Len(q) /\ m = Len(t)
  OBVIOUS
<1>2. n >= 1 /\ n <= m /\ \A i \in 1..n : q[i].code = t[m - n + i]
  BY <1>1 DEF Matches
<1>3. PICK r : r = Tail(q)
  OBVIOUS
<1>4. Len(r) = n - 1 /\ \A i \in 1..(n - 1) : r[i] = q[i + 1]
  BY <1>1, <1>3
<1>5. \A i \in 1..(n - 1) : r[i].code = t[m - (n - 1) + i]
  <2> TAKE i \in 1..(n - 1)
  <2>1. i + 1 \in 1..n /\ m - n + (i + 1) = m - (n - 1) + i
    BY <1>2
  <2>2. r[i].code = t[m - n + (i + 1)]
    BY <1>2, <1>4, <2>1
  <2> QED  BY <2>1, <2>2
<1>6. Matches(r, t)
  BY <1>1, <1>2, <1>4, <1>5 DEF Matches
<1> QED  BY <1>3, <1>6

(* What an event does to the queue and to the record of all events.        *)
LEMMA QueueGrows ==
  ASSUME events \in Seq(EventSet), triggered \in Seq(Codes), QueueInv, NEW e \in EventSet,
         I!TriggerEvent(e), Recorded(e)
  PROVE  /\ events' \in Seq(EventSet) /\ triggered' \in Seq(Codes) /\ QueueInv'
         /\ Past \in Nat /\ Past' \in Nat /\ Past <= Past'
         /\ \A i \in 1..Past : triggered'[i] = triggered[i]
<1>0. QueueSize \in Nat /\ QueueSize >= 1
  BY DeviceConstants
<1>1. PICK n, m \in Nat : n = Len(events) /\ m = Len(triggered)
  OBVIOUS
<1>2. n <= m
  BY <1>1 DEF QueueInv, Matches
<1>3. e.code \in Codes
  BY DEF EventSet
<1>4. /\ triggered' \in Seq(Codes) /\ Len(triggered') = m + 1
      /\ \A i \in 1..m : triggered'[i] = triggered[i]
  BY <1>1, <1>3 DEF Recorded
<1>5. PICK q \in Seq(EventSet) : /\ events' = Append(q, e) /\ Matches(q, triggered)
                                 /\ Len(q) \in Nat /\ Len(q) <= n
  <2>1. CASE n < QueueSize
    BY <1>1, <2>1 DEF I!TriggerEvent, QueueInv
  <2>2. CASE ~(n < QueueSize)
    <3>1. events # << >>
      BY <1>0, <1>1, <2>2
    <3>2. PICK r : r = Tail(events)
      OBVIOUS
    <3>3. r \in Seq(EventSet) /\ Len(r) = n - 1 /\ n >= 1
      BY <1>1, <3>1, <3>2
    <3>4. Matches(r, triggered)
      BY <3>1, <3>2, MatchTail DEF QueueInv
    <3>5. events' = Append(r, e)
      BY <1>1, <2>2, <3>2 DEF I!TriggerEvent
    <3> QED  BY <3>3, <3>4, <3>5
  <2> QED  BY <2>1, <2>2
<1>6. QueueInv'
  BY <1>3, <1>5, MatchAppend DEF QueueInv, Recorded
<1>7. events' \in Seq(EventSet) /\ Len(events') = Len(q) + 1
  BY <1>5
<1>8. Past = m - n /\ Past' = m + 1 - (Len(q) + 1)
  BY <1>1, <1>4, <1>7 DEF Past
<1>9. Past \in Nat /\ Past' \in Nat /\ Past <= Past' /\ Past <= m
  BY <1>2, <1>5, <1>8
<1>10. \A i \in 1..Past : triggered'[i] = triggered[i]
  BY <1>4, <1>9
<1> QED  BY <1>4, <1>6, <1>7, <1>9, <1>10

(* An event, from the DLL or from the application, between two frames.     *)
LEMMA EventKeeps ==
  ASSUME DeliveryInv, NEW e \in EventSet, I!TriggerEvent(e), Recorded(e),
         UNCHANGED <<master, od_out>>, ~Pending, ~Pending', TodoInv', PcInv'
  PROVE  DeliveryInv'
<1>0. /\ UNCHANGED <<pos, rx, aborts, delivered, popped, od_out>>
      /\ EngineSame /\ UNCHANGED turn
  BY DEF master, Recorded, I!TriggerEvent, I!request, I!response, EngineSame
<1>1. events \in Seq(EventSet) /\ triggered \in Seq(Codes) /\ QueueInv
  BY DEF DeliveryInv, DataInv
<1>2. /\ events' \in Seq(EventSet) /\ triggered' \in Seq(Codes) /\ QueueInv'
      /\ Past \in Nat /\ Past' \in Nat /\ Past <= Past'
      /\ \A i \in 1..Past : triggered'[i] = triggered[i]
  BY <1>1, QueueGrows
<1>3. DataInv'
  BY <1>0, <1>2 DEF DeliveryInv, DataInv, EngineSame, Headers, EventSet, Codes
<1>4. PICK c \in {0} \cup Codes : InStep(c) /\ Ordered(c)
  BY DEF DeliveryInv
<1>5. InStep(c)'
  BY <1>0, <1>4, ModeKept
<1>6. Ordered(c)'
  BY <1>0, <1>2, <1>4, OrderedKept
<1> QED  BY <1>2, <1>3, <1>4, <1>5, <1>6 DEF DeliveryInv, Codes

LEMMA TriggerKeeps ==
  ASSUME DeliveryInv, CallTrigger, Recorded(EventNamed(todo[1].arg)), UNCHANGED master
  PROVE  DeliveryInv'
<1>0. /\ Next1("trigger") /\ I!TriggerEvent(EventNamed(todo[1].arg)) /\ UNCHANGED od_out
      /\ UNCHANGED <<pc, out, frame_index>>
  BY DEF CallTrigger, Next1, vars, link, frame
<1>1. UNCHANGED <<turn, isdu_state>>
  BY <1>0 DEF I!TriggerEvent
<1>2. ~Pending /\ ~Pending' /\ TodoInv' /\ todo[1].arg \in EventCodes
  BY <1>0, <1>1, TriggerTodo DEF DeliveryInv
<1>3. EventNamed(todo[1].arg) \in EventSet
  <2>1. PICK n \in EventCodes : n = todo[1].arg
    BY <1>2
  <2>2. CodeOf[n] \in Codes
    BY DEF Codes
  <2>3. EventNamed(n) \in EventSet
    BY <2>2 DEF EventNamed, EventSet
  <2> QED  BY <2>1, <2>3
<1>4. PcInv'
  <2>1. todo # <<Call("process", 0)>>
    BY <1>0 DEF Next1, Call
  <2> QED  BY <1>0, <1>1, <1>2, <2>1 DEF DeliveryInv, PcInv, FrameJustDone
<1> QED  BY <1>0, <1>2, <1>3, <1>4, EventKeeps

LEMMA AppTriggersKeeps ==
  ASSUME DeliveryInv, AppTriggers
  PROVE  DeliveryInv'
<1>1. PICK code \in AppCodes :
        /\ AppEvent([code |-> code, type |-> "NOTIFICATION"])
        /\ Recorded([code |-> code, type |-> "NOTIFICATION"])
        /\ UNCHANGED master
  BY DEF AppTriggers
<1>2. PICK e : e = [code |-> code, type |-> "NOTIFICATION"]
  OBVIOUS
<1>3. e \in EventSet
  BY <1>2 DEF EventSet, Codes
<1>4. /\ I!TriggerEvent(e) /\ Recorded(e) /\ UNCHANGED <<master, od_out, todo>>
      /\ todo = << >> /\ UNCHANGED <<pc, out, frame_index>>
  BY <1>1, <1>2 DEF AppEvent, vars, link, frame
<1>5. UNCHANGED <<turn, isdu_state>>
  BY <1>4 DEF I!TriggerEvent
<1>6. ~Pending /\ ~Pending' /\ TodoInv'
  <2>1. todo' \in Seq(TriggerCalls)
    BY <1>4
  <2> QED  BY <1>4, <1>5, <2>1, NewTodo DEF DeliveryInv
<1>7. PcInv'
  BY <1>4, <1>5, <1>6 DEF DeliveryInv, PcInv, FrameJustDone
<1> QED  BY <1>3, <1>4, <1>6, <1>7, EventKeeps

(* iolink_isdu_process takes an event off the queue: its answer is to be   *)
(* given, or the request was an old one and the event is lost.             *)
LEMMA ProcessKeeps ==
  ASSUME Request = ReadEvent, DeliveryInv, CallProcess, UNCHANGED <<master, triggered, dropped>>,
         popped' = IF Len(events') < Len(events) THEN Append(popped, Head(events).code)
                                                 ELSE popped
  PROVE  DeliveryInv'
<1>0. /\ Next1("process") /\ I!process /\ UNCHANGED <<pc, out, frame_index>>
      /\ UNCHANGED <<pos, rx, aborts, delivered, triggered, od_out>>
  BY DEF CallProcess, Next1, vars, link, frame, master
<1>1. turn' = turn
  BY <1>0, ProcessTurn
<1>2. /\ ~Pending /\ ~Pending' /\ TodoInv' /\ todo = <<Call("process", 0)>>
      /\ todo' = << >>
  BY <1>0, <1>1, ProcessTodo DEF DeliveryInv
<1>3. isdu_state = "SERVICE_EXECUTE"
  BY <1>0 DEF I!process, I!SystemCommand, I!PopEvent, I!AccessLocks, I!DetailedStatus,
     I!DetailedStatusWrite, I!ErrorStats, I!ReadTag, I!WriteTag, I!DeviceStatus,
     I!PdinDescriptor, I!Identification, I!UnknownIndex, I!CanProcess
<1>4. PICK c \in {0} \cup Codes : InStep(c) /\ Ordered(c)
  BY DEF DeliveryInv
<1>5. /\ c = 0 /\ Virtual = NoRx /\ ReadOf(2)
      /\ \/ Requesting /\ Lost <= Aborted
         \/ OutOfStep /\ Lost + 1 <= Aborted
  BY <1>3, <1>4 DEF InStep, Requesting, Answering, OutOfStep, TwoByteAnswer, Stale
<1>6. I!PopEvent
  BY <1>0, <1>5, ReadOf2Pops
<1>7. /\ isdu_state' = "RESPONSE_READY" /\ response_len' = 2 /\ response_idx' = 0
      /\ segment_seq' = 0 /\ ~is_response_control_sent' /\ header' = header
  BY <1>6, PopAnswers
<1>8. TwoByteAnswer' /\ Given' = 0 /\ Stale' = 0
  BY <1>7 DEF TwoByteAnswer, Given, Stale
<1>9. pos \in Nat /\ Taken = pos /\ Taken' = pos /\ Virtual' = NoRx /\ Half' = 0
  <2>1. pos \in Nat /\ turn = "collect"
    BY <1>2 DEF DeliveryInv, DataInv, TodoInv, Elsewhere
  <2> QED  BY <1>0, <1>1, <1>2, <1>5, <2>1 DEF Taken, Virtual, Half, NoRx
<1>10. /\ events \in Seq(EventSet) /\ triggered \in Seq(Codes) /\ popped \in Seq(Codes)
       /\ QueueInv /\ aborts \in Int /\ delivered \in Seq(Codes)
  BY DEF DeliveryInv, DataInv
<1>11. Len(events) \in Nat /\ Len(triggered) \in Nat /\ Len(events) <= Len(triggered)
  BY <1>10 DEF QueueInv, Matches
<1>12. is_response_control_sent' \in BOOLEAN
  BY <1>6 DEF I!PopEvent, I!Respond, I!Ready
(* The new answer, n, and what is known of it.                             *)
<1>13. PICK n \in {0} \cup Codes :
         /\ response_buf' = <<n \div 256, n % 256>>
         /\ events' \in Seq(EventSet) /\ popped' \in Seq(Codes) /\ QueueInv'
         /\ Ordered(0)' /\ Ordered(n)'
         /\ Lost' = Lost + (IF n = 0 THEN 0 ELSE 1)
  <2>1. CASE events = << >>
    <3>1. events' = events /\ response_buf' = <<0 \div 256, 0 % 256>>
      BY <1>6, <2>1, PopAnswers
    <3>2. popped' = popped
      <4>1. ~(Len(events') < Len(events))
        BY <1>11, <3>1
      <4> QED  BY <4>1
    <3>3. QueueInv' /\ Ordered(0)'
      BY <1>0, <1>4, <1>5, <1>10, <3>1, QueueKept
    <3>4. Lost' = Lost + 0 /\ 0 \in {0} \cup Codes
      BY <1>0, <1>10, <3>2 DEF Lost
    <3> QED  BY <1>10, <3>1, <3>2, <3>3, <3>4
  <2>2. CASE events # << >>
    <3>1. PICK n \in Codes : n = Head(events).code
      <4>1. Head(events) \in EventSet
        BY <1>10, <2>2
      <4>2. \A e \in EventSet : e.code \in Codes
        BY DEF EventSet
      <4> QED  BY <4>1, <4>2
    <3>2. events' = Tail(events) /\ response_buf' = <<n \div 256, n % 256>>
      BY <1>6, <2>2, <3>1, PopAnswers
    <3>3. events' \in Seq(EventSet) /\ Len(events') = Len(events) - 1 /\ Len(events) >= 1
      BY <1>10, <2>2, <3>2
    <3>4. popped' = Append(popped, n)
      <4>1. Len(events') < Len(events)
        BY <1>11, <3>3
      <4> QED  BY <3>1, <4>1
    <3>5. popped' \in Seq(Codes) /\ Len(popped') = Len(popped) + 1
      BY <1>10, <3>1, <3>4
    <3>6. QueueInv'
      BY <1>0, <1>10, <2>2, <3>2, MatchTail DEF QueueInv
    <3>7. Past \in Nat /\ Past' = Past + 1 /\ Past + 1 <= Len(triggered)
      BY <1>0, <1>11, <3>3 DEF Past
    <3>8. Ordered(0)'
      BY <1>0, <1>4, <1>5, <3>7, OrderedKept
    <3>9. n # 0
      BY <3>1, CodesAre DEF CodeFacts
    <3>10. triggered'[Past + 1] = n
      <4>1. events[1].code = triggered[Len(triggered) - Len(events) + 1]
        BY <1>10, <1>11, <3>3 DEF QueueInv, Matches
      <4>2. events[1].code = n
        BY <1>10, <2>2, <3>1
      <4> QED  BY <1>0, <4>1, <4>2 DEF Past
    <3>11. Ordered(n)'
      <4>2. PICK d0 \in [1..Len(delivered) -> 1..Past] : InOrder(d0, c)
        BY <1>4 DEF Ordered
      <4>3. \A i \in 1..Len(delivered) : d0[i] \in 1..Past /\ d0[i] < Past + 1
        BY <3>7, <4>2
      <4>4. d0 \in [1..Len(delivered') -> 1..Past']
        BY <1>0, <3>7, <4>3
      <4>5. /\ \A i \in 1..Len(delivered') : delivered'[i] = triggered'[d0[i]]
            /\ \A i, j \in 1..Len(delivered') : i < j => d0[i] < d0[j]
        BY <1>0, <4>2 DEF InOrder
      <4>6. Past + 1 \in 1..Past' /\ \A i \in 1..Len(delivered') : d0[i] < Past + 1
        BY <1>0, <3>7, <4>3
      <4>7. InOrder(d0, n)'
        BY <3>10, <4>4, <4>5, <4>6 DEF InOrder
      <4> QED  BY <4>4, <4>7 DEF Ordered
    <3>12. Lost' = Lost + 1
      BY <1>0, <1>10, <3>5 DEF Lost
    <3> QED  BY <3>1, <3>2, <3>3, <3>5, <3>6, <3>8, <3>9, <3>11, <3>12
  <2> QED  BY <2>1, <2>2
<1>14. Aborted' = Aborted /\ Lost \in Int /\ Aborted \in Int
  BY <1>0, <1>10, MasterConstants DEF Aborted, Lost
<1>15. DataInv'
  BY <1>0, <1>7, <1>12, <1>13 DEF DeliveryInv, DataInv, Headers, EventSet, Codes
<1>16. PcInv'
  BY <1>2, <1>7 DEF PcInv
<1>17. CASE Requesting /\ Lost <= Aborted
  <2>1. pos >= 8
    BY <1>3, <1>9, <1>17 DEF Requesting
  <2>2. Virtual' = RxAt(0, n)
    BY <1>9, RxIs
  <2>3. Answering(n)'
    BY <1>0, <1>2, <1>7, <1>8, <1>13, <2>1, <2>2 DEF Answering
  <2>4. Lost' <= Aborted' + (IF n = 0 THEN 0 ELSE 1)
    BY <1>13, <1>14, <1>17
  <2>5. InStep(n)'
    BY <2>3, <2>4 DEF InStep
  <2> QED  BY <1>2, <1>13, <1>15, <1>16, <2>5 DEF DeliveryInv, Codes
<1>18. CASE OutOfStep /\ Lost + 1 <= Aborted
  <2>1. Taken = 0 \/ Taken = 1 \/ Taken = 2
    BY <1>3, <1>18 DEF OutOfStep, TwoByteAnswer
  <2>2. OutOfStep'
    <3>1. Given' + Half' = 0 /\ 0 = 2 - 2
      BY <1>8, <1>9
    <3> QED  BY <1>7, <1>8, <1>9, <2>1, <3>1 DEF OutOfStep
  <2>3. Lost' + Stale' <= Aborted'
    BY <1>8, <1>13, <1>14, <1>18
  <2>4. InStep(0)'
    BY <1>9, <2>2, <2>3 DEF InStep, NoRx
  <2> QED  BY <1>2, <1>13, <1>15, <1>16, <2>4 DEF DeliveryInv, Codes
<1> QED  BY <1>5, <1>17, <1>18

(* What the master makes of the stages of an answer.                       *)
LEMMA RxFields ==
  ASSUME NEW c
  PROVE  /\ ~Complete(NoRx) /\ ~NoRx.on /\ CodesIn(NoRx) = << >>
         /\ ~Complete(RxAt(1, c)) /\ RxAt(1, c).on
         /\ ~Complete(RxAt(2, c)) /\ RxAt(2, c).on
         /\ ~Complete(RxAt(3, c)) /\ RxAt(3, c).on
         /\ Complete(RxAt(4, c)) /\ RxAt(4, c).on
<1>1. ~Complete(NoRx) /\ ~NoRx.on /\ CodesIn(NoRx) = << >>
  BY DEF Complete, NoRx, CodesIn
<1>2. ~Complete(RxAt(1, c)) /\ RxAt(1, c).on
  BY RxIs DEF Complete
<1>3. ~Complete(RxAt(2, c)) /\ RxAt(2, c).on
  BY RxIs DEF Complete
<1>4. ~Complete(RxAt(3, c)) /\ RxAt(3, c).on
  BY RxIs DEF Complete
<1>5. Complete(RxAt(4, c)) /\ RxAt(4, c).on
  BY RxIs DEF Complete
<1> QED  BY <1>1, <1>2, <1>3, <1>4, <1>5

LEMMA CodesHeard ==
  ASSUME NEW c \in {0} \cup Codes
  PROVE  CodesIn(RxAt(4, c)) = IF c = 0 THEN << >> ELSE <<c>>
<1>1. PICK h, l : h = c \div 256 /\ l = c % 256
  OBVIOUS
<1>2. PICK r : r = RxAt(4, c)
  OBVIOUS
<1>3. r.data = <<h, l>>
  BY <1>1, <1>2, RxIs
<1>4. Len(r.data) = 2 /\ r.data[1] = h /\ r.data[2] = l
  BY <1>3
<1>5. CASE c = 0
  <2>1. h = 0
    BY <1>1, <1>5
  <2> QED  BY <1>2, <1>4, <1>5, <2>1 DEF CodesIn
<1>6. CASE c # 0
  <2>1. CodeFacts(c)
    BY <1>6, CodesAre
  <2>2. h \notin {0, 128} /\ 256 * h + l = c
    BY <1>1, <2>1 DEF CodeFacts
  <2> QED  BY <1>2, <1>4, <1>6, <2>2 DEF CodesIn
<1> QED  BY <1>5, <1>6

(* The answer c is received as the last of the events.                     *)
LEMMA OrderedDelivery ==
  ASSUME delivered \in Seq(Codes), NEW c \in Codes, Past \in Nat, Ordered(c), c # 0,
         UNCHANGED <<triggered, events>>, delivered' = Append(delivered, c)
  PROVE  Ordered(0)'
<1>1. PICK d \in [1..Len(delivered) -> 1..Past] : InOrder(d, c)
  BY DEF Ordered
<1>2. PICK q \in 1..Past : triggered[q] = c /\ \A i \in 1..Len(delivered) : d[i] < q
  BY <1>1 DEF InOrder
<1>3. PICK n \in Nat : n = Len(delivered)
  OBVIOUS
<1>4. /\ Len(delivered') = n + 1 /\ delivered'[n + 1] = c
      /\ \A i \in 1..n : delivered'[i] = delivered[i]
  BY <1>3
<1>5. Past' = Past
  BY DEF Past
<1> DEFINE f == [i \in 1..(n + 1) |-> IF i <= n THEN d[i] ELSE q]
<1>6. /\ \A i \in 1..n : f[i] = d[i] /\ d[i] \in 1..Past /\ d[i] < q
      /\ f[n + 1] = q
  BY <1>1, <1>2, <1>3
<1>7. f \in [1..(n + 1) -> 1..Past]
  BY <1>2, <1>3, <1>6
<1> HIDE DEF f
<1>8. \A i \in 1..(n + 1) : delivered'[i] = triggered'[f[i]]
  <2> TAKE i \in 1..(n + 1)
  <2>1. CASE i \in 1..n
    BY <1>1, <1>3, <1>4, <1>6, <2>1 DEF InOrder
  <2>2. CASE i = n + 1
    BY <1>2, <1>4, <1>6, <2>2
  <2>3. i \in 1..n \/ i = n + 1
    OBVIOUS
  <2> QED  BY <2>1, <2>2, <2>3
<1>9. \A i, j \in 1..(n + 1) : i < j => f[i] < f[j]
  <2> SUFFICES ASSUME NEW i \in 1..(n + 1), NEW j \in 1..(n + 1), i < j
               PROVE  f[i] < f[j]
    OBVIOUS
  <2>0. i \in 1..n
    OBVIOUS
  <2>1. CASE j \in 1..n
    BY <1>1, <1>3, <1>6, <2>0, <2>1 DEF InOrder
  <2>2. CASE j = n + 1
    BY <1>6, <2>0, <2>2
  <2> QED  BY <2>1, <2>2
<1>10. InOrder(f, 0)'
  BY <1>4, <1>5, <1>7, <1>8, <1>9 DEF InOrder
<1> QED  BY <1>4, <1>5, <1>7, <1>10 DEF Ordered

LEMMA PastIsNat ==
  ASSUME DeliveryInv
  PROVE  Past \in Nat
BY DEF DeliveryInv, DataInv, QueueInv, Matches, Past

(* Whatever order holds with an answer on its way holds without it.        *)
LEMMA OrderedWithout ==
  ASSUME NEW c, Ordered(c)
  PROVE  Ordered(0)
BY DEF Ordered, InOrder

(* The response is sent: the master takes in what it heard of an answer,   *)
(* and starts over when the answer is complete or none came.               *)
LEMMA HearsKeeps ==
  ASSUME Request = ReadEvent, DeliveryInv, MasterHears
  PROVE  DeliveryInv'
<1>0. /\ Next1("send") /\ UNCHANGED <<turn, od_out, events, triggered, popped, aborts>>
      /\ UNCHANGED <<pc, out, frame_index>> /\ EngineSame
  BY DEF MasterHears, CallSend, Next1, vars, link, frame, isdu_vars, history, EngineSame
<1>1. /\ Pending /\ ~Pending' /\ turn = "collect" /\ (Len(od_out) = 1 \/ Len(od_out) = 2)
      /\ Taken = pos + Len(od_out) /\ Taken' = pos' /\ TodoInv'
      /\ Half = 0 /\ Half' = 0 /\ todo' = << >>
  BY <1>0, SendTodo DEF DeliveryInv
<1>2. /\ pos \in Nat /\ delivered \in Seq(Codes) /\ popped \in Seq(Codes) /\ aborts \in Int
      /\ Len(Request) = 8 /\ Patience \in Nat
  BY RequestBytes, MasterConstants DEF DeliveryInv, DataInv
<1>13. PICK n \in Nat : n = Len(od_out) /\ n >= 1 /\ Taken = pos + n
  <2>1. Len(od_out) \in Nat /\ Len(od_out) >= 1
    BY <1>1
  <2> QED  BY <1>1, <2>1
<1>3. Virtual = Heard /\ Virtual' = rx' /\ (pos < 8 => Heard = NoRx)
  BY <1>1, <1>2 DEF Virtual, Heard
<1>4. /\ ReadOf(0)' = ReadOf(0) /\ ReadOf(2)' = ReadOf(2) /\ TwoByteAnswer' = TwoByteAnswer
      /\ Given' = Given /\ Stale' = Stale /\ Aborted' = Aborted
  BY <1>0 DEF EngineSame, ReadOf, TwoByteAnswer, Given, Stale, Aborted
<1>5. PcInv'
  BY <1>0, <1>1 DEF DeliveryInv, PcInv, FrameJustDone, EngineSame
<1>6. QueueInv'
  BY <1>0 DEF DeliveryInv, QueueInv
<1>7. PICK c \in {0} \cup Codes : InStep(c) /\ Ordered(c)
  BY DEF DeliveryInv
<1>8. ASSUME pos' = Taken, rx' = Heard, delivered' = delivered, InStep(c)'
      PROVE  DeliveryInv'
  <2>1. DataInv'
    <3>1. pos' \in Nat /\ (pos' < 8 => rx' = NoRx)
      BY <1>1, <1>2, <1>3, <1>8
    <3> QED  BY <1>0, <1>8, <3>1 DEF DeliveryInv, DataInv, EngineSame, Headers, EventSet, Codes, NoRx
  <2>2. Ordered(c)'
    BY <1>0, <1>7, <1>8, QueueKept
  <2> QED  BY <1>1, <1>5, <1>6, <1>7, <1>8, <2>1, <2>2 DEF DeliveryInv, Codes
<1>9. ASSUME pos' = 0, rx' = NoRx, isdu_state = "IDLE", delivered' \in Seq(Codes),
             Lost' <= Aborted, Ordered(0)'
      PROVE  DeliveryInv'
  <2>1. DataInv'
    BY <1>0, <1>9 DEF DeliveryInv, DataInv, EngineSame, Headers, EventSet, Codes, NoRx
  <2>2. OutOfStep'
    BY <1>0, <1>1, <1>9 DEF OutOfStep, EngineSame
  <2>3. Lost' + Stale' <= Aborted'
    <3>1. Lost' \in Int /\ Stale' = 0
      BY <1>0, <1>2, <1>4, <1>9 DEF Lost, Stale
    <3> QED  BY <1>4, <1>9, <3>1
  <2>4. InStep(0)'
    BY <1>3, <1>9, <2>2, <2>3 DEF InStep, NoRx
  <2> QED  BY <1>1, <1>5, <1>6, <1>9, <2>1, <2>4 DEF DeliveryInv, Codes
<1>10. CASE c = 0 /\ Virtual = NoRx /\ Requesting /\ Lost <= Aborted
  <2>1. pos < 8
    <3>1. \/ Taken = 1 \/ Taken = 2 \/ Taken = 3 \/ Taken = 4 \/ Taken = 5
          \/ Taken = 6 \/ Taken = 7 \/ pos < 8
      BY <1>1, <1>10 DEF Requesting
    <3> QED  BY <1>1, <1>2, <3>1
  <2>2. ~(pos >= Len(Request) + Patience) /\ ~Complete(Heard)
    BY <1>2, <1>3, <1>10, <2>1, RxFields
  <2>3. pos' = Taken /\ rx' = Heard /\ delivered' = delivered
    BY <1>1, <2>2 DEF MasterHears
  <2>4. Requesting'
    BY <1>0, <1>1, <1>4, <1>10, <2>3 DEF Requesting, EngineSame
  <2>5. Lost' = Lost
    BY <1>0, <2>3 DEF Lost
  <2>6. InStep(c)'
    BY <1>3, <1>4, <1>10, <2>3, <2>4, <2>5 DEF InStep, NoRx
  <2> QED  BY <1>8, <2>3, <2>6
<1>11. CASE Answering(c) /\ Lost <= Aborted + (IF c = 0 THEN 0 ELSE 1)
  <2>0. pos >= 8
    BY <1>11 DEF Answering
  <2>1. CASE /\ TwoByteAnswer /\ response_buf = <<c \div 256, c % 256>>
             /\ segment_seq = response_idx
             /\ Virtual = RxAt(Given, c)
             /\ Pending => Given >= Len(od_out)
    <3>1. Given = 0 \/ Given = 1 \/ Given = 2 \/ Given = 3
      BY <2>1 DEF Given, TwoByteAnswer
    <3>2. Given = 1 \/ Given = 2 \/ Given = 3
      <4>1. Given >= n
        BY <1>1, <1>13, <2>1
      <4> QED  BY <1>13, <3>1, <4>1
    <3>3. ~Complete(Heard) /\ Heard.on
      BY <1>3, <2>1, <3>2, RxFields
    <3>4. pos' = Taken /\ rx' = Heard /\ delivered' = delivered
      BY <1>1, <3>3 DEF MasterHears
    <3>5. pos' >= 8
      BY <1>1, <1>2, <2>0, <3>4
    <3>6. Answering(c)'
      BY <1>0, <1>1, <1>3, <1>4, <2>1, <3>4, <3>5 DEF Answering, EngineSame
    <3>7. Lost' = Lost
      BY <1>0, <3>4 DEF Lost
    <3>8. InStep(c)'
      BY <1>4, <1>11, <3>6, <3>7 DEF InStep
    <3> QED  BY <1>8, <3>4, <3>8
  <2>2. CASE isdu_state = "IDLE" /\ Pending /\ Virtual = RxAt(4, c)
    <3>1. Complete(Heard)
      BY <1>3, <2>2, RxFields
    <3>2. pos' = 0 /\ rx' = NoRx /\ delivered' = delivered \o CodesIn(Heard)
      BY <3>1 DEF MasterHears
    <3>3. CASE c = 0
      <4>1. delivered' = delivered
        <5>1. CodesIn(Heard) = << >>
          BY <1>3, <2>2, <3>3, CodesHeard
        <5>2. delivered \o << >> = delivered
          BY <1>2
        <5> QED  BY <3>2, <5>1, <5>2
      <4>2. Lost' <= Aborted /\ Ordered(0)'
        <5>1. Lost \in Int /\ Aborted \in Int /\ Lost' = Lost
          BY <1>0, <1>2, <4>1, MasterConstants DEF Lost, Aborted
        <5> QED  BY <1>0, <1>7, <1>11, <3>3, <4>1, <5>1, QueueKept
      <4> QED  BY <1>2, <1>9, <2>2, <3>2, <4>1, <4>2
    <3>4. CASE c # 0
      <4>0. c \in Codes
        BY <1>7, <3>4
      <4>1. CodesIn(Heard) = <<c>>
        BY <1>3, <2>2, <3>4, <4>0, CodesHeard
      <4>2. delivered' = Append(delivered, c) /\ delivered' \in Seq(Codes)
        <5>1. delivered \o <<c>> = Append(delivered, c)
          BY <1>2, <4>0
        <5>2. Append(delivered, c) \in Seq(Codes)
          BY <1>2, <4>0
        <5> QED  BY <3>2, <4>1, <5>1, <5>2
      <4>3. Len(delivered') = Len(delivered) + 1
        BY <1>2, <4>2
      <4>4. Lost' <= Aborted
        <5>1. /\ Len(popped) \in Nat /\ Len(delivered) \in Nat /\ Aborted \in Int
              /\ popped' = popped
          BY <1>0, <1>2, MasterConstants DEF Aborted
        <5>2. Len(popped) - Len(delivered) <= Aborted + 1
          BY <1>11, <3>4 DEF Lost
        <5> QED  BY <4>3, <5>1, <5>2 DEF Lost
      <4>5. Ordered(0)'
        BY <1>0, <1>2, <1>7, <3>4, <4>0, <4>2, OrderedDelivery, PastIsNat
      <4> QED  BY <1>9, <2>2, <3>2, <4>2, <4>4, <4>5
    <3> QED  BY <3>3, <3>4
  <2> QED  BY <1>11, <2>1, <2>2 DEF Answering
<1>12. CASE c = 0 /\ Virtual = NoRx /\ OutOfStep /\ Lost + Stale <= Aborted
  <2>0. ~Complete(Heard) /\ ~Heard.on /\ CodesIn(Heard) = << >>
    BY <1>3, <1>12, RxFields
  <2>1. CASE pos >= 8 + Patience
    <3>1. pos' = 0 /\ rx' = NoRx /\ delivered' = delivered
      BY <1>2, <2>0, <2>1 DEF MasterHears
    <3>2. Taken >= 9
      BY <1>2, <1>13, <2>1
    <3>3. isdu_state = "IDLE"
      <4>1. TwoByteAnswer => Given = 0 \/ Given = 1 \/ Given = 2 \/ Given = 3
        BY DEF TwoByteAnswer, Given
      <4>2. ~(TwoByteAnswer /\ Given + Half \in {Taken - 2, Taken - 1})
        BY <1>1, <1>2, <3>2, <4>1
      <4> QED  BY <1>12, <3>2, <4>2 DEF OutOfStep
    <3>4. Lost' <= Aborted
      BY <1>0, <1>2, <1>12, <3>1, <3>3, MasterConstants DEF Lost, Aborted, Stale
    <3>5. Ordered(0)'
      BY <1>0, <1>7, <1>12, <3>1, QueueKept
    <3> QED  BY <1>2, <1>9, <3>1, <3>3, <3>4, <3>5
  <2>2. CASE ~(pos >= 8 + Patience)
    <3>1. pos' = Taken /\ rx' = Heard /\ delivered' = delivered
      BY <1>1, <1>2, <2>0, <2>2 DEF MasterHears
    <3>2. Taken >= 1
      BY <1>2, <1>13
    <3>3. OutOfStep'
      BY <1>0, <1>1, <1>4, <1>12, <3>1, <3>2 DEF OutOfStep, EngineSame
    <3>4. Lost' = Lost
      BY <1>0, <3>1 DEF Lost
    <3>5. InStep(c)'
      BY <1>3, <1>4, <1>12, <3>1, <3>3, <3>4 DEF InStep, NoRx
    <3> QED  BY <1>8, <3>1, <3>5
  <2> QED  BY <2>1, <2>2
<1> QED  BY <1>7, <1>10, <1>11, <1>12 DEF InStep

(* The master starts afresh: whatever the engine was about, it is out of   *)
(* step now, and one more loss is accounted for.                           *)
LEMMA AbortKeeps ==
  ASSUME DeliveryInv, MasterAborts
  PROVE  DeliveryInv'
<1>0. /\ UNCHANGED <<turn, todo, od_out, events, triggered, popped, delivered>>
      /\ UNCHANGED <<pc, out, frame_index>> /\ EngineSame
      /\ todo = << >> /\ pos' = 0 /\ rx' = NoRx /\ aborts' = aborts - 1
  BY DEF MasterAborts, device_vars, vars, link, frame, isdu_vars, history, EngineSame
<1>1. ~Pending /\ ~Pending' /\ TodoInv'
  BY <1>0, NewTodo DEF DeliveryInv
<1>2. PICK c \in {0} \cup Codes : InStep(c) /\ Ordered(c)
  BY DEF DeliveryInv
<1>3. QueueInv' /\ Ordered(0)'
  BY <1>0, <1>2, OrderedWithout, QueueKept DEF DeliveryInv
<1>4. DataInv'
  BY <1>0 DEF DeliveryInv, DataInv, EngineSame, Headers, EventSet, Codes, NoRx
<1>5. PcInv'
  BY <1>0, <1>1 DEF DeliveryInv, PcInv, FrameJustDone, EngineSame
<1>6. Taken' = 0 /\ Virtual' = NoRx
  BY <1>0, <1>1 DEF Taken, Virtual, NoRx
<1>7. /\ isdu_state \in {"IDLE", "HEADER_INITIAL", "HEADER_INDEX_HIGH", "HEADER_INDEX_LOW",
                        "HEADER_SUBINDEX", "SEGMENT_COLLECT", "SERVICE_EXECUTE",
                        "RESPONSE_READY"}
      /\ isdu_state \in {"HEADER_SUBINDEX", "SERVICE_EXECUTE"} => ReadOf(2)
  <2>1. CASE Requesting
    BY <2>1 DEF Requesting
  <2>2. CASE Answering(c)
    BY <2>2 DEF Answering, TwoByteAnswer
  <2>3. CASE OutOfStep
    BY <2>3 DEF OutOfStep, TwoByteAnswer
  <2> QED  BY <1>2, <2>1, <2>2, <2>3 DEF InStep
<1>8. OutOfStep'
  BY <1>0, <1>6, <1>7 DEF OutOfStep, EngineSame, ReadOf
<1>9. Lost' + Stale' <= Aborted'
  <2>1. /\ Lost' = Lost /\ Stale' = Stale /\ Aborted' = Aborted + 1
        /\ Lost \in Int /\ Aborted \in Int /\ (Stale = 0 \/ Stale = 1)
    BY <1>0, MasterConstants DEF DeliveryInv, DataInv, EngineSame, Lost, Stale, Aborted
  <2>2. CASE Requesting /\ Lost <= Aborted
    BY <2>1, <2>2
  <2>3. CASE Answering(c) /\ Lost <= Aborted + (IF c = 0 THEN 0 ELSE 1)
    <3>1. Stale = 0
      BY <2>3 DEF Answering, TwoByteAnswer, Stale
    <3> QED  BY <2>1, <2>3, <3>1
  <2>4. CASE OutOfStep /\ Lost + Stale <= Aborted
    BY <2>1, <2>4
  <2> QED  BY <1>2, <2>2, <2>3, <2>4 DEF InStep
<1>10. InStep(0)'
  BY <1>6, <1>8, <1>9 DEF InStep, NoRx
<1> QED  BY <1>1, <1>3, <1>4, <1>5, <1>10 DEF DeliveryInv, Codes

-----------------------------------------------------------------------------
(* The steps of the DLL *)

LEMMA TriggersTyped ==
  ASSUME NEW evs \in Seq(EventCodes)
  PROVE  Triggers(evs) \in Seq(TriggerCalls)
<1>1. Len(evs) \in Nat /\ \A i \in 1..Len(evs) : Call("trigger", evs[i]) \in TriggerCalls
  BY DEF TriggerCalls
<1> QED  BY <1>1 DEF Triggers

(* A complete request waits for the end of the call, or for the next one.  *)
LEMMA WhereExecuted ==
  ASSUME DeliveryInv, todo = << >>, isdu_state = "SERVICE_EXECUTE"
  PROVE  FrameJustDone \/ pc = "idle"
<1>1. ~Pending
  BY NoTodo DEF DeliveryInv
<1>2. todo # <<Call("process", 0)>>
  OBVIOUS
<1> QED  BY <1>1, <1>2 DEF DeliveryInv, PcInv

(* A step that leaves the engine and the master alone.                     *)
LEMMA StillKeeps ==
  ASSUME DeliveryInv, Between, UNCHANGED <<od_out, master, history>>,
         todo' \in Seq(TriggerCalls) \/ todo' = <<Call("process", 0)>>,
         isdu_state = "SERVICE_EXECUTE" =>
           FrameJustDone' \/ pc' = "idle" \/ (pc' = "gate" /\ todo' = <<Call("process", 0)>>)
  PROVE  DeliveryInv'
<1>0. /\ UNCHANGED <<turn, od_out, events, triggered, popped, delivered, pos, rx, aborts>>
      /\ EngineSame /\ todo = << >>
  BY DEF Between, isdu_vars, master, history, EngineSame
<1>1. ~Pending /\ ~Pending' /\ TodoInv'
  BY <1>0, NewTodo DEF DeliveryInv
<1>2. PICK c \in {0} \cup Codes : InStep(c) /\ Ordered(c)
  BY DEF DeliveryInv
<1>3. InStep(c)'
  BY <1>0, <1>1, <1>2, ModeKept
<1>4. QueueInv' /\ Ordered(c)'
  BY <1>0, <1>2, QueueKept DEF DeliveryInv
<1>5. DataInv'
  BY <1>0 DEF DeliveryInv, DataInv, EngineSame, Headers, EventSet, Codes, NoRx
<1>6. PcInv'
  BY <1>0, <1>1 DEF PcInv, EngineSame
<1> QED  BY <1>1, <1>2, <1>3, <1>4, <1>5, <1>6 DEF DeliveryInv, Codes

LEMMA QuietKeeps ==
  ASSUME DeliveryInv, UNCHANGED <<master, history>>,
         \/ MasterByte \/ MasterTransition \/ Corrupt \/ Pause
         \/ QuietStep(FrameTransition(FALSE))
         \/ QuietStep(SioPoll(frame_index = 0)) \/ QuietStep(SilenceCheck)
         \/ QuietStep(DwuOver) \/ QuietStep(LoopEnd)
  PROVE  DeliveryInv'
<1>1. Between /\ todo' = Triggers(out'.events) /\ UNCHANGED od_out /\ todo = << >>
  BY DEF MasterByte, MasterTransition, Corrupt, Pause, QuietStep, Between
<1>2. out'.events \in Seq(EventCodes)
  <2>1. CASE MasterByte
    BY <2>1, QuietEvents DEF MasterByte, QuietStep
  <2>2. CASE MasterTransition
    BY <2>2, QuietEvents DEF MasterTransition, QuietStep
  <2>3. CASE Corrupt
    BY <2>3, QuietEvents DEF Corrupt, QuietStep
  <2>4. CASE Pause
    BY <2>4, QuietEvents DEF Pause, QuietStep, Tick
  <2>5. CASE QuietStep(FrameTransition(FALSE)) \/ QuietStep(SilenceCheck)
    BY <2>5, QuietEvents DEF QuietStep
  <2>6. CASE QuietStep(SioPoll(frame_index = 0))
    BY <2>6, QuietEvents DEF QuietStep, SioPoll
  <2>7. CASE QuietStep(DwuOver) \/ QuietStep(LoopEnd)
    BY <2>7, QuietEvents DEF QuietStep, DwuOver, LoopEnd
  <2> QED  BY <2>1, <2>2, <2>3, <2>4, <2>5, <2>6, <2>7
<1>3. todo' \in Seq(TriggerCalls)
  BY <1>1, <1>2, TriggersTyped
<1>4. isdu_state = "SERVICE_EXECUTE" => pc' = "idle"
  <2> SUFFICES ASSUME isdu_state = "SERVICE_EXECUTE"
               PROVE  pc' = "idle"
    OBVIOUS
  <2>0. pc = "idle" \/ (pc = "loop" /\ out.frame = "good" /\ frame_index = 0)
    BY <1>1, WhereExecuted DEF FrameJustDone
  <2>1. CASE MasterByte
    BY <2>0, <2>1 DEF MasterByte, QuietStep, RecvByte, Answered
  <2>2. CASE MasterTransition
    BY <2>0, <2>2 DEF MasterTransition, QuietStep, RecvByte, Answered
  <2>3. CASE Corrupt
    BY <2>0, <2>3 DEF Corrupt, QuietStep, FrameBadCrc, FrameDone
  <2>4. CASE Pause
    BY <2>0, <2>4 DEF Pause, QuietStep, Tick
  <2>5. CASE QuietStep(FrameTransition(FALSE))
    BY <2>0, <2>5 DEF QuietStep, FrameTransition, FrameDone
  <2>6. CASE QuietStep(SioPoll(frame_index = 0)) \/ QuietStep(SilenceCheck)
    BY <2>0, <2>6 DEF QuietStep, SioPoll, SilenceCheck
  <2>7. CASE QuietStep(DwuOver) \/ QuietStep(LoopEnd)
    BY <2>0, <2>7 DEF QuietStep, DwuOver, LoopEnd
  <2> QED  BY <2>1, <2>2, <2>3, <2>4, <2>5, <2>6, <2>7
<1> QED  BY <1>1, <1>3, <1>4, StillKeeps

LEMMA BeginKeeps ==
  ASSUME DeliveryInv, UNCHANGED <<master, history>>, BeginCall(FALSE, FALSE)
  PROVE  DeliveryInv'
<1>1. Between /\ UNCHANGED od_out /\ pc' = "gate" /\ out'.events = << >>
  BY DEF BeginCall, Begin, Output, Diagnostics
<1>2. Triggers(<< >>) = << >>
  BY DEF Triggers
<1>3. todo' = ProcessCall \o << >>
  BY <1>1, <1>2 DEF BeginCall
<1>4. CASE isdu_state = "SERVICE_EXECUTE"
  <2>1. todo' = <<Call("process", 0)>>
    BY <1>3, <1>4 DEF ProcessCall
  <2> QED  BY <1>1, <2>1, StillKeeps
<1>5. CASE isdu_state # "SERVICE_EXECUTE"
  <2>1. todo' \in Seq(TriggerCalls)
    BY <1>3, <1>5 DEF ProcessCall
  <2> QED  BY <1>1, <1>5, <2>1, StillKeeps
<1> QED  BY <1>4, <1>5

LEMMA SameSeq ==
  ASSUME NEW S, NEW s \in Seq(S), NEW t \in Seq(S), Len(s) = Len(t),
         \A i \in 1..Len(s) : s[i] = t[i]
  PROVE  s = t
OBVIOUS

(* The calls of a frame of one byte, and of a frame of two.                *)
LEMMA JoinedCalls ==
  ASSUME NEW a, NEW b, NEW g, NEW s
  PROVE  /\ << >> \o <<a, g>> \o <<s>> = <<a, g, s>>
         /\ << >> \o <<a, g>> \o <<s>> \o << >> = <<a, g, s>>
         /\ << >> \o <<a, g, b, g>> \o <<s>> \o << >> = <<a, g, b, g, s>>
<1>1. PICK S : S = {a, b, g, s}
  OBVIOUS
<1>2. \A t \in Seq(S) : << >> \o t = t /\ t \o << >> = t
  OBVIOUS
<1>6. \A t, u \in Seq(S) : t \o u \in Seq(S)
  OBVIOUS
<1>3. /\ <<a, g>> \in Seq(S) /\ <<a, g, b, g>> \in Seq(S) /\ <<s>> \in Seq(S)
      /\ <<a, g, s>> \in Seq(S) /\ <<a, g, b, g, s>> \in Seq(S)
  BY <1>1
<1>4. <<a, g>> \o <<s>> = <<a, g, s>>
  <2>1. PICK w \in Seq(S) : w = <<a, g>> \o <<s>>
    BY <1>3, <1>6
  <2>2. Len(w) = 3 /\ w[1] = a /\ w[2] = g /\ w[3] = s
    BY <2>1
  <2>3. PICK u \in Seq(S) : u = <<a, g, s>>
    BY <1>3
  <2>4. Len(u) = 3 /\ u[1] = a /\ u[2] = g /\ u[3] = s
    BY <2>3
  <2>5. w = u
    BY <2>2, <2>4, SameSeq
  <2> QED  BY <2>1, <2>3, <2>5
<1>5. <<a, g, b, g>> \o <<s>> = <<a, g, b, g, s>>
  <2>1. PICK w \in Seq(S) : w = <<a, g, b, g>> \o <<s>>
    BY <1>3, <1>6
  <2>2. Len(w) = 5 /\ w[1] = a /\ w[2] = g /\ w[3] = b /\ w[4] = g /\ w[5] = s
    BY <2>1
  <2>3. PICK u \in Seq(S) : u = <<a, g, b, g, s>>
    BY <1>3
  <2>4. Len(u) = 5 /\ u[1] = a /\ u[2] = g /\ u[3] = b /\ u[4] = g /\ u[5] = s
    BY <2>3
  <2>5. w = u
    BY <2>2, <2>4, SameSeq
  <2> QED  BY <2>1, <2>3, <2>5
<1> QED  BY <1>2, <1>3, <1>4, <1>5

LEMMA OdCallsOfOne ==
  ASSUME NEW bytes, NEW a, bytes \in Seq({a}), Len(bytes) = 1
  PROVE  OdCalls(bytes) = <<Call("collect", a), Call("get", 0)>>
<1>1. bytes[1] = a
  OBVIOUS
<1>2. OdCalls(bytes) = [i \in 1..2 |-> IF i % 2 = 1 THEN Call("collect", bytes[(i + 1) \div 2])
                                                    ELSE Call("get", 0)]
  BY DEF OdCalls
<1> QED  BY <1>1, <1>2

LEMMA OdCallsOfTwo ==
  ASSUME NEW bytes, NEW a, NEW b, bytes \in Seq({a, b}), Len(bytes) = 2,
         bytes[1] = a, bytes[2] = b
  PROVE  OdCalls(bytes) = <<Call("collect", a), Call("get", 0),
                            Call("collect", b), Call("get", 0)>>
<1>2. OdCalls(bytes) = [i \in 1..4 |-> IF i % 2 = 1 THEN Call("collect", bytes[(i + 1) \div 2])
                                                    ELSE Call("get", 0)]
  BY DEF OdCalls
<1> QED  BY <1>2

(* What a frame with on-request bytes leaves to do.                        *)
LEMMA FrameBegins ==
  ASSUME pos \in Nat,
         \/ Type0Frame(FALSE, OdByte(pos))
         \/ CyclicFrame(FALSE, FALSE, [i \in 1..OdLen |-> OdByte(pos + i - 1)])
  PROVE  /\ Between /\ od_out' = << >> /\ pc = "frame" /\ FrameJustDone'
         /\ \/ todo' = <<Collect(pos), Call("get", 0), Call("send", 0)>>
            \/ todo' = <<Collect(pos), Call("get", 0), Collect(pos + 1), Call("get", 0),
                         Call("send", 0)>>
<1> DEFINE bytes == [i \in 1..OdLen |-> OdByte(pos + i - 1)]
<1>1. Between /\ od_out' = << >> /\ pc = "frame" /\ FrameJustDone'
  <2>1. CASE Type0Frame(FALSE, OdByte(pos))
    BY <2>1 DEF Type0Frame, FrameType0, FrameDone, FrameJustDone, Output
  <2>2. CASE CyclicFrame(FALSE, FALSE, bytes)
    BY <2>2 DEF CyclicFrame, FrameCyclic, FrameDone, FrameJustDone, Output
  <2> QED  BY <2>1, <2>2
<1>2. Triggers(TimingEvent(FALSE)) = << >>
  BY DEF Triggers, TimingEvent
<1>5. PICK x, y, g, z : /\ x = Collect(pos) /\ y = Collect(pos + 1)
                        /\ g = Call("get", 0) /\ z = Call("send", 0)
  OBVIOUS
<1>6. /\ << >> \o <<x, g>> \o <<z>> = <<x, g, z>>
      /\ << >> \o <<x, g>> \o <<z>> \o << >> = <<x, g, z>>
      /\ << >> \o <<x, g, y, g>> \o <<z>> \o << >> = <<x, g, y, g, z>>
  BY JoinedCalls
<1>7. Send = <<z>>
  BY <1>5 DEF Send
<1>3. CASE Type0Frame(FALSE, OdByte(pos))
  <2>1. todo' = << >> \o OdCalls(<<OdByte(pos)>>) \o Send
    BY <1>2, <1>3 DEF Type0Frame
  <2>2. OdCalls(<<OdByte(pos)>>) = <<Collect(pos), Call("get", 0)>>
    <3>1. PICK a : a = OdByte(pos)
      OBVIOUS
    <3>2. <<a>> \in Seq({a}) /\ Len(<<a>>) = 1
      OBVIOUS
    <3>3. OdCalls(<<a>>) = <<Call("collect", a), Call("get", 0)>>
      BY <3>2, OdCallsOfOne
    <3> QED  BY <3>1, <3>3 DEF Collect
  <2>3. todo' = <<x, g, z>>
    <3>1. OdCalls(<<OdByte(pos)>>) = <<x, g>>
      BY <1>5, <2>2
    <3> QED  BY <1>6, <1>7, <2>1, <3>1
  <2> QED  BY <1>1, <1>5, <2>3
<1>4. CASE CyclicFrame(FALSE, FALSE, bytes)
  <2>1. todo' = << >> \o OdCalls(bytes) \o Send \o << >>
    BY <1>2, <1>4 DEF CyclicFrame
  <2>2. CASE OdLen = 1
    <3>1. PICK a : a = OdByte(pos)
      OBVIOUS
    <3>2. bytes \in Seq({a}) /\ Len(bytes) = 1
      BY <2>2, <3>1
    <3> HIDE DEF bytes
    <3>3. OdCalls(bytes) = <<Call("collect", a), Call("get", 0)>>
      BY <3>2, OdCallsOfOne
    <3>4. OdCalls(bytes) = <<x, g>>
      BY <1>5, <3>1, <3>3 DEF Collect
    <3>5. todo' = <<x, g, z>>
      BY <1>6, <1>7, <2>1, <3>4
    <3> QED  BY <1>1, <1>5, <3>5
  <2>3. CASE OdLen = 2
    <3>1. PICK a, b : a = OdByte(pos) /\ b = OdByte(pos + 1)
      OBVIOUS
    <3>2. \A i \in 1..2 : OdByte(pos + i - 1) \in {a, b}
      <4>1. pos + 1 - 1 = pos /\ pos + 2 - 1 = pos + 1
        OBVIOUS
      <4>2. \A i \in 1..2 : i = 1 \/ i = 2
        OBVIOUS
      <4> QED  BY <3>1, <4>1, <4>2
    <3>3. bytes \in Seq({a, b}) /\ Len(bytes) = 2
      BY <2>3, <3>2
    <3>4. bytes[1] = a /\ bytes[2] = b
      <4>1. pos + 1 - 1 = pos /\ pos + 2 - 1 = pos + 1
        OBVIOUS
      <4>2. bytes[1] = OdByte(pos + 1 - 1) /\ bytes[2] = OdByte(pos + 2 - 1)
        BY <2>3
      <4> QED  BY <3>1, <4>1, <4>2
    <3> HIDE DEF bytes
    <3>5. OdCalls(bytes) = <<Call("collect", a), Call("get", 0),
                             Call("collect", b), Call("get", 0)>>
      BY <3>3, <3>4, OdCallsOfTwo
    <3>6. OdCalls(bytes) = <<x, g, y, g>>
      BY <1>5, <3>1, <3>5 DEF Collect
    <3>7. todo' = <<x, g, y, g, z>>
      BY <1>6, <1>7, <2>1, <3>6
    <3> QED  BY <1>1, <1>5, <3>7
  <2>4. OdLen = 1 \/ OdLen = 2
    BY DllConstants
  <2> QED  BY <2>2, <2>3, <2>4
<1> QED  BY <1>1, <1>3, <1>4

(* The frame begins: the engine and the master still are where they were.  *)
LEMMA OdFrameKeeps ==
  ASSUME Request = ReadEvent, DeliveryInv, UNCHANGED <<master, history>>,
         \/ Type0Frame(FALSE, OdByte(pos))
         \/ CyclicFrame(FALSE, FALSE, [i \in 1..OdLen |-> OdByte(pos + i - 1)])
  PROVE  DeliveryInv'
<1>0. pos \in Nat /\ (pos < 8 => rx = NoRx) /\ Len(Request) = 8
  BY RequestBytes DEF DeliveryInv, DataInv
<1>1. /\ Between /\ od_out' = << >> /\ pc = "frame" /\ FrameJustDone'
      /\ \/ todo' = <<Collect(pos), Call("get", 0), Call("send", 0)>>
         \/ todo' = <<Collect(pos), Call("get", 0), Collect(pos + 1), Call("get", 0),
                      Call("send", 0)>>
  BY <1>0, FrameBegins
<1>2. /\ UNCHANGED <<turn, events, triggered, popped, delivered, pos, rx, aborts>>
      /\ EngineSame /\ todo = << >>
  BY <1>1 DEF Between, isdu_vars, master, history, EngineSame
<1>3. ~Pending /\ turn = "collect" /\ isdu_state # "SERVICE_EXECUTE"
  BY <1>1, <1>2, NoTodo, WhereExecuted DEF DeliveryInv, FrameJustDone
<1>4. Len(od_out') = 0
  BY <1>1
<1>5. \A k : Collect(k)' = Collect(k)
  BY DEF Collect, OdByte
<1>6. FrameAt(pos)'
  BY <1>1, <1>2, <1>3, <1>4, <1>5 DEF FrameAt, OneLeft, TwoLeft
<1>7. Pending'
  <2>1. CASE todo' = <<Collect(pos), Call("get", 0), Call("send", 0)>>
    <3>1. Len(todo') = 3 /\ todo'[3].call = "send"
      BY <2>1 DEF Call
    <3> QED  BY <3>1 DEF Pending
  <2>2. CASE todo' = <<Collect(pos), Call("get", 0), Collect(pos + 1), Call("get", 0),
                       Call("send", 0)>>
    <3>1. Len(todo') = 5 /\ todo'[5].call = "send"
      BY <2>2 DEF Call
    <3> QED  BY <3>1 DEF Pending
  <2> QED  BY <1>1, <2>1, <2>2
<1>8. Half' = 0 /\ Half = 0 /\ Taken' = pos /\ Taken = pos
  BY <1>0, <1>2, <1>3, <1>4, <1>7 DEF Half, Taken
<1>9. TodoInv'
  BY <1>2, <1>6, <1>7, <1>8 DEF TodoInv
<1>10. Virtual' = Virtual
  <2>1. HearAll(rx, od_out') = rx
    BY <1>1, <1>4 DEF HearAll
  <2>2. Virtual' = IF pos < 8 THEN NoRx ELSE HearAll(rx, od_out')
    BY <1>0, <1>2, <1>7 DEF Virtual, Heard, NoRx
  <2>3. Virtual = rx
    BY <1>3 DEF Virtual
  <2> QED  BY <1>0, <2>1, <2>2, <2>3
<1>11. DataInv'
  BY <1>1, <1>2 DEF DeliveryInv, DataInv, EngineSame, Headers, EventSet, Codes, NoRx, Range
<1>12. PcInv'
  BY <1>1, <1>2, <1>3, <1>7 DEF PcInv, EngineSame
<1>13. PICK c \in {0} \cup Codes : InStep(c) /\ Ordered(c)
  BY DEF DeliveryInv
<1>14. QueueInv' /\ Ordered(c)'
  BY <1>2, <1>13, QueueKept DEF DeliveryInv
<1>15. /\ Lost' = Lost /\ Aborted' = Aborted /\ Stale' = Stale /\ Given' = Given
       /\ TwoByteAnswer' = TwoByteAnswer /\ ReadOf(0)' = ReadOf(0) /\ ReadOf(2)' = ReadOf(2)
  BY <1>2 DEF EngineSame, Lost, Aborted, Stale, Given, TwoByteAnswer, ReadOf
<1>16. InStep(c)'
  <2>1. CASE c = 0 /\ Virtual = NoRx /\ Requesting /\ Lost <= Aborted
    <3>1. Requesting'
      BY <1>2, <1>3, <1>8, <1>15, <2>1 DEF Requesting, EngineSame
    <3> QED  BY <1>10, <1>15, <2>1, <3>1 DEF InStep, NoRx
  <2>2. CASE Answering(c) /\ Lost <= Aborted + (IF c = 0 THEN 0 ELSE 1)
    <3>1. Given >= 0
      <4>1. TwoByteAnswer
        BY <1>3, <2>2 DEF Answering
      <4> QED  BY <4>1 DEF TwoByteAnswer, Given
    <3>2. Answering(c)'
      BY <1>2, <1>3, <1>4, <1>10, <1>15, <2>2, <3>1 DEF Answering, EngineSame
    <3> QED  BY <1>15, <2>2, <3>2 DEF InStep
  <2>3. CASE c = 0 /\ Virtual = NoRx /\ OutOfStep /\ Lost + Stale <= Aborted
    <3>1. OutOfStep'
      BY <1>2, <1>3, <1>8, <1>15, <2>3 DEF OutOfStep, EngineSame
    <3> QED  BY <1>10, <1>15, <2>3, <3>1 DEF InStep, NoRx
  <2> QED  BY <1>13, <2>1, <2>2, <2>3 DEF InStep
<1> QED  BY <1>9, <1>11, <1>12, <1>13, <1>14, <1>16 DEF DeliveryInv, Codes

-----------------------------------------------------------------------------
(* The invariant, of every step *)

LEMMA DeliveryInit ==
  ASSUME MCInit
  PROVE  DeliveryInv
<1>1. /\ todo = << >> /\ od_out = << >> /\ turn = "collect" /\ isdu_state = "IDLE"
      /\ header = [type |-> "READ", length |-> 0, index |-> 0, subindex |-> 0]
      /\ is_response_control_sent = FALSE /\ events = << >>
      /\ pos = 0 /\ rx = NoRx /\ aborts = MaxAborts
      /\ triggered = << >> /\ popped = << >> /\ delivered = << >>
  BY DEF MCInit, DeviceInit, I!Init
<1>2. Len(events) = 0 /\ Len(triggered) = 0 /\ Len(popped) = 0 /\ Len(delivered) = 0
  BY <1>1
<1>3. ~Pending /\ TodoInv
  <2>1. ~Pending /\ todo \in Seq(TriggerCalls)
    BY <1>1 DEF Pending
  <2> QED  BY <1>1, <2>1 DEF TodoInv, Elsewhere
<1>4. DataInv
  <2>1. << >> \in Seq(Range(<< >>))
    BY OwnRange
  <2>2. header \in Headers
    BY <1>1 DEF Headers
  <2>3. aborts \in Int
    BY <1>1, MasterConstants
  <2>5. is_response_control_sent \in BOOLEAN
    BY <1>1, Zenon
  <2>4. /\ popped \in Seq(Codes) /\ delivered \in Seq(Codes) /\ triggered \in Seq(Codes)
        /\ events \in Seq(EventSet)
    BY <1>1
  <2> QED  BY <1>1, <2>1, <2>2, <2>3, <2>4, <2>5 DEF DataInv
<1>5. PcInv
  BY <1>1, <1>3 DEF PcInv
<1>6. QueueInv
  BY <1>2 DEF QueueInv, Matches
<1>7. Ordered(0)
  <2> DEFINE d == [i \in 1..Len(delivered) |-> 1]
  <2>1. 1..Len(delivered) = {}
    BY <1>2
  <2>2. d \in [1..Len(delivered) -> 1..Past]
    BY <2>1
  <2> HIDE DEF d
  <2>3. InOrder(d, 0)
    BY <2>1, <2>2 DEF InOrder
  <2> QED  BY <2>2, <2>3 DEF Ordered
<1>8. InStep(0)
  <2>1. Taken = 0 /\ Virtual = NoRx
    BY <1>1, <1>3 DEF Taken, Virtual
  <2>2. OutOfStep
    BY <1>1, <2>1 DEF OutOfStep
  <2>3. Lost + Stale <= Aborted
    BY <1>1, <1>2, MasterConstants DEF Lost, Stale, Aborted
  <2> QED  BY <2>1, <2>2, <2>3 DEF InStep
<1> QED  BY <1>3, <1>4, <1>5, <1>6, <1>7, <1>8 DEF DeliveryInv

(* The invariant says nothing of the variables that are not its own.       *)
LEMMA DeliveryStutters ==
  ASSUME DeliveryInv, UNCHANGED all_vars
  PROVE  DeliveryInv'
<1>1. /\ UNCHANGED <<turn, todo, od_out, events, triggered, popped, delivered, pos, rx, aborts>>
      /\ UNCHANGED <<pc, out, frame_index, response_len>> /\ EngineSame
  BY DEF all_vars, device_vars, vars, link, frame, isdu_vars, master, history, EngineSame
<1>2. Pending' = Pending /\ Heard' = Heard /\ \A k : Collect(k)' = Collect(k)
  BY <1>1 DEF Pending, Heard, Collect, OdByte, NoRx, HearAll, Hear
<1>3. /\ Taken' = Taken /\ Virtual' = Virtual /\ Half' = Half /\ Given' = Given
      /\ Lost' = Lost /\ Aborted' = Aborted /\ Stale' = Stale
      /\ TwoByteAnswer' = TwoByteAnswer
      /\ ReadOf(2)' = ReadOf(2) /\ ReadOf(0)' = ReadOf(0)
  BY <1>1, <1>2 DEF EngineSame, Taken, Virtual, Half, Given, Lost, Aborted, Stale,
     TwoByteAnswer, ReadOf
<1>4. TodoInv'
  <2>1. CASE Pending
    <3>1. FrameAt(Taken)'
      BY <1>1, <1>2, <1>3, <2>1
         DEF DeliveryInv, TodoInv, FrameAt, TwoLeft, OneAndGet, OneLeft, GetLeft, SendLeft
    <3> QED  BY <1>2, <1>3, <2>1, <3>1 DEF TodoInv
  <2>2. CASE ~Pending
    BY <1>1, <1>2, <2>2 DEF DeliveryInv, TodoInv, Elsewhere, TriggerCalls
  <2> QED  BY <2>1, <2>2
<1>5. DataInv'
  BY <1>1 DEF DeliveryInv, DataInv, EngineSame, Headers, EventSet, Codes, NoRx, Range
<1>6. PcInv'
  BY <1>1, <1>2, <1>3 DEF DeliveryInv, PcInv, FrameJustDone, EngineSame
<1>7. PICK c \in {0} \cup Codes : InStep(c) /\ Ordered(c)
  BY DEF DeliveryInv
<1>8. QueueInv' /\ Ordered(c)'
  BY <1>1, <1>7, QueueKept DEF DeliveryInv
<1>9. /\ Requesting => Requesting'
      /\ Answering(c) => Answering(c)'
      /\ OutOfStep => OutOfStep'
  <2>1. Requesting => Requesting'
    BY <1>1, <1>2, <1>3 DEF Requesting, EngineSame
  <2>2. Answering(c) => Answering(c)'
    BY <1>1, <1>2, <1>3 DEF Answering, EngineSame
  <2>3. OutOfStep => OutOfStep'
    BY <1>1, <1>2, <1>3 DEF OutOfStep, EngineSame
  <2> QED  BY <2>1, <2>2, <2>3
<1>10. InStep(c)'
  BY <1>3, <1>7, <1>9 DEF InStep, NoRx
<1> QED  BY <1>4, <1>5, <1>6, <1>7, <1>8, <1>10 DEF DeliveryInv, Codes

LEMMA DeliveryNext ==
  ASSUME Request = ReadEvent, DeliveryInv, [MCNext]_all_vars
  PROVE  DeliveryInv'
<1>1. CASE MasterByte \/ MasterTransition \/ Corrupt \/ Pause
  <2>1. UNCHANGED <<master, history>>
    BY <1>1 DEF MasterByte, MasterTransition, Corrupt, Pause
  <2> QED  BY <1>1, <2>1, QuietKeeps
<1>2. CASE MasterHears
  BY <1>2, HearsKeeps
<1>3. CASE MasterAborts
  BY <1>3, AbortKeeps
<1>4. CASE AppTriggers
  BY <1>4, AppTriggersKeeps
<1>5. CASE Frame /\ UNCHANGED <<master, noise, history>>
  <2>1. UNCHANGED <<master, history>>
    BY <1>5
  <2> QED  BY <1>5, <2>1, QuietKeeps, OdFrameKeeps DEF Frame
<1>6. CASE Loop /\ UNCHANGED <<master, noise, history>>
  <2>1. UNCHANGED <<master, history>>
    BY <1>6
  <2> QED  BY <1>6, <2>1, QuietKeeps, BeginKeeps DEF Loop
<1>7. CASE Calls /\ UNCHANGED <<master, noise>>
  <2>1. CASE CallCollect /\ UNCHANGED history
    BY <1>7, <2>1, CollectKeeps
  <2>2. CASE CallGet /\ UNCHANGED history
    BY <1>7, <2>2, GetKeeps
  <2>3. CASE /\ CallProcess
             /\ popped' = IF Len(events') < Len(events) THEN Append(popped, Head(events).code)
                                                        ELSE popped
             /\ UNCHANGED <<triggered, dropped>>
    BY <1>7, <2>3, ProcessKeeps
  <2>4. CASE CallTrigger /\ Recorded(EventNamed(todo[1].arg))
    BY <1>7, <2>4, TriggerKeeps
  <2> QED  BY <1>7, <2>1, <2>2, <2>3, <2>4 DEF Calls
<1>8. CASE UNCHANGED all_vars
  BY <1>8, DeliveryStutters
<1> QED  BY <1>1, <1>2, <1>3, <1>4, <1>5, <1>6, <1>7, <1>8 DEF MCNext, DeviceStep

LEMMA DeliveryBoundsLoss ==
  ASSUME DeliveryInv
  PROVE  OneLossPerAbort
<1>1. PICK c \in {0} \cup Codes : InStep(c)
  BY DEF DeliveryInv
<1>2. /\ Lost \in Int /\ Aborted \in Int /\ (Stale = 0 \/ Stale = 1)
  BY MasterConstants DEF DeliveryInv, DataInv, Lost, Aborted, Stale
<1>3. Lost <= Aborted + (IF InFlight THEN 1 ELSE 0)
  <2>1. CASE Lost <= Aborted
    BY <1>2, <2>1
  <2>2. CASE Answering(c) /\ Lost <= Aborted + (IF c = 0 THEN 0 ELSE 1)
    <3>1. InFlight
      <4>1. Pending => todo # << >>
        BY DEF Pending
      <4> QED  BY <2>2, <4>1 DEF Answering, TwoByteAnswer, InFlight
    <3> QED  BY <1>2, <2>2, <3>1
  <2>3. CASE Lost + Stale <= Aborted
    BY <1>2, <2>3
  <2> QED  BY <1>1, <2>1, <2>2, <2>3 DEF InStep
<1> QED  BY <1>3 DEF OneLossPerAbort, Lost, Aborted

LEMMA DeliveryIsInOrder ==
  ASSUME DeliveryInv
  PROVE  DeliveredInOrder
<1>1. PICK c \in {0} \cup Codes : Ordered(c)
  BY DEF DeliveryInv
<1>2. PICK d \in [1..Len(delivered) -> 1..Past] : InOrder(d, c)
  BY <1>1 DEF Ordered
<1>3. PICK n \in Nat : n = Len(triggered)
  BY DEF DeliveryInv, DataInv
<1>4. Past \in Nat /\ Past <= n
  <2>1. Len(events) \in Nat
    BY DEF DeliveryInv, DataInv
  <2> QED  BY <1>3, <2>1, PastIsNat DEF Past
<1>5. \A i \in 1..Len(delivered) : d[i] \in 1..n /\ triggered[d[i]] = delivered[i]
  <2>1. \A i \in 1..Len(delivered) : d[i] \in 1..Past /\ triggered[d[i]] = delivered[i]
    BY <1>2 DEF InOrder
  <2> QED  BY <1>4, <2>1
<1> SUFFICES ASSUME NEW i \in 1..Len(delivered), NEW j \in 1..Len(delivered)
             PROVE  /\ Contains(triggered, delivered[i])
                    /\ i < j => \E m, k \in 1..Len(triggered) :
                         m < k /\ triggered[m] = delivered[i] /\ triggered[k] = delivered[j]
  BY DEF DeliveredInOrder
<1>6. i < j => d[i] < d[j]
  BY <1>2 DEF InOrder
<1> QED  BY <1>3, <1>5, <1>6 DEF Contains

(* As long as responses arrive, whatever the master forgets, the line      *)
(* corrupts on the way to the device, the link falls back to and the queue *)
(* drops: iolink_isdu_process takes an event off the queue before its      *)
(* answer is given out, and of the events it took all but one per abort,   *)
(* and the one that is on its way, reach a master that reads them.         *)
THEOREM DeviceLosesOnePerAbort ==
  ASSUME Request = ReadEvent
  PROVE  MCSpec => []OneLossPerAbort
<1>1. MCInit => DeliveryInv
  BY DeliveryInit
<1>2. DeliveryInv /\ [MCNext]_all_vars => DeliveryInv'
  BY DeliveryNext
<1>3. DeliveryInv => OneLossPerAbort
  BY DeliveryBoundsLoss
<1> QED  BY <1>1, <1>2, <1>3, PTL DEF MCSpec

(* As long as responses arrive, the events that a master which reads them  *)
(* receives were triggered, in the same order, so that an event triggered  *)
(* once is not received twice: no answer of the engine is taken for the    *)
(* answer to another request, and none is put together from the bytes of   *)
(* two.                                                                    *)
THEOREM DeviceDeliversInOrder ==
  ASSUME Request = ReadEvent
  PROVE  MCSpec => []DeliveredInOrder
<1>1. MCInit => DeliveryInv
  BY DeliveryInit
<1>2. DeliveryInv /\ [MCNext]_all_vars => DeliveryInv'
  BY DeliveryNext
<1>3. DeliveryInv => DeliveredInOrder
  BY DeliveryIsInOrder
<1> QED  BY <1>1, <1>2, <1>3, PTL DEF MCSpec
=============================================================================
