---------------------------- MODULE EventsProofs ----------------------------
(***************************************************************************)
(* The event ring for any number of threads and any queue size.            *)
(*                                                                         *)
(* The three invariants are proved together: that the indices stay in the  *)
(* array (TypeOK) needs the ring to be consistent, because trigger stores  *)
(* at tail and counts afterwards; the ring is consistent because one       *)
(* thread at a time is inside a call (LockProtects), so no other thread    *)
(* moves head or count between two steps of a trigger or a pop.            *)
(*                                                                         *)
(* The ring then implements the drop-oldest FIFO of EventFifo, for any     *)
(* queue of at least two events.  With a queue of one event it does not: a *)
(* trigger that finds it full counts down to 0 before it counts its own    *)
(* event, and iolink_events_pending, which reads count without the lock,   *)
(* then answers that nothing is pending while the FIFO is never empty.     *)
(***************************************************************************)
EXTENDS Events, SequenceTheorems, TLAPS

RingInv == TypeOK /\ LockProtects /\ RingConsistent

(* Succ steps round the ring.                                              *)
LEMMA SuccIs ==
  ASSUME NEW i \in 0..(Size - 1)
  PROVE  Succ(i) \in 0..(Size - 1) /\ Succ(i) = IF i = Size - 1 THEN 0 ELSE i + 1
<1>1. CASE i = Size - 1
  <2>1. i + 1 = Size /\ Size \in Nat \ {0}
    BY <1>1, EventsConstants
  <2>2. Size % Size = 0
    BY <2>1, SMTT(20)
  <2> QED BY <1>1, <2>1, <2>2 DEF Succ
<1>2. CASE i # Size - 1
  <2>1. i + 1 \in 0..(Size - 1) /\ Size \in Nat \ {0}
    BY <1>2, EventsConstants
  <2>2. (i + 1) % Size = i + 1
    BY <2>1, SMTT(20)
  <2> QED BY <1>2, <2>1, <2>2 DEF Succ
<1> QED BY <1>1, <1>2

LEMMA InitRing == Init => RingInv
<1> SUFFICES ASSUME Init PROVE RingInv
  OBVIOUS
<1>1. TypeOK
  <2>1. Size \in Nat \ {0} /\ 0 \in 0..(Size - 1) /\ 0 \in 0..Size
    BY EventsConstants
  <2>2. full \in BOOLEAN
    BY DEF Init
  <2>3. ZeroEvent \in Slot
    BY DEF Slot
  <2> QED BY <2>1, <2>2, <2>3 DEF Init, TypeOK, PCs
<1>2. LockProtects
  BY EventsConstants DEF Init, LockProtects, Unlocked
<1>3. RingConsistent
  BY EventsConstants DEF Init, RingConsistent, At
<1> QED BY <1>1, <1>2, <1>3 DEF RingInv

(* A step of a thread inside a call: that thread holds the lock, so At     *)
(* describes it.                                                           *)
LEMMA Holder ==
  ASSUME RingInv, NEW t \in Threads, pc[t] \notin Unlocked
  PROVE  lock = t /\ \A p : At(p) <=> pc[t] = p
BY EventsConstants DEF RingInv, LockProtects, At, Unlocked

(* What a step leaves of the lock discipline: the stepping thread t moved  *)
(* to p, and holds the lock afterwards just if p is inside a call.         *)
LEMMA LockStep ==
  ASSUME RingInv, NEW t \in Threads, NEW p \in PCs, Goto(t, p),
         lock \in {t, NoThread},
         lock' = IF p \in Unlocked THEN NoThread ELSE t
  PROVE  /\ LockProtects'
         /\ pc' \in [Threads -> PCs] /\ lock' \in Threads \cup {NoThread}
         /\ \A q : At(q)' <=> (p = q /\ p \notin Unlocked)
<1>1. pc \in [Threads -> PCs]
  BY DEF RingInv, TypeOK
<1>2. \A u \in Threads : pc'[u] = IF u = t THEN p ELSE pc[u]
  BY <1>1 DEF Goto
<1>3. \A u \in Threads : u # t => pc[u] \in Unlocked
  BY EventsConstants DEF RingInv, LockProtects
<1>4. LockProtects'
  BY <1>2, <1>3, EventsConstants DEF LockProtects
<1>5. \A q : At(q)' <=> (p = q /\ p \notin Unlocked)
  BY <1>2, EventsConstants DEF At
<1> QED BY <1>1, <1>4, <1>5 DEF Goto

(* A step that moves neither the ring nor a trigger or pop under way.      *)
LEMMA RingKept ==
  ASSUME RingInv, UNCHANGED <<ring, full>>, NEW t \in Threads, NEW p \in PCs, Goto(t, p),
         lock \in {t, NoThread}, lock' = IF p \in Unlocked THEN NoThread ELSE t,
         p \notin {"store", "count", "take"},
         ~At("store"), ~At("count"),
         ev' \in [Threads -> Slot]
  PROVE  RingInv'
<1>1. /\ LockProtects'
      /\ pc' \in [Threads -> PCs] /\ lock' \in Threads \cup {NoThread}
      /\ ~At("store")' /\ ~At("count")' /\ ~At("take")'
  BY LockStep
<1>2. full = FALSE
  BY DEF RingInv, RingConsistent, TypeOK
<1>3. TypeOK'
  BY <1>1, <1>2 DEF RingInv, TypeOK, ring
<1>4. RingConsistent'
  BY <1>1, <1>2 DEF RingInv, RingConsistent, ring
<1> QED BY <1>1, <1>3, <1>4 DEF RingInv

LEMMA EnterSteps ==
  ASSUME RingInv, NEW t \in Threads,
         \/ \E e \in Event : TriggerEnter(t, e)
         \/ \E p \in {"pop", "peek", "copy"} : ReadEnter(t, p)
         \/ SeverityEnter(t)
  PROVE  RingInv'
<1>1. /\ lock = NoThread /\ lock' = t /\ UNCHANGED <<ring, full>>
      /\ \E p \in {"room", "pop", "peek", "copy", "scan"} : Goto(t, p)
  BY DEF TriggerEnter, ReadEnter, SeverityEnter
<1>2. ev' \in [Threads -> Slot]
  BY DEF TriggerEnter, ReadEnter, SeverityEnter, RingInv, TypeOK, Slot
<1>3. PICK p \in {"room", "pop", "peek", "copy", "scan"} : Goto(t, p)
  BY <1>1
<1>4. p \in PCs /\ p \notin Unlocked /\ p \notin {"store", "count", "take"}
  BY DEF PCs, Unlocked
<1>5. ~At("store") /\ ~At("count")
  BY <1>1 DEF At
<1> QED BY <1>1, <1>2, <1>3, <1>4, <1>5, RingKept

LEMMA TriggerSteps ==
  ASSUME RingInv, NEW t \in Threads,
         TriggerRoom(t) \/ TriggerStore(t) \/ TriggerCount(t)
  PROVE  RingInv'
<1>1. pc[t] \notin Unlocked
  BY DEF TriggerRoom, TriggerStore, TriggerCount, Unlocked
<1>2. lock = t /\ \A p : At(p) <=> pc[t] = p
  BY <1>1, Holder
<1>3. Size \in Nat \ {0} /\ count \in 0..Size /\ head \in 0..(Size - 1) /\ tail \in 0..(Size - 1)
  BY EventsConstants DEF RingInv, TypeOK
<1>4. CASE TriggerRoom(t)
  <2>1. /\ LockProtects'
        /\ pc' \in [Threads -> PCs] /\ lock' \in Threads \cup {NoThread}
        /\ At("store")' /\ ~At("count")' /\ ~At("take")'
    BY <1>2, <1>4, LockStep DEF TriggerRoom, PCs, Unlocked
  <2>2. head' \in 0..(Size - 1) /\ (count >= Size => head' = IF head = Size - 1 THEN 0 ELSE head + 1)
    BY <1>3, <1>4, SuccIs DEF TriggerRoom
  <2>3. count' \in 0..(Size - 1) /\ (full' => count' = Size - 1)
    BY <1>3, <1>4 DEF TriggerRoom
  <2>4. full' \in BOOLEAN
    BY <1>4 DEF TriggerRoom
  <2>5. TypeOK'
    BY <1>3, <1>4, <2>1, <2>2, <2>3, <2>4 DEF RingInv, TypeOK, TriggerRoom
  <2>6. head' + count' = tail' \/ head' + count' = tail' + Size
    BY <1>2, <1>3, <1>4, <2>2 DEF RingInv, RingConsistent, TriggerRoom
  <2>7. RingConsistent'
    BY <1>3, <2>1, <2>3, <2>6 DEF RingConsistent
  <2> QED BY <2>1, <2>5, <2>7 DEF RingInv
<1>5. CASE TriggerStore(t)
  <2>1. /\ LockProtects'
        /\ pc' \in [Threads -> PCs] /\ lock' \in Threads \cup {NoThread}
        /\ ~At("store")' /\ At("count")' /\ ~At("take")'
    BY <1>2, <1>5, LockStep DEF TriggerStore, PCs, Unlocked
  <2>2. tail' \in 0..(Size - 1) /\ tail' = IF tail = Size - 1 THEN 0 ELSE tail + 1
    BY <1>3, <1>5, SuccIs DEF TriggerStore
  <2>3. queue' \in [0..(Size - 1) -> Slot]
    BY <1>5 DEF TriggerStore, RingInv, TypeOK
  <2>4. TypeOK'
    BY <1>5, <2>1, <2>2, <2>3 DEF RingInv, TypeOK, TriggerStore
  <2>5. count < Size /\ (full => count = Size - 1) /\ (head + count = tail \/ head + count = tail + Size)
    BY <1>2, <1>5 DEF RingInv, RingConsistent, TriggerStore
  <2>6. RingConsistent'
    BY <1>3, <1>5, <2>1, <2>2, <2>5 DEF RingConsistent, TriggerStore
  <2> QED BY <2>1, <2>4, <2>6 DEF RingInv
<1>6. CASE TriggerCount(t)
  <2>1. /\ LockProtects'
        /\ pc' \in [Threads -> PCs] /\ lock' \in Threads \cup {NoThread}
        /\ ~At("store")' /\ ~At("count")' /\ ~At("take")'
    BY <1>2, <1>6, LockStep DEF TriggerCount, PCs, Unlocked
  <2>2. count < Size /\ (head + count + 1 = tail \/ head + count + 1 = tail + Size)
    BY <1>2, <1>3, <1>6 DEF RingInv, RingConsistent, TriggerCount
  <2>3. TypeOK'
    <3>1. count' \in 0..Size
      BY <1>3, <1>6, <2>2 DEF TriggerCount
    <3>2. full' = FALSE /\ UNCHANGED <<queue, head, tail, ev>>
      BY <1>6 DEF TriggerCount
    <3> QED BY <2>1, <3>1, <3>2 DEF RingInv, TypeOK
  <2>4. RingConsistent'
    BY <1>3, <1>6, <2>1, <2>2 DEF RingConsistent, TriggerCount
  <2> QED BY <2>1, <2>3, <2>4 DEF RingInv
<1> QED BY <1>4, <1>5, <1>6

LEMMA PopSteps ==
  ASSUME RingInv, NEW t \in Threads, PopRead(t) \/ PopTake(t)
  PROVE  RingInv'
<1>1. pc[t] \notin Unlocked
  BY DEF PopRead, PopTake, Unlocked
<1>2. lock = t /\ \A p : At(p) <=> pc[t] = p
  BY <1>1, Holder
<1>3. Size \in Nat \ {0} /\ count \in 0..Size /\ head \in 0..(Size - 1) /\ tail \in 0..(Size - 1)
  BY EventsConstants DEF RingInv, TypeOK
<1>4. CASE PopRead(t) /\ count > 0
  <2>1. /\ LockProtects'
        /\ pc' \in [Threads -> PCs] /\ lock' \in Threads \cup {NoThread}
        /\ ~At("store")' /\ ~At("count")' /\ At("take")'
    BY <1>2, <1>4, LockStep DEF PopRead, PCs, Unlocked
  <2>2. ev' \in [Threads -> Slot] /\ ev'[t] = queue[head] /\ lock' = t
    BY <1>2, <1>3, <1>4 DEF PopRead, RingInv, TypeOK
  <2>3. full = FALSE
    BY <1>2, <1>4 DEF RingInv, RingConsistent, TypeOK, PopRead
  <2>4. TypeOK'
    BY <1>4, <2>1, <2>2, <2>3 DEF RingInv, TypeOK, PopRead, ring
  <2>5. RingConsistent'
    BY <1>2, <1>3, <1>4, <2>1, <2>2, <2>3 DEF RingInv, RingConsistent, PopRead, ring
  <2> QED BY <2>1, <2>4, <2>5 DEF RingInv
<1>5. CASE PopRead(t) /\ ~(count > 0)
  <2>1. ev' \in [Threads -> Slot] /\ Goto(t, "leave") /\ UNCHANGED <<ring, full>> /\ lock' = t
    BY <1>2, <1>5 DEF PopRead, RingInv, TypeOK
  <2>2. ~At("store") /\ ~At("count")
    BY <1>2, <1>5 DEF PopRead
  <2>3. "leave" \in PCs /\ "leave" \notin Unlocked
    BY DEF PCs, Unlocked
  <2> QED BY <1>2, <2>1, <2>2, <2>3, RingKept
<1>6. CASE PopTake(t)
  <2>1. /\ LockProtects'
        /\ pc' \in [Threads -> PCs] /\ lock' \in Threads \cup {NoThread}
        /\ ~At("store")' /\ ~At("count")' /\ ~At("take")'
    BY <1>2, <1>6, LockStep DEF PopTake, PCs, Unlocked
  <2>2. head' \in 0..(Size - 1) /\ head' = IF head = Size - 1 THEN 0 ELSE head + 1
    BY <1>3, <1>6, SuccIs DEF PopTake
  <2>3. count > 0 /\ full = FALSE /\ (head + count = tail \/ head + count = tail + Size)
    BY <1>2, <1>6 DEF RingInv, RingConsistent, TypeOK, PopTake
  <2>4. TypeOK'
    BY <1>3, <1>6, <2>1, <2>2, <2>3 DEF RingInv, TypeOK, PopTake
  <2>5. RingConsistent'
    BY <1>3, <1>6, <2>1, <2>2, <2>3 DEF RingConsistent, PopTake
  <2> QED BY <2>1, <2>4, <2>5 DEF RingInv
<1> QED BY <1>4, <1>5, <1>6

LEMMA ReadSteps ==
  ASSUME RingInv, NEW t \in Threads,
         \/ Peek(t) \/ SeverityScan(t) \/ Leave(t)
         \/ \E m \in MaxCounts : GetAll(t, m)
  PROVE  RingInv'
<1>1. pc[t] \in {"peek", "scan", "copy", "leave"}
  BY DEF Peek, SeverityScan, Leave, GetAll
<1>2. lock = t /\ ~At("store") /\ ~At("count")
  BY <1>1, Holder DEF Unlocked
<1>3. ev' \in [Threads -> Slot]
  BY DEF Peek, SeverityScan, Leave, GetAll, RingInv, TypeOK, Slot
<1>4. CASE Leave(t)
  BY <1>2, <1>3, <1>4, RingKept DEF Leave, PCs, Unlocked
<1>5. CASE ~Leave(t)
  <2>1. Goto(t, "leave") /\ UNCHANGED <<ring, full, lock>>
    BY <1>5 DEF Peek, SeverityScan, GetAll
  <2> QED BY <1>2, <1>3, <2>1, RingKept DEF PCs, Unlocked
<1> QED BY <1>4, <1>5

(* The two reads of count without the lock change nothing that matters.    *)
LEMMA UnlockedSteps ==
  ASSUME RingInv, NEW t \in Threads, Pending(t) \/ SeverityCheck(t)
  PROVE  RingInv'
<1>1. UNCHANGED <<ring, lock, ev, full>> /\ pc[t] = "ready" /\ (pc' = pc \/ Goto(t, "enter_scan"))
  BY DEF Pending, SeverityCheck
<1>2. pc \in [Threads -> PCs] /\ t # lock
  BY <1>1 DEF RingInv, TypeOK, LockProtects, Unlocked
<1>3. pc' \in [Threads -> PCs] /\ \A u \in Threads : pc'[u] = pc[u] \/ (u = t /\ pc'[u] = "enter_scan")
  BY <1>1, <1>2 DEF Goto, PCs
<1>4. LockProtects'
  BY <1>1, <1>2, <1>3 DEF RingInv, LockProtects, Unlocked
<1>5. \A p : At(p)' <=> At(p)
  BY <1>1, <1>2, <1>3 DEF At, RingInv, TypeOK
<1>6. RingConsistent'
  BY <1>1, <1>5 DEF RingInv, RingConsistent, ring
<1>7. TypeOK'
  BY <1>1, <1>3 DEF RingInv, TypeOK, ring
<1> QED BY <1>4, <1>6, <1>7 DEF RingInv

LEMMA NextRing == RingInv /\ [Next]_vars => RingInv'
<1> SUFFICES ASSUME RingInv, [Next]_vars PROVE RingInv'
  OBVIOUS
<1>1. CASE Next
  <2>1. PICK t \in Threads : Step(t)
    BY <1>1 DEF Next
  <2> QED BY <2>1, EnterSteps, TriggerSteps, PopSteps, ReadSteps, UnlockedSteps DEF Step
<1>2. CASE UNCHANGED vars
  <2>1. UNCHANGED <<queue, head, tail, count, lock, pc, ev, full>>
    BY <1>2 DEF vars, ring
  <2> QED BY <2>1 DEF RingInv, TypeOK, LockProtects, RingConsistent, At
<1> QED BY <1>1, <1>2

LEMMA SpecRing == Spec => []RingInv
BY InitRing, NextRing, PTL DEF Spec

(* The indices of events.c never leave the array and count never exceeds   *)
(* the queue size, whatever the threads call.                              *)
THEOREM EventsTypeCorrect == Spec => []TypeOK
<1>1. RingInv => TypeOK
  BY DEF RingInv
<1> QED BY <1>1, SpecRing, PTL

(* head, tail and count stay consistent, no event is stored into a full    *)
(* ring and pop takes the event it copied, whatever the threads call.      *)
THEOREM EventsRingConsistent == Spec => []RingConsistent
<1>1. RingInv => RingConsistent
  BY DEF RingInv
<1> QED BY <1>1, SpecRing, PTL

-----------------------------------------------------------------------------
(* The ring implements the FIFO *)

(* A place up to twice round the ring.                                     *)
Wrap(x) == IF x < Size THEN x ELSE x - Size

(* A trigger has one of the events its callers pass; what it has stored is *)
(* in the slot that counting makes visible.                                *)
TriggerInv ==
  /\ At("room") \/ At("store") \/ At("count") => ev[lock] \in Event
  /\ At("count") => queue[Wrap(head + count)] = ev[lock]

FifoInv == RingInv /\ TriggerInv

-----------------------------------------------------------------------------
(* The ring read as a sequence *)

(* Oldest of any ring.                                                     *)
OldestOf(q, h, n) == [i \in 1..n |-> q[(h + i - 1) % Size]]

LEMMA ModIsWrap ==
  ASSUME NEW x \in 0..(2 * Size - 1) PROVE x % Size = Wrap(x) /\ Wrap(x) \in 0..(Size - 1)
<1>1. Size \in Nat \ {0}
  BY EventsConstants
<1>2. CASE x < Size
  <2>1. x \in 0..(Size - 1)
    BY <1>1, <1>2
  <2>2. x % Size = x
    BY <1>1, <2>1, SMTT(20)
  <2> QED BY <1>2, <2>1, <2>2 DEF Wrap
<1>3. CASE ~(x < Size)
  <2>1. x - Size \in 0..(Size - 1)
    BY <1>1, <1>3
  <2>2. x % Size = x - Size
    BY <1>1, <2>1, SMTT(20)
  <2> QED BY <1>3, <2>1, <2>2 DEF Wrap
<1> QED BY <1>2, <1>3

LEMMA OldestIs ==
  ASSUME NEW q \in [0..(Size - 1) -> Slot], NEW h \in 0..(Size - 1), NEW n \in 0..Size
  PROVE  /\ OldestOf(q, h, n) \in Seq(Slot) /\ Len(OldestOf(q, h, n)) = n
         /\ \A i \in 1..n : OldestOf(q, h, n)[i] = q[Wrap(h + i - 1)]
<1>1. Size \in Nat \ {0} /\ n \in Nat
  BY EventsConstants
<1>2. \A i \in 1..n : h + i - 1 \in 0..(2 * Size - 1)
  BY <1>1
<1>3. \A i \in 1..n : (h + i - 1) % Size = Wrap(h + i - 1) /\ Wrap(h + i - 1) \in 0..(Size - 1)
  BY <1>2, ModIsWrap
<1>4. \A i \in 1..n : OldestOf(q, h, n)[i] = q[Wrap(h + i - 1)]
  BY <1>3 DEF OldestOf
<1>5. OldestOf(q, h, n) \in [1..n -> Slot]
  BY <1>3 DEF OldestOf
<1>6. OldestOf(q, h, n) \in Seq(Slot) /\ Len(OldestOf(q, h, n)) = n
  BY <1>1, <1>5
<1> QED BY <1>4, <1>6

LEMMA LastIndex == \A n \in Nat : \A i \in 1..(n + 1) : i \in 1..n \/ i = n + 1
OBVIOUS

(* One event more at the end.                                              *)
LEMMA OldestAppend ==
  ASSUME NEW q \in [0..(Size - 1) -> Slot], NEW h \in 0..(Size - 1), NEW n \in 0..(Size - 1)
  PROVE  OldestOf(q, h, n + 1) = Append(OldestOf(q, h, n), q[Wrap(h + n)])
<1> DEFINE s == OldestOf(q, h, n)
           u == OldestOf(q, h, n + 1)
           e == q[Wrap(h + n)]
<1>1. Size \in Nat \ {0} /\ n \in 0..Size /\ n + 1 \in 0..Size /\ n \in Nat
  BY EventsConstants
<1>2. h + n \in 0..(2 * Size - 1)
  BY <1>1
<1>3. e \in Slot
  BY <1>2, ModIsWrap
<1>4. s \in Seq(Slot) /\ Len(s) = n /\ \A i \in 1..n : s[i] = q[Wrap(h + i - 1)]
  BY <1>1, OldestIs
<1>5. u \in Seq(Slot) /\ Len(u) = n + 1 /\ \A i \in 1..(n + 1) : u[i] = q[Wrap(h + i - 1)]
  BY <1>1, OldestIs
<1> HIDE DEF s, u
<1>6. /\ Append(s, e) \in Seq(Slot) /\ Len(Append(s, e)) = n + 1
      /\ \A i \in 1..n : Append(s, e)[i] = s[i]
      /\ Append(s, e)[n + 1] = e
  BY <1>3, <1>4, AppendProperties
<1>7. u[n + 1] = e
  <2>1. h + (n + 1) - 1 = h + n
    BY <1>1
  <2> QED BY <1>1, <1>5, <2>1
<1>8. \A i \in 1..(n + 1) : u[i] = Append(s, e)[i]
  <2> TAKE i \in 1..(n + 1)
  <2>1. CASE i \in 1..n
    <3>1. u[i] = q[Wrap(h + i - 1)] /\ s[i] = q[Wrap(h + i - 1)]
      BY <1>4, <1>5, <2>1
    <3> QED BY <1>6, <2>1, <3>1
  <2>2. CASE i = n + 1
    BY <1>6, <1>7, <2>2
  <2> QED BY <1>1, <2>1, <2>2, LastIndex, Zenon
<1>9. u = Append(s, e)
  BY <1>5, <1>6, <1>8, SeqEqual
<1> QED BY <1>9 DEF s, u

(* One event less at the front.                                            *)
LEMMA OldestTail ==
  ASSUME NEW q \in [0..(Size - 1) -> Slot], NEW h \in 0..(Size - 1), NEW n \in 1..Size
  PROVE  /\ OldestOf(q, h, n) # << >>
         /\ Head(OldestOf(q, h, n)) = q[h]
         /\ Tail(OldestOf(q, h, n)) = OldestOf(q, Succ(h), n - 1)
<1> DEFINE s == OldestOf(q, h, n)
           u == OldestOf(q, Succ(h), n - 1)
<1>1. Size \in Nat \ {0} /\ n \in 0..Size /\ n - 1 \in 0..Size /\ n \in Nat
  BY EventsConstants
<1>2. Succ(h) \in 0..(Size - 1) /\ Succ(h) = IF h = Size - 1 THEN 0 ELSE h + 1
  BY SuccIs
<1>3. s \in Seq(Slot) /\ Len(s) = n /\ \A i \in 1..n : s[i] = q[Wrap(h + i - 1)]
  BY <1>1, OldestIs
<1>4. /\ u \in Seq(Slot) /\ Len(u) = n - 1
      /\ \A i \in 1..(n - 1) : u[i] = q[Wrap(Succ(h) + i - 1)]
  BY <1>1, <1>2, OldestIs
<1> HIDE DEF s, u
<1>5. s # << >>
  BY <1>3
<1>6. /\ Head(s) = s[1] /\ Tail(s) \in Seq(Slot) /\ Len(Tail(s)) = n - 1
      /\ \A i \in 1..(n - 1) : Tail(s)[i] = s[i + 1]
  BY <1>3, <1>5, HeadTailProperties
<1>7. Head(s) = q[h]
  <2>1. Wrap(h + 1 - 1) = h
    BY <1>1 DEF Wrap
  <2> QED BY <1>3, <1>6, <2>1
<1>8. \A i \in 1..(n - 1) : u[i] = Tail(s)[i]
  <2> TAKE i \in 1..(n - 1)
  <2>1. Wrap(Succ(h) + i - 1) = Wrap(h + (i + 1) - 1)
    BY <1>1, <1>2 DEF Wrap
  <2>2. s[i + 1] = q[Wrap(h + (i + 1) - 1)] /\ i \in Nat
    BY <1>1, <1>3
  <2> QED BY <1>4, <1>6, <2>1, <2>2
<1>9. u = Tail(s)
  BY <1>4, <1>6, <1>8, SeqEqual
<1> QED BY <1>5, <1>7, <1>9 DEF s, u

(* A store behind the events leaves them alone.                            *)
LEMMA OldestStore ==
  ASSUME NEW q \in [0..(Size - 1) -> Slot], NEW h \in 0..(Size - 1), NEW n \in 0..(Size - 1),
         NEW r \in [0..(Size - 1) -> Slot],
         \A i \in 0..(Size - 1) : i # Wrap(h + n) => r[i] = q[i]
  PROVE  OldestOf(r, h, n) = OldestOf(q, h, n)
<1>1. Size \in Nat \ {0} /\ n \in 0..Size
  BY EventsConstants
<1>2. \A i \in 1..n : r[Wrap(h + i - 1)] = q[Wrap(h + i - 1)]
  <2> TAKE i \in 1..n
  <2>1. Wrap(h + i - 1) # Wrap(h + n) /\ Wrap(h + i - 1) \in 0..(Size - 1)
    BY <1>1 DEF Wrap
  <2> QED BY <2>1
<1> DEFINE s == OldestOf(q, h, n)
           u == OldestOf(r, h, n)
<1>3. s \in Seq(Slot) /\ Len(s) = n /\ \A i \in 1..n : s[i] = q[Wrap(h + i - 1)]
  BY <1>1, OldestIs
<1>4. u \in Seq(Slot) /\ Len(u) = n /\ \A i \in 1..n : u[i] = r[Wrap(h + i - 1)]
  BY <1>1, OldestIs
<1> HIDE DEF s, u
<1>5. \A i \in 1..Len(s) : u[i] = s[i]
  BY <1>2, <1>3, <1>4
<1>6. u = s
  BY <1>3, <1>4, <1>5, SeqEqual
<1> QED BY <1>6 DEF s, u

-----------------------------------------------------------------------------
(* The queue the callers see *)

LEMMA VisibleIs ==
  /\ full => Visible = Append(OldestOf(queue, head, Size - 1), ev[lock])
  /\ ~full => Visible = OldestOf(queue, head, count)
BY DEF Visible, Oldest, OldestOf

LEMMA RingTypes ==
  ASSUME RingInv
  PROVE  /\ Size \in Nat \ {0} /\ count \in 0..Size /\ head \in 0..(Size - 1)
         /\ queue \in [0..(Size - 1) -> Slot] /\ ev \in [Threads -> Slot]
BY EventsConstants DEF RingInv, TypeOK

(* It is empty just when count, which some callers read without the lock,  *)
(* says so.                                                                *)
LEMMA VisibleEmpty ==
  ASSUME RingInv, Size > 1
  PROVE  Visible = << >> <=> count = 0
<1>1. CASE full
  <2>1. count = Size - 1 /\ lock \in Threads
    BY <1>1, EventsConstants DEF RingInv, RingConsistent, At, TypeOK
  <2>2. OldestOf(queue, head, Size - 1) \in Seq(Slot) /\ ev[lock] \in Slot
    <3>1. Size - 1 \in 0..Size
      BY RingTypes
    <3> QED BY <2>1, <3>1, RingTypes, OldestIs
  <2>3. Visible # << >>
    BY <1>1, <2>2, VisibleIs
  <2> QED BY <2>1, <2>3, RingTypes
<1>2. CASE ~full
  <2>1. Visible \in Seq(Slot) /\ Len(Visible) = count
    BY <1>2, RingTypes, OldestIs, VisibleIs
  <2> QED BY <2>1, EmptySeq
<1> QED BY <1>1, <1>2

LEMMA SameVisible ==
  ASSUME RingInv, UNCHANGED <<ring, full>>,
         full => lock' = lock /\ ev'[lock] = ev[lock]
  PROVE  Visible' = Visible
BY DEF Visible, Oldest, ring

(* Inside a call other than trigger nothing is half done.                  *)
LEMMA NotFull ==
  ASSUME RingInv, ~At("store"), ~At("count") PROVE ~full
BY DEF RingInv, RingConsistent

-----------------------------------------------------------------------------
(* Every step keeps the invariant *)

LEMMA NextTrigger == FifoInv /\ [Next]_vars => FifoInv'
<1> SUFFICES ASSUME FifoInv, [Next]_vars PROVE FifoInv'
  OBVIOUS
<1>1. RingInv /\ RingInv'
  BY NextRing DEF FifoInv
<1>2. CASE UNCHANGED vars
  BY <1>1, <1>2 DEF FifoInv, TriggerInv, At, vars, ring
<1>3. ASSUME NEW t \in Threads, Step(t) PROVE TriggerInv'
  <2>1. ASSUME NEW e \in Event, TriggerEnter(t, e) PROVE TriggerInv'
    <3>1. /\ lock' = t /\ pc'[t] = "room" /\ ev'[t] = e
      BY <1>1, <2>1 DEF TriggerEnter, Goto, RingInv, TypeOK
    <3> QED BY <3>1 DEF TriggerInv, At
  <2>2. ASSUME TriggerRoom(t) PROVE TriggerInv'
    <3>1. lock = t /\ \A p : At(p) <=> pc[t] = p
      BY <1>1, <2>2, Holder DEF TriggerRoom, Unlocked
    <3>2. pc'[t] = "store" /\ UNCHANGED <<lock, ev>> /\ ev[t] \in Event
      BY <1>1, <2>2, <3>1 DEF TriggerRoom, Goto, RingInv, TypeOK, FifoInv, TriggerInv
    <3> QED BY <3>1, <3>2 DEF TriggerInv, At
  <2>3. ASSUME TriggerStore(t) PROVE TriggerInv'
    <3>1. lock = t /\ \A p : At(p) <=> pc[t] = p
      BY <1>1, <2>3, Holder DEF TriggerStore, Unlocked
    <3>2. /\ pc'[t] = "count" /\ UNCHANGED <<lock, ev, head, count>> /\ ev[t] \in Event
          /\ queue' = [queue EXCEPT ![tail] = ev[t]]
      BY <1>1, <2>3, <3>1 DEF TriggerStore, Goto, RingInv, TypeOK, FifoInv, TriggerInv
    <3>3. tail = Wrap(head + count) /\ tail \in 0..(Size - 1)
      BY <1>1, <2>3, <3>1, RingTypes DEF TriggerStore, RingInv, RingConsistent, Wrap, TypeOK
    <3>4. queue'[tail] = ev[t]
      BY <1>1, <3>2, <3>3, RingTypes
    <3> QED BY <3>1, <3>2, <3>3, <3>4 DEF TriggerInv
  <2>4. ASSUME ~At("room")', ~At("store")', ~At("count")' PROVE TriggerInv'
    BY <2>4 DEF TriggerInv
  <2>5. ASSUME NEW p, Goto(t, p), lock' \in {NoThread, t}, p \notin {"room", "store", "count"}
        PROVE  TriggerInv'
    <3>1. pc'[t] = p
      BY <1>1, <2>5 DEF Goto, RingInv, TypeOK
    <3> QED BY <2>4, <2>5, <3>1 DEF At
  <2>6. ASSUME TriggerCount(t) \/ PopRead(t) \/ PopTake(t) \/ Peek(t) \/ SeverityScan(t)
               \/ Leave(t) \/ \E m \in MaxCounts : GetAll(t, m)
        PROVE  TriggerInv'
    <3>1. lock = t
      BY <1>1, <2>6, Holder DEF TriggerCount, PopRead, PopTake, Peek, SeverityScan, Leave,
         GetAll, Unlocked
    <3>2. /\ lock' \in {NoThread, t}
          /\ \E p \in {"leave", "take", "ready"} : Goto(t, p)
      BY <2>6, <3>1 DEF TriggerCount, PopRead, PopTake, Peek, SeverityScan, Leave, GetAll
    <3> QED BY <2>5, <3>2
  <2>7. ASSUME (\E p \in {"pop", "peek", "copy"} : ReadEnter(t, p)) \/ SeverityEnter(t)
        PROVE  TriggerInv'
    <3>1. lock' = t /\ \E p \in {"pop", "peek", "copy", "scan"} : Goto(t, p)
      BY <2>7 DEF ReadEnter, SeverityEnter
    <3> QED BY <2>5, <3>1
  <2>8. ASSUME Pending(t) \/ SeverityCheck(t) PROVE TriggerInv'
    <3>1. /\ pc[t] = "ready" /\ UNCHANGED <<ring, lock, ev>>
          /\ pc' = pc \/ Goto(t, "enter_scan")
      BY <2>8 DEF Pending, SeverityCheck
    <3>2. t # lock
      BY <1>1, <3>1 DEF RingInv, LockProtects, Unlocked
    <3>3. \A p : At(p)' <=> At(p)
      BY <1>1, <3>1, <3>2 DEF At, Goto, RingInv, TypeOK
    <3> QED BY <3>1, <3>3 DEF FifoInv, TriggerInv, ring
  <2> QED BY <1>3, <2>1, <2>2, <2>3, <2>6, <2>7, <2>8 DEF Step
<1> QED BY <1>1, <1>2, <1>3 DEF Next, FifoInv

-----------------------------------------------------------------------------
(* Every step is one of the FIFO's *)

(* The trigger that drops the oldest event takes effect with the drop.     *)
LEMMA RoomRefines ==
  ASSUME FifoInv, NEW t \in Threads, TriggerRoom(t)
  PROVE  Fifo!Next
<1>1. RingInv
  BY DEF FifoInv
<1>2. lock = t /\ \A p : At(p) <=> pc[t] = p
  BY <1>1, Holder DEF TriggerRoom, Unlocked
<1>3. ~full /\ Visible = OldestOf(queue, head, count) /\ ev[t] \in Event /\ ev[t] \in Slot
  BY <1>1, <1>2, NotFull, VisibleIs DEF TriggerRoom, FifoInv, TriggerInv, Slot
<1>4. /\ ret' = NoRet /\ UNCHANGED <<queue, tail, lock, ev>>
      /\ IF count >= Size THEN full' = TRUE /\ head' = Succ(head) /\ count' = count - 1
         ELSE full' = FALSE /\ UNCHANGED <<head, count>>
  BY DEF TriggerRoom
<1>5. CASE count >= Size
  <2>1. count = Size /\ Size \in 1..Size
    BY <1>1, <1>5, RingTypes
  <2>2. Tail(Visible) = OldestOf(queue, Succ(head), Size - 1) /\ Len(Visible) = Size
    BY <1>1, <1>3, <2>1, RingTypes, OldestTail, OldestIs
  <2>3. Visible' = Append(OldestOf(queue, Succ(head), Size - 1), ev[t])
    BY <1>2, <1>4, <1>5 DEF Visible, Oldest, OldestOf
  <2>4. ~(Len(Visible) < Size)
    BY <1>1, <2>2, RingTypes
  <2>5. Fifo!Trigger(ev[t])
    BY <1>4, <2>2, <2>3, <2>4 DEF Fifo!Trigger, Fifo!NoRet, Fifo!Ret, NoRet, Ret
  <2> QED BY <1>3, <2>5 DEF Fifo!Next
<1>6. CASE ~(count >= Size)
  <2>1. Visible' = Visible
    BY <1>3, <1>4, <1>6 DEF Visible, Oldest
  <2>2. Fifo!Quiet
    BY <1>4, <2>1 DEF Fifo!Quiet, Fifo!NoRet, Fifo!Ret, NoRet, Ret
  <2> QED BY <2>2 DEF Fifo!Next
<1> QED BY <1>5, <1>6

(* The store is out of sight.                                              *)
LEMMA StoreRefines ==
  ASSUME FifoInv, NEW t \in Threads, TriggerStore(t)
  PROVE  Fifo!Next
<1>1. RingInv
  BY DEF FifoInv
<1>2. lock = t /\ \A p : At(p) <=> pc[t] = p
  BY <1>1, Holder DEF TriggerStore, Unlocked
<1>3. /\ ret' = NoRet /\ UNCHANGED <<head, count, lock, ev, full>> /\ ev[t] \in Slot
      /\ queue' = [queue EXCEPT ![tail] = ev[t]]
  BY <1>1, RingTypes DEF TriggerStore
<1>4. /\ tail = Wrap(head + count) /\ count \in 0..(Size - 1)
      /\ full => count = Size - 1
  BY <1>1, <1>2, RingTypes DEF TriggerStore, RingInv, RingConsistent, Wrap, TypeOK
<1>5. OldestOf(queue', head, count) = OldestOf(queue, head, count)
  <2>1. /\ queue \in [0..(Size - 1) -> Slot] /\ head \in 0..(Size - 1)
        /\ queue' \in [0..(Size - 1) -> Slot]
        /\ \A i \in 0..(Size - 1) : i # Wrap(head + count) => queue'[i] = queue[i]
    BY <1>1, <1>3, <1>4, RingTypes
  <2> QED BY <1>4, <2>1, OldestStore
<1>6. Visible' = Visible
  BY <1>3, <1>4, <1>5 DEF Visible, Oldest, OldestOf
<1>7. Fifo!Quiet
  BY <1>3, <1>6 DEF Fifo!Quiet, Fifo!NoRet, Fifo!Ret, NoRet, Ret
<1> QED BY <1>7 DEF Fifo!Next

(* The trigger that found room takes effect when it counts its event.      *)
LEMMA CountRefines ==
  ASSUME FifoInv, NEW t \in Threads, TriggerCount(t)
  PROVE  Fifo!Next
<1>1. RingInv
  BY DEF FifoInv
<1>2. lock = t /\ \A p : At(p) <=> pc[t] = p
  BY <1>1, Holder DEF TriggerCount, Unlocked
<1>3. /\ ret' = NoRet /\ UNCHANGED <<queue, head, tail, lock, ev>> /\ full' = FALSE
      /\ count' = count + 1
  BY DEF TriggerCount
<1>4. /\ count \in 0..(Size - 1) /\ (full => count = Size - 1)
      /\ ev[t] \in Event /\ queue[Wrap(head + count)] = ev[t]
  BY <1>1, <1>2, RingTypes DEF TriggerCount, RingInv, RingConsistent, FifoInv, TriggerInv
<1>5. Visible' = OldestOf(queue, head, count + 1)
  BY <1>3 DEF Visible, Oldest, OldestOf
<1>6. Visible' = Append(OldestOf(queue, head, count), ev[t])
  BY <1>1, <1>4, <1>5, RingTypes, OldestAppend
<1>7. CASE full
  <2>1. Visible' = Visible
    BY <1>2, <1>4, <1>6, <1>7, VisibleIs
  <2>2. Fifo!Quiet
    BY <1>3, <2>1 DEF Fifo!Quiet, Fifo!NoRet, Fifo!Ret, NoRet, Ret
  <2> QED BY <2>2 DEF Fifo!Next
<1>8. CASE ~full
  <2>1. Visible = OldestOf(queue, head, count)
    BY <1>8, VisibleIs
  <2>2. Len(Visible) = count /\ count < Size
    BY <1>1, <1>4, <2>1, RingTypes, OldestIs
  <2>3. Fifo!Trigger(ev[t])
    BY <1>3, <1>6, <2>1, <2>2 DEF Fifo!Trigger, Fifo!NoRet, Fifo!Ret, NoRet, Ret
  <2> QED BY <1>4, <2>3 DEF Fifo!Next
<1> QED BY <1>7, <1>8

LEMMA PopRefines ==
  ASSUME FifoInv, NEW t \in Threads, PopRead(t) \/ PopTake(t)
  PROVE  Fifo!Next
<1>1. RingInv
  BY DEF FifoInv
<1>2. lock = t /\ \A p : At(p) <=> pc[t] = p
  BY <1>1, Holder DEF PopRead, PopTake, Unlocked
<1>3. ~full /\ Visible = OldestOf(queue, head, count)
  BY <1>1, <1>2, NotFull, VisibleIs DEF PopRead, PopTake
<1>4. CASE PopRead(t)
  <2>1. Visible' = Visible
    BY <1>1, <1>3, <1>4, SameVisible DEF PopRead
  <2>2. CASE count > 0
    <3>1. Fifo!Quiet
      BY <1>4, <2>1, <2>2 DEF PopRead, Fifo!Quiet, Fifo!NoRet, Fifo!Ret, NoRet, Ret
    <3> QED BY <3>1 DEF Fifo!Next
  <2>3. CASE ~(count > 0)
    <3>1. count = 0 /\ Visible \in Seq(Slot) /\ Len(Visible) = 0
      BY <1>1, <1>3, <2>3, RingTypes, OldestIs
    <3>2. Visible = << >>
      BY <3>1, EmptySeq
    <3>3. Fifo!Pop
      BY <1>4, <2>1, <2>3, <3>2 DEF PopRead, Fifo!Pop, Fifo!Ret, Ret
    <3> QED BY <3>3 DEF Fifo!Next
  <2> QED BY <2>2, <2>3
<1>5. CASE PopTake(t)
  <2>1. /\ head' = Succ(head) /\ count' = count - 1 /\ ret' = Ret("pop", 1, <<ev[t]>>)
        /\ UNCHANGED <<queue, tail, lock, ev, full>>
    BY <1>5 DEF PopTake
  <2>2. count \in 1..Size /\ ev[t] = queue[head]
    BY <1>1, <1>2, <1>5, RingTypes DEF PopTake, RingInv, RingConsistent
  <2>3. /\ Visible # << >> /\ Head(Visible) = ev[t]
        /\ Tail(Visible) = OldestOf(queue, Succ(head), count - 1)
    BY <1>1, <1>3, <2>2, RingTypes, OldestTail
  <2>4. Visible' = OldestOf(queue, Succ(head), count - 1)
    BY <1>3, <2>1 DEF Visible, Oldest, OldestOf
  <2>5. Fifo!Pop
    BY <2>1, <2>3, <2>4 DEF Fifo!Pop, Fifo!Ret, Ret
  <2> QED BY <2>5 DEF Fifo!Next
<1> QED BY <1>4, <1>5

LEMMA PeekRefines ==
  ASSUME FifoInv, NEW t \in Threads, Peek(t)
  PROVE  Fifo!Next
<1>1. RingInv
  BY DEF FifoInv
<1>2. lock = t /\ \A p : At(p) <=> pc[t] = p
  BY <1>1, Holder DEF Peek, Unlocked
<1>3. ~full /\ Visible = OldestOf(queue, head, count)
  BY <1>1, <1>2, NotFull, VisibleIs DEF Peek
<1>4. Visible' = Visible
  BY <1>1, <1>3, SameVisible DEF Peek
<1>5. CASE count > 0
  <2>1. count \in 1..Size
    BY <1>1, <1>5, RingTypes
  <2>2. Visible # << >> /\ Head(Visible) = queue[head]
    BY <1>1, <1>3, <2>1, RingTypes, OldestTail
  <2>3. Fifo!Peek
    BY <1>4, <1>5, <2>2 DEF Peek, Fifo!Peek, Fifo!Ret, Ret
  <2> QED BY <2>3 DEF Fifo!Next
<1>6. CASE ~(count > 0)
  <2>1. count = 0 /\ Visible \in Seq(Slot) /\ Len(Visible) = 0
    BY <1>1, <1>3, <1>6, RingTypes, OldestIs
  <2>2. Visible = << >>
    BY <2>1, EmptySeq
  <2>3. Fifo!Peek
    BY <1>4, <1>6, <2>2 DEF Peek, Fifo!Peek, Fifo!Ret, Ret
  <2> QED BY <2>3 DEF Fifo!Next
<1> QED BY <1>5, <1>6

LEMMA LesserIsMin ==
  ASSUME NEW a \in Int, NEW b \in Int
  PROVE  Min({a, b}) = IF b < a THEN b ELSE a
BY DEF Min

LEMMA GetAllRefines ==
  ASSUME FifoInv, NEW t \in Threads, NEW m \in MaxCounts, GetAll(t, m)
  PROVE  Fifo!Next
<1> DEFINE n == IF count < m THEN count ELSE m
           u == OldestOf(queue, head, n)
           w == SubSeq(Visible, 1, n)
<1>1. RingInv
  BY DEF FifoInv
<1>2. lock = t /\ \A p : At(p) <=> pc[t] = p
  BY <1>1, Holder DEF GetAll, Unlocked
<1>3. ~full /\ Visible = OldestOf(queue, head, count)
  BY <1>1, <1>2, NotFull, VisibleIs DEF GetAll
<1>4. Visible' = Visible
  BY <1>1, <1>3, SameVisible DEF GetAll
<1>5. ret' = Ret("all", n, u)
  BY DEF GetAll, Oldest, OldestOf
<1>6. n \in 0..count /\ n \in 0..Size /\ count \in Int /\ m \in Int
  BY <1>1, RingTypes, EventsConstants
<1>7. /\ Visible \in Seq(Slot) /\ Len(Visible) = count
      /\ \A i \in 1..count : Visible[i] = queue[Wrap(head + i - 1)]
  BY <1>1, <1>3, RingTypes, OldestIs
<1>8. n = Min({m, Len(Visible)})
  BY <1>6, <1>7, LesserIsMin
<1> HIDE DEF n
<1>9. u \in Seq(Slot) /\ Len(u) = n /\ \A i \in 1..n : u[i] = queue[Wrap(head + i - 1)]
  BY <1>1, <1>6, RingTypes, OldestIs
<1>10. w \in Seq(Slot) /\ Len(w) = n /\ \A i \in 1..n : w[i] = Visible[i]
  BY <1>6, <1>7, SubSeqProperties
<1> HIDE DEF u, w
<1>11. u = w
  <2>1. \A i \in 1..n : i \in 1..count
    BY <1>6
  <2>2. \A i \in 1..n : u[i] = w[i]
    BY <1>7, <1>9, <1>10, <2>1
  <2> QED BY <1>9, <1>10, <2>2, SeqEqual
<1>12. Fifo!GetAll(m)
  BY <1>4, <1>5, <1>8, <1>11 DEF Fifo!GetAll, Fifo!Ret, Fifo!Min, Min, Ret, w
<1> QED BY <1>12 DEF Fifo!Next

(* The two calls that read count without the lock: the answer is right for *)
(* the queue the callers see, also in the middle of a trigger.             *)
LEMMA UnlockedRefines ==
  ASSUME FifoInv, Size > 1, NEW t \in Threads, Pending(t) \/ SeverityCheck(t)
  PROVE  Fifo!Next
<1>1. RingInv
  BY DEF FifoInv
<1>2. Visible' = Visible
  <2>1. UNCHANGED <<ring, lock, ev, full>>
    BY DEF Pending, SeverityCheck
  <2> QED BY <1>1, <2>1, SameVisible
<1>3. Visible = << >> <=> count = 0
  BY <1>1, VisibleEmpty
<1>4. count \in Nat
  BY <1>1, RingTypes
<1>5. CASE Pending(t)
  <2>1. Fifo!Pending
    BY <1>2, <1>3, <1>4, <1>5 DEF Pending, Fifo!Pending, Fifo!Ret, Ret
  <2> QED BY <2>1 DEF Fifo!Next
<1>6. CASE SeverityCheck(t) /\ count = 0
  <2>1. Max({0}) = 0
    BY DEF Max
  <2>2. {0} \cup {Severity[e] : e \in Fifo!Elements(<< >>)} = {0}
    BY DEF Fifo!Elements
  <2>3. Fifo!HighestSeverity(<< >>) = 0
    BY <2>1, <2>2 DEF Fifo!HighestSeverity, Fifo!Max, Max
  <2>4. Fifo!GetHighestSeverity
    BY <1>2, <1>3, <1>6, <2>3 DEF SeverityCheck, Fifo!GetHighestSeverity, Fifo!Ret, Ret
  <2> QED BY <2>4 DEF Fifo!Next
<1>7. CASE SeverityCheck(t) /\ count # 0
  <2>1. Fifo!Quiet
    BY <1>2, <1>7 DEF SeverityCheck, Fifo!Quiet, Fifo!NoRet, Fifo!Ret, NoRet, Ret
  <2> QED BY <2>1 DEF Fifo!Next
<1> QED BY <1>5, <1>6, <1>7

LEMMA ScanRefines ==
  ASSUME FifoInv, NEW t \in Threads, SeverityScan(t)
  PROVE  Fifo!Next
<1>1. RingInv
  BY DEF FifoInv
<1>2. lock = t /\ \A p : At(p) <=> pc[t] = p
  BY <1>1, Holder DEF SeverityScan, Unlocked
<1>3. ~full /\ Visible = OldestOf(queue, head, count)
  BY <1>1, <1>2, NotFull, VisibleIs DEF SeverityScan
<1>4. Visible' = Visible
  BY <1>1, <1>3, SameVisible DEF SeverityScan
<1>5. Len(Visible) = count /\ Visible = Oldest(count)
  BY <1>1, <1>3, RingTypes, OldestIs DEF Oldest, OldestOf
<1>6. {Severity[Oldest(count)[i]] : i \in 1..count} =
        {Severity[e] : e \in Fifo!Elements(Visible)}
  BY <1>5 DEF Fifo!Elements
<1>7. Fifo!GetHighestSeverity
  BY <1>4, <1>6
  DEF SeverityScan, Fifo!GetHighestSeverity, Fifo!HighestSeverity, Fifo!Max, Max, Fifo!Ret, Ret
<1> QED BY <1>7 DEF Fifo!Next

(* Entering and leaving a call shows no effect.                            *)
LEMMA EdgeRefines ==
  ASSUME FifoInv, NEW t \in Threads,
         \/ \E e \in Event : TriggerEnter(t, e)
         \/ \E p \in {"pop", "peek", "copy"} : ReadEnter(t, p)
         \/ SeverityEnter(t) \/ Leave(t)
  PROVE  Fifo!Next
<1>1. RingInv
  BY DEF FifoInv
<1>2. ret' = NoRet /\ UNCHANGED <<ring, full>> /\ (lock = NoThread \/ Leave(t))
  BY DEF TriggerEnter, ReadEnter, SeverityEnter, Leave
<1>3. ~At("store") /\ ~At("count")
  <2>1. CASE lock = NoThread
    BY <2>1 DEF At
  <2>2. CASE Leave(t)
    BY <1>1, <2>2, Holder DEF Leave, Unlocked
  <2> QED BY <1>2, <2>1, <2>2
<1>4. Visible' = Visible
  BY <1>1, <1>2, <1>3, NotFull, SameVisible
<1>5. Fifo!Quiet
  BY <1>2, <1>4 DEF Fifo!Quiet, Fifo!NoRet, Fifo!Ret, NoRet, Ret
<1> QED BY <1>5 DEF Fifo!Next

-----------------------------------------------------------------------------
(* The theorems *)

(* At most one thread is between iolink_critical_enter and                 *)
(* iolink_critical_exit of a call of events.c, and it is the one that      *)
(* holds the lock: no path of any call leaves without releasing it.        *)
THEOREM EventsLockProtects == Spec => []LockProtects
<1>1. RingInv => LockProtects
  BY DEF RingInv
<1> QED BY <1>1, SpecRing, PTL

(* Every call of events.c, whatever other threads do in the middle of it,  *)
(* behaves as if it took effect at one instant on a FIFO that drops its    *)
(* oldest event: no event is lost otherwise, duplicated or reordered, and  *)
(* the reads of count outside the lock answer as if they were inside.  The *)
(* queue must hold two events or more.                                     *)
THEOREM EventsImplementFifo ==
  ASSUME Size > 1
  PROVE  Spec => FifoSpec
<1>1. Init => FifoInv /\ Fifo!Init
  <2> SUFFICES ASSUME Init PROVE FifoInv /\ Fifo!Init
    OBVIOUS
  <2>1. FifoInv
    BY InitRing DEF Init, FifoInv, TriggerInv, At
  <2>2. RingInv /\ count = 0 /\ full = FALSE /\ ret = NoRet
    BY <2>1 DEF Init, FifoInv
  <2>3. Visible = << >>
    BY <2>2, VisibleEmpty
  <2> QED BY <2>1, <2>2, <2>3 DEF Fifo!Init, Fifo!NoRet, Fifo!Ret, NoRet, Ret
<1>2. FifoInv /\ [Next]_vars => [Fifo!Next]_<<Visible, ret>>
  <2> SUFFICES ASSUME FifoInv, [Next]_vars PROVE [Fifo!Next]_<<Visible, ret>>
    OBVIOUS
  <2>1. CASE Next
    <3>1. PICK t \in Threads : Step(t)
      BY <2>1 DEF Next
    <3>2. Fifo!Next
      BY <3>1, RoomRefines, StoreRefines, CountRefines, PopRefines, PeekRefines,
         GetAllRefines, UnlockedRefines, ScanRefines, EdgeRefines DEF Step
    <3> QED BY <3>2
  <2>2. CASE UNCHANGED vars
    BY <2>2 DEF vars, ring, Visible, Oldest
  <2> QED BY <2>1, <2>2
<1> QED BY <1>1, <1>2, NextTrigger, PTL DEF Spec, FifoSpec, Fifo!Spec
=============================================================================
