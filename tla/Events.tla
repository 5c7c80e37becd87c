------------------------------- MODULE Events -------------------------------
(***************************************************************************)
(* The event engine (events.c): a ring of Size events, filled by           *)
(* iolink_event_trigger from the DLL and from the application, and read by *)
(* the DLL (pending), by the ISDU engine (pop, get_highest_severity,       *)
(* get_all) and by the application (peek).                                 *)
(*                                                                         *)
(* Threads call it at the same time.  iolink_critical_enter and            *)
(* iolink_critical_exit are a lock that one thread holds, as platform.h    *)
(* asks; the statements between them are separate steps wherever another   *)
(* thread could look in between, because iolink_events_pending and the     *)
(* test at the head of get_highest_severity read count without the lock.   *)
(***************************************************************************)
EXTENDS Integers, Sequences, FiniteSetsExt

CONSTANTS Threads,
          NoThread,
          Codes,      \* event codes
          Size,       \* IOLINK_EVENT_QUEUE_SIZE: 4
          MaxCounts   \* the sizes of the buffers given to get_all

ASSUME EventsConstants ==
  /\ NoThread \notin Threads
  /\ Codes \subseteq Nat
  /\ Size \in 1..255
  /\ MaxCounts \subseteq 1..255

Types == {"NOTIFICATION", "WARNING", "ERROR"}
Event == [code : Codes, type : Types]

(* What iolink_ctx_zero leaves in a slot.                                  *)
ZeroEvent == [code |-> 0, type |-> "NOTIFICATION"]
Slot == Event \cup {ZeroEvent}

Severity == [e \in Slot |-> CASE e.type = "NOTIFICATION" -> 1
                              [] e.type = "WARNING" -> 2
                              [] e.type = "ERROR" -> 3]

VARIABLES queue, head, tail, count,
          lock,    \* the thread between critical_enter and critical_exit
          pc,      \* where each thread is
          ev,      \* its event: the argument of trigger, the copy made by pop
          full,    \* trigger found the queue full
          ret      \* what the call that returned in this step returned

ring == <<queue, head, tail, count>>
vars == <<ring, lock, pc, ev, full, ret>>

PCs == {"ready", "room", "store", "count", "pop", "take", "peek", "copy",
        "enter_scan", "scan", "leave"}

Ret(op, n, evs) == [op |-> op, n |-> n, evs |-> evs]
NoRet == Ret("none", 0, << >>)

Init ==
  /\ queue = [i \in 0..(Size - 1) |-> ZeroEvent]
  /\ head = 0 /\ tail = 0 /\ count = 0
  /\ lock = NoThread
  /\ pc = [t \in Threads |-> "ready"]
  /\ ev = [t \in Threads |-> ZeroEvent]
  /\ full = FALSE
  /\ ret = NoRet

Goto(t, p) == pc' = [pc EXCEPT ![t] = p]

(* The ring index after i.                                                 *)
Succ(i) == (i + 1) % Size

(* n events from the oldest on, as the loops over head + i read them.      *)
Oldest(n) == [i \in 1..n |-> queue[(head + i - 1) % Size]]

-----------------------------------------------------------------------------
(* iolink_event_trigger *)

TriggerEnter(t, e) ==
  /\ pc[t] = "ready" /\ lock = NoThread
  /\ lock' = t /\ ev' = [ev EXCEPT ![t] = e]
  /\ Goto(t, "room")
  /\ ret' = NoRet /\ UNCHANGED <<ring, full>>

(* Mutant: a full queue is not noticed. *)
TriggerRoomNoDrop(t) ==
  /\ pc[t] = "room"
  /\ IF count > Size
     THEN full' = TRUE /\ head' = Succ(head) /\ count' = count - 1
     ELSE full' = FALSE /\ UNCHANGED <<head, count>>
  /\ Goto(t, "store")
  /\ ret' = NoRet /\ UNCHANGED <<queue, tail, lock, ev>>

(* Mutant: the drop does not move head. *)
TriggerRoomKeepsHead(t) ==
  /\ pc[t] = "room"
  /\ IF count >= Size
     THEN full' = TRUE /\ head' = head /\ count' = count - 1
     ELSE full' = FALSE /\ UNCHANGED <<head, count>>
  /\ Goto(t, "store")
  /\ ret' = NoRet /\ UNCHANGED <<queue, tail, lock, ev>>

TriggerRoom(t) ==
  /\ pc[t] = "room"
  /\ IF count >= Size
     THEN full' = TRUE /\ head' = Succ(head) /\ count' = count - 1
     ELSE full' = FALSE /\ UNCHANGED <<head, count>>
  /\ Goto(t, "store")
  /\ ret' = NoRet /\ UNCHANGED <<queue, tail, lock, ev>>

TriggerStore(t) ==
  /\ pc[t] = "store"
  /\ queue' = [queue EXCEPT ![tail] = ev[t]]
  /\ tail' = Succ(tail)
  /\ Goto(t, "count")
  /\ ret' = NoRet /\ UNCHANGED <<head, count, lock, ev, full>>

TriggerCount(t) ==
  /\ pc[t] = "count"
  /\ count' = count + 1
  /\ full' = FALSE
  /\ Goto(t, "leave")
  /\ ret' = NoRet /\ UNCHANGED <<queue, head, tail, lock, ev>>

-----------------------------------------------------------------------------
(* The readers *)

(* Mutant: a reader does not wait for the lock. *)
ReadEnterAnyway(t, p) ==
  /\ pc[t] = "ready"
  /\ lock' = t
  /\ Goto(t, p)
  /\ ret' = NoRet /\ UNCHANGED <<ring, ev, full>>

(* Calls that take the lock first: pop, peek and get_all.                  *)
ReadEnter(t, p) ==
  /\ pc[t] = "ready" /\ lock = NoThread
  /\ lock' = t
  /\ Goto(t, p)
  /\ ret' = NoRet /\ UNCHANGED <<ring, ev, full>>

PopRead(t) ==
  /\ pc[t] = "pop"
  /\ IF count > 0
     THEN ev' = [ev EXCEPT ![t] = queue[head]] /\ Goto(t, "take") /\ ret' = NoRet
     ELSE ev' = ev /\ Goto(t, "leave") /\ ret' = Ret("pop", 0, << >>)
  /\ UNCHANGED <<ring, lock, full>>

(* Mutant: pop forgets to count down. *)
PopTakeKeepsCount(t) ==
  /\ pc[t] = "take"
  /\ head' = Succ(head)
  /\ count' = count
  /\ Goto(t, "leave")
  /\ ret' = Ret("pop", 1, <<ev[t]>>)
  /\ UNCHANGED <<queue, tail, lock, ev, full>>

PopTake(t) ==
  /\ pc[t] = "take"
  /\ head' = Succ(head)
  /\ count' = count - 1
  /\ Goto(t, "leave")
  /\ ret' = Ret("pop", 1, <<ev[t]>>)
  /\ UNCHANGED <<queue, tail, lock, ev, full>>

Peek(t) ==
  /\ pc[t] = "peek"
  /\ ret' = IF count > 0 THEN Ret("peek", 1, <<queue[head]>>) ELSE Ret("peek", 0, << >>)
  /\ Goto(t, "leave")
  /\ UNCHANGED <<ring, lock, ev, full>>

(* get_all, and the listing of index 0x1C, which repeats it.               *)
GetAll(t, m) ==
  /\ pc[t] = "copy"
  /\ LET to_copy == IF count < m THEN count ELSE m
     IN  ret' = Ret("all", to_copy, Oldest(to_copy))
  /\ Goto(t, "leave")
  /\ UNCHANGED <<ring, lock, ev, full>>

(* One read of count, without the lock.                                    *)
Pending(t) ==
  /\ pc[t] = "ready"
  /\ ret' = Ret("pending", IF count > 0 THEN 1 ELSE 0, << >>)
  /\ UNCHANGED <<ring, lock, pc, ev, full>>

(* get_highest_severity looks at count before it takes the lock.           *)
SeverityCheck(t) ==
  /\ pc[t] = "ready"
  /\ IF count = 0
     THEN pc' = pc /\ ret' = Ret("severity", 0, << >>)
     ELSE Goto(t, "enter_scan") /\ ret' = NoRet
  /\ UNCHANGED <<ring, lock, ev, full>>

SeverityEnter(t) ==
  /\ pc[t] = "enter_scan" /\ lock = NoThread
  /\ lock' = t
  /\ Goto(t, "scan")
  /\ ret' = NoRet /\ UNCHANGED <<ring, ev, full>>

SeverityScan(t) ==
  /\ pc[t] = "scan"
  /\ ret' = Ret("severity",
                Max({0} \cup {Severity[Oldest(count)[i]] : i \in 1..count}), << >>)
  /\ Goto(t, "leave")
  /\ UNCHANGED <<ring, lock, ev, full>>

(* iolink_critical_exit; the call's locals die with it.                    *)
Leave(t) ==
  /\ pc[t] = "leave"
  /\ lock' = NoThread
  /\ ev' = [ev EXCEPT ![t] = ZeroEvent]
  /\ Goto(t, "ready")
  /\ ret' = NoRet /\ UNCHANGED <<ring, full>>

Step(t) ==
  \/ \E e \in Event : TriggerEnter(t, e)
  \/ TriggerRoom(t) \/ TriggerStore(t) \/ TriggerCount(t)
  \/ \E p \in {"pop", "peek", "copy"} : ReadEnter(t, p)
  \/ PopRead(t) \/ PopTake(t) \/ Peek(t)
  \/ \E m \in MaxCounts : GetAll(t, m)
  \/ Pending(t)
  \/ SeverityCheck(t) \/ SeverityEnter(t) \/ SeverityScan(t)
  \/ Leave(t)

Next == \E t \in Threads : Step(t)

Spec == Init /\ [][Next]_vars

-----------------------------------------------------------------------------
(* Properties *)

TypeOK ==
  /\ queue \in [0..(Size - 1) -> Slot]
  /\ head \in 0..(Size - 1) /\ tail \in 0..(Size - 1)
  /\ count \in 0..Size
  /\ lock \in Threads \cup {NoThread}
  /\ pc \in [Threads -> PCs]
  /\ ev \in [Threads -> Slot]
  /\ full \in BOOLEAN

Unlocked == {"ready", "enter_scan"}

(* Only the thread that holds the lock is between critical_enter and       *)
(* critical_exit of some call.                                             *)
LockProtects == \A t \in Threads : pc[t] \notin Unlocked <=> lock = t

At(p) == lock # NoThread /\ pc[lock] = p

(* The ring is consistent (events.c keeps head, tail and count             *)
(* redundantly): tail is count places after head, one more while trigger   *)
(* has stored its event and not yet counted it; trigger never stores into  *)
(* a full ring, and pop never takes from an empty one or another event     *)
(* than the one it copied.                                                 *)
RingConsistent ==
  /\ LET n == IF At("count") THEN count + 1 ELSE count
     IN  n <= Size /\ (head + n = tail \/ head + n = tail + Size)
  /\ At("store") \/ At("count") => count < Size
  /\ At("store") \/ At("count") => (full => count = Size - 1)
  /\ At("take") => count > 0 /\ ev[lock] = queue[head]
  /\ full => At("store") \/ At("count")

(* The queue the callers see.  A trigger that found room takes effect when *)
(* it counts its event; one that dropped the oldest event takes effect     *)
(* with the drop, since from then on count is as high as it will be when   *)
(* it returns.                                                             *)
Visible ==
  IF full THEN Append(Oldest(Size - 1), ev[lock]) ELSE Oldest(count)

Fifo == INSTANCE EventFifo WITH fifo <- Visible, ret <- ret, Capacity <- Size

(* Every call of events.c, also the two that read count without the lock,  *)
(* behaves as if it took effect at one instant on a drop-oldest FIFO.      *)
FifoSpec == Fifo!Spec
=============================================================================
