----------------------------- MODULE EventFifo -----------------------------
(***************************************************************************)
(* What the event engine promises its callers: a first-in first-out queue  *)
(* of at most Capacity events that gives up its oldest event to make room  *)
(* for a new one, with every call taking effect at one instant.  ret is    *)
(* what the call that took effect in the last step returned, NoRet if that *)
(* call returns nothing or if none took effect.                            *)
(***************************************************************************)
EXTENDS Integers, Sequences, FiniteSetsExt

CONSTANTS Event,      \* the events that can be triggered
          Capacity,   \* events the queue holds
          MaxCounts,  \* the sizes of the buffers given to get_all
          Severity    \* the severity of each event

VARIABLES fifo, ret

Elements(s) == {s[i] : i \in 1..Len(s)}

HighestSeverity(s) == Max({0} \cup {Severity[e] : e \in Elements(s)})

Ret(op, n, evs) == [op |-> op, n |-> n, evs |-> evs]
NoRet == Ret("none", 0, << >>)

Init == fifo = << >> /\ ret = NoRet

Trigger(e) ==
  /\ fifo' = Append(IF Len(fifo) < Capacity THEN fifo ELSE Tail(fifo), e)
  /\ ret' = NoRet

Pop ==
  IF fifo = << >>
  THEN fifo' = fifo /\ ret' = Ret("pop", 0, << >>)
  ELSE fifo' = Tail(fifo) /\ ret' = Ret("pop", 1, <<Head(fifo)>>)

Peek ==
  /\ fifo' = fifo
  /\ ret' = IF fifo = << >> THEN Ret("peek", 0, << >>) ELSE Ret("peek", 1, <<Head(fifo)>>)

Pending ==
  /\ fifo' = fifo
  /\ ret' = Ret("pending", IF fifo = << >> THEN 0 ELSE 1, << >>)

GetHighestSeverity ==
  /\ fifo' = fifo
  /\ ret' = Ret("severity", HighestSeverity(fifo), << >>)

GetAll(m) ==
  LET n == Min({m, Len(fifo)})
  IN  fifo' = fifo /\ ret' = Ret("all", n, SubSeq(fifo, 1, n))

(* A call that is under way returns nothing yet and shows no effect.       *)
Quiet == fifo' = fifo /\ ret' = NoRet

Next ==
  \/ \E e \in Event : Trigger(e)
  \/ Pop
  \/ Peek
  \/ Pending
  \/ GetHighestSeverity
  \/ \E m \in MaxCounts : GetAll(m)
  \/ Quiet

Spec == Init /\ [][Next]_<<fifo, ret>>
=============================================================================
