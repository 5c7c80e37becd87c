------------------------------- MODULE Device -------------------------------
(***************************************************************************)
(* The data link layer with the ISDU engine and the event queue that it    *)
(* drives.  A step of module Dll asks its neighbours for calls; they are   *)
(* made one after the other, before the next step, in the order of dll.c:  *)
(* todo is what the current step has still to do.                          *)
(***************************************************************************)
EXTENDS Dll

CONSTANTS
  Bytes, BufferSize, Info, Strings, DefaultInfo, AppTag, Stats, QueueSize,
  AppCodes         \* the codes of the application's events

(* The codes of the application's events fill two bytes, and their first   *)
(* byte is neither that of "no event" nor that of an error.  No device     *)
(* info has the index of the system command.                               *)
ASSUME DeviceConstants ==
  /\ QueueSize \in Nat \ {0}
  /\ \A c \in AppCodes : c \in Nat /\ c < 65536 /\ c \div 256 \notin {0, 128}
  /\ 2 \notin DOMAIN Info

VARIABLES
  isdu_state, next_state, segment_seq, header, buffer,
  response_buf, response_len, response_idx, is_response_control_sent,
  reset_pending, app_reset_pending, tags, access_locks, events, turn, tx,
  todo,            \* the calls of the current step
  od_out           \* the on-request bytes of the response

(* The code the fallback triggers is one of protocol.h, 0x1801; the others *)
(* are those of events.h.                                                  *)
FramingCode == 6145

CodeOf == [COMM_FRAMING |-> FramingCode, COMM_TIMING |-> 6148,
           VOLTAGE_FAULT |-> 6149, SHORT_CIRCUIT |-> 6150]

I == INSTANCE Isdu WITH state <- isdu_state,
                        EventCodes <- AppCodes \cup {CodeOf[n] : n \in EventCodes}

isdu_vars   == <<isdu_state, next_state, segment_seq, header, buffer,
                 response_buf, response_len, response_idx, is_response_control_sent,
                 reset_pending, app_reset_pending, tags, access_locks, events, turn, tx>>
device_vars == <<vars, isdu_vars, todo, od_out>>

DeviceInit == Init /\ I!Init /\ todo = << >> /\ od_out = << >>

-----------------------------------------------------------------------------
(* The calls a step makes.  arg: the byte, or the name of the event.       *)

Call(name, arg) == [call |-> name, arg |-> arg]

Triggers(evs) == [i \in 1..Len(evs) |-> Call("trigger", evs[i])]

(* Mutant: both on-request bytes are collected before an answer is asked for. *)
OdCallsBatched(bytes) ==
  [i \in 1..(2 * Len(bytes)) |->
     IF i <= Len(bytes) THEN Call("collect", bytes[i]) ELSE Call("get", 0)]

(* For every on-request byte collect_byte, then get_response_byte.         *)
OdCalls(bytes) ==
  [i \in 1..(2 * Len(bytes)) |->
     IF i % 2 = 1 THEN Call("collect", bytes[(i + 1) \div 2]) ELSE Call("get", 0)]

Send == <<Call("send", 0)>>

(* Mutant: the engine runs only while the receiver is between two frames   *)
(* in SIO mode. *)
ProcessCallInSio == IF isdu_state = "SERVICE_EXECUTE" /\ phy_mode = "SIO"
                    THEN <<Call("process", 0)>> ELSE << >>

(* iolink_isdu_process at the head of iolink_dll_process; it does nothing  *)
(* unless a request is to be executed.                                     *)
ProcessCall == IF isdu_state = "SERVICE_EXECUTE" THEN <<Call("process", 0)>> ELSE << >>

(* How the DLL classifies a control byte.                                  *)
ClassOf(b) == IF b = 15 THEN "transition"
              ELSE IF (b \div 32) % 4 \in {1, 3} THEN "forbidden" ELSE "other"

Between == todo = << >> /\ UNCHANGED isdu_vars

BeginCall(v, s) ==
  /\ Between /\ Begin(v, s)
  /\ todo' = ProcessCall \o Triggers(out'.events)
  /\ UNCHANGED od_out

(* The steps that only trigger events.                                     *)
QuietStep(step) ==
  /\ Between /\ step
  /\ todo' = Triggers(out'.events)
  /\ UNCHANGED od_out

Type0Frame(short_cycle, b) ==
  /\ Between /\ FrameType0(short_cycle)
  /\ mc = ClassOf(b)
  /\ todo' = Triggers(TimingEvent(short_cycle)) \o OdCalls(<<b>>) \o Send
  /\ od_out' = << >>

(* The response is timed after it was sent.                                *)
CyclicFrame(short_cycle, late, bytes) ==
  /\ Between /\ FrameCyclic(short_cycle, late)
  /\ todo' = Triggers(TimingEvent(short_cycle)) \o OdCalls(bytes) \o Send \o
               Triggers(TimingEvent(late))
  /\ od_out' = << >>

-----------------------------------------------------------------------------
(* Making the first of the calls *)

Next1(name) == /\ todo # << >> /\ todo[1].call = name
               /\ todo' = Tail(todo)
               /\ UNCHANGED vars

(* Only a short circuit is an error, the others are warnings.              *)
EventNamed(n) == [code |-> CodeOf[n],
                  type |-> IF n = "SHORT_CIRCUIT" THEN "ERROR" ELSE "WARNING"]

CallTrigger == /\ Next1("trigger") /\ I!TriggerEvent(EventNamed(todo[1].arg))
               /\ UNCHANGED od_out

CallCollect == Next1("collect") /\ I!collect_byte(todo[1].arg) /\ UNCHANGED od_out

(* An engine that has nothing to say leaves a zero.                        *)
CallGet == /\ Next1("get") /\ I!get_response_byte
           /\ od_out' = Append(od_out, IF tx' = << >> THEN 0 ELSE tx'[1])

CallProcess == Next1("process") /\ I!process /\ UNCHANGED od_out

CallSend == Next1("send") /\ UNCHANGED <<isdu_vars, od_out>>

(* iolink_event_trigger by the application, between two calls of           *)
(* iolink_process.                                                         *)
AppEvent(e) ==
  /\ pc = "idle" /\ todo = << >>
  /\ I!TriggerEvent(e)
  /\ UNCHANGED <<vars, todo, od_out>>

-----------------------------------------------------------------------------
(* Module Isdu is written, and proved about, for callers that alternate    *)
(* collect_byte and get_response_byte and let iolink_isdu_process run only *)
(* between two such pairs: the calls of dll.c keep to that, whatever       *)
(* frames, faults and events come in between.                              *)
CallsKeepTurn ==
  todo # << >> =>
    /\ todo[1].call \in {"collect", "process"} => turn = "collect"
    /\ todo[1].call = "get" => turn = "get"
    /\ todo[1].call = "send" => turn = "collect" /\ Len(od_out) \in {1, OdLen}
=============================================================================
