---------------------------- MODULE ProcessData ----------------------------
(***************************************************************************)
(* Process data between the application and the cyclic handler: tasks call *)
(* iolink_pd_input_update and iolink_pd_output_read (iolink_core.c) under  *)
(* the platform's critical section; dll_handle_operate_type1_2 (dll.c)     *)
(* copies the same buffers without it.                                     *)
(*                                                                         *)
(* The platform is either "loop", one thread that makes every call and the *)
(* hooks of platform.c, which do nothing, or "irq", a task per caller and  *)
(* hooks that keep everybody else from running, as platform.h asks.  A     *)
(* byte is known by the number of the update (of the frame, for pd_out)    *)
(* that wrote it.  The handler's loads and stores race with the tasks, so  *)
(* it makes them in any order.                                             *)
(*                                                                         *)
(* iolink_init takes any configured lengths over.  CopiesFit says when all *)
(* copies stay within the buffers; after one that does not, the module     *)
(* says nothing of the program.                                            *)
(***************************************************************************)
EXTENDS Integers, Sequences, FiniteSets

CONSTANTS
  Producers,     \* the tasks that call iolink_pd_input_update
  Readers,       \* the tasks that call iolink_pd_output_read
  PdInMax,       \* IOLINK_PD_IN_MAX_SIZE
  PdOutMax,      \* IOLINK_PD_OUT_MAX_SIZE
  PdInLen,       \* pd_in_len of the configuration, any uint8_t
  PdOutLen,      \* pd_out_len of the configuration, any uint8_t
  UpdateLens,    \* the lengths the producers pass
  ReadLens,      \* the lengths the readers pass
  WireLens,      \* the lengths passed to iolink_dll_set_pd_length
  MaxUpdates,    \* bound: updates
  MaxFrames      \* bound: cyclic frames

ASSUME PdConstants ==
  /\ PdInMax \in Nat /\ PdOutMax \in Nat
  /\ PdInLen \in 0..255 /\ PdOutLen \in 0..255
  /\ UpdateLens \cup ReadLens \cup WireLens \subseteq 0..255
  /\ MaxUpdates \in Nat /\ MaxFrames \in Nat

VARIABLES
  platform,                              \* "loop" or "irq"
  lock,                                  \* who is in the critical section
  pd_in, pd_in_len, pd_in_len_current, pd_valid, pd_in_toggle,
  pd_out, pd_out_len_current,
  task,                                  \* the call each task is in
  dll,                                   \* the cyclic handler
  updates, frames                        \* history: all there ever were

input  == <<pd_in, pd_in_len, pd_valid, pd_in_toggle>>
output == pd_out
lens   == <<pd_in_len_current, pd_out_len_current>>
vars   == <<platform, lock, input, output, lens, task, dll, updates, frames>>

Tasks    == Producers \cup Readers
Nobody   == "nobody"
InBytes  == 1..PdInMax
OutBytes == 1..PdOutMax

(* A thread that makes both calls counts as two tasks.                     *)
ASSUME PdTasks == Producers \cap Readers = {} /\ {Nobody, "dll"} \cap Tasks = {}

(* at: the step of a call; n: the number of the producer's update; len,    *)
(* valid: its arguments; todo: the bytes it has still to copy; got: what a *)
(* reader has copied; last, begun: the frames completed and begun when the *)
(* reader called.                                                          *)
Resting == [at |-> "idle", n |-> 0, len |-> 0, valid |-> FALSE, todo |-> {},
            got |-> << >>, last |-> 0, begun |-> 0]

(* done: the updates completed when the handler began.                     *)
DllResting == [at |-> "idle", todo |-> {}, got |-> << >>, toggle |-> FALSE,
               valid |-> FALSE, done |-> 0]

Init ==
  /\ platform \in {"loop", "irq"}
  /\ lock = Nobody
  /\ pd_in = [k \in InBytes |-> 0] /\ pd_in_len = PdInLen
  /\ pd_in_len_current = PdInLen /\ pd_out_len_current = PdOutLen
  /\ pd_valid = TRUE /\ pd_in_toggle = FALSE
  /\ pd_out = [k \in OutBytes |-> 0]
  /\ task = [t \in Tasks |-> Resting]
  /\ dll = DllResting
  /\ updates = << >> /\ frames = << >>

(* Who may run: on the one thread of "loop" a call runs to its end before  *)
(* the next one begins; with the hooks of "irq" nobody runs while another  *)
(* is in the critical section.                                             *)
MayRun(who) ==
  /\ lock \in {Nobody, who}
  /\ platform = "loop" =>
       /\ \A t \in Tasks \ {who} : task[t].at = "idle"
       /\ who # "dll" => dll.at = "idle"

iolink_critical_enter(t) == lock' = IF platform = "irq" THEN t ELSE lock
iolink_critical_exit     == lock' = Nobody

At(t, step) == MayRun(t) /\ task[t].at = step

-----------------------------------------------------------------------------
(* iolink_pd_input_update *)

UpdateLater == UNCHANGED <<platform, lens, output, dll, frames>>

(* Mutant: the critical section is not entered. *)
UpdateBeginUnlocked(t, len, valid) ==
  /\ At(t, "idle")
  /\ Len(updates) < MaxUpdates
  /\ len <= PdInMax
  /\ updates' = Append(updates, [len |-> len, valid |-> valid])
  /\ task' = [task EXCEPT ![t] = [Resting EXCEPT !.at = "copy", !.n = Len(updates) + 1,
                                    !.len = len, !.valid = valid, !.todo = 1..len]]
  /\ UNCHANGED <<lock, input>> /\ UpdateLater

(* A length above the buffer is refused before the critical section.       *)
UpdateBegin(t, len, valid) ==
  /\ At(t, "idle")
  /\ Len(updates) < MaxUpdates
  /\ len <= PdInMax
  /\ iolink_critical_enter(t)
  /\ updates' = Append(updates, [len |-> len, valid |-> valid])
  /\ task' = [task EXCEPT ![t] = [Resting EXCEPT !.at = "copy", !.n = Len(updates) + 1,
                                    !.len = len, !.valid = valid, !.todo = 1..len]]
  /\ UNCHANGED input /\ UpdateLater

(* Mutant: only the bytes that are on the wire now are copied. *)
UpdateCopyOnWire(t) ==
  /\ At(t, "copy")
  /\ \E k \in task[t].todo :
       /\ pd_in' = IF k <= pd_in_len_current THEN [pd_in EXCEPT ![k] = task[t].n] ELSE pd_in
       /\ task' = [task EXCEPT ![t].todo = @ \ {k}]
  /\ UNCHANGED <<lock, pd_in_len, pd_valid, pd_in_toggle, updates>> /\ UpdateLater

UpdateCopy(t) ==
  /\ At(t, "copy")
  /\ \E k \in task[t].todo :
       /\ pd_in' = [pd_in EXCEPT ![k] = task[t].n]
       /\ task' = [task EXCEPT ![t].todo = @ \ {k}]
  /\ UNCHANGED <<lock, pd_in_len, pd_valid, pd_in_toggle, updates>> /\ UpdateLater

UpdateEnd(t) ==
  /\ At(t, "copy") /\ task[t].todo = {}
  /\ pd_in_len' = task[t].len
  /\ pd_valid' = task[t].valid
  /\ pd_in_toggle' = ~pd_in_toggle
  /\ task' = [task EXCEPT ![t] = Resting]
  /\ iolink_critical_exit
  /\ UNCHANGED <<pd_in, updates>> /\ UpdateLater

-----------------------------------------------------------------------------
(* iolink_pd_output_read *)

ReadLater == UNCHANGED <<platform, input, output, lens, dll, updates, frames>>

Lesser(a, b) == IF a < b THEN a ELSE b

FramesDone == IF dll.at = "out" THEN Len(frames) - 1 ELSE Len(frames)

(* Mutant: the critical section is not entered. *)
ReadBeginUnlocked(t, len) ==
  /\ At(t, "idle")
  /\ task' = [task EXCEPT ![t] =
                [Resting EXCEPT !.at = "copy", !.len = Lesser(len, PdOutLen),
                   !.todo = 1..Lesser(len, PdOutLen),
                   !.last = FramesDone, !.begun = Len(frames)]]
  /\ UNCHANGED lock /\ ReadLater

(* The number of bytes comes from pd_out_len, which only iolink_init sets, *)
(* whatever iolink_dll_set_pd_length has said since.                       *)
ReadBegin(t, len) ==
  /\ At(t, "idle")
  /\ iolink_critical_enter(t)
  /\ task' = [task EXCEPT ![t] =
                [Resting EXCEPT !.at = "copy", !.len = Lesser(len, PdOutLen),
                   !.todo = 1..Lesser(len, PdOutLen),
                   !.last = FramesDone, !.begun = Len(frames)]]
  /\ ReadLater

ReadCopy(t) ==
  /\ At(t, "copy")
  /\ \E k \in task[t].todo :
       task' = [task EXCEPT ![t].todo = @ \ {k},
                            ![t].got = [j \in DOMAIN @ \cup {k} |->
                                          IF j = k THEN pd_out[k] ELSE @[j]]]
  /\ UNCHANGED lock /\ ReadLater

(* The call returns; what it returned stays visible in got.                *)
ReadEnd(t) ==
  /\ At(t, "copy") /\ task[t].todo = {}
  /\ task' = [task EXCEPT ![t].at = "idle"]
  /\ iolink_critical_exit
  /\ ReadLater

-----------------------------------------------------------------------------
(* dll_handle_operate_type1_2 *)

HandlerLater == UNCHANGED <<platform, lock, input, lens, task, updates>>

UpdatesDone == Len(updates) - Cardinality({t \in Producers : task[t].at = "copy"})

(* A cyclic frame: its output bytes are stored first.                      *)
HandlerBegin ==
  /\ MayRun("dll") /\ dll.at = "idle"
  /\ Len(frames) < MaxFrames
  /\ frames' = Append(frames, pd_out_len_current)
  /\ dll' = [DllResting EXCEPT !.at = "out", !.todo = 1..pd_out_len_current,
                               !.done = UpdatesDone]
  /\ UNCHANGED output /\ HandlerLater

HandlerStore ==
  /\ MayRun("dll") /\ dll.at = "out"
  /\ \E k \in dll.todo :
       /\ pd_out' = [pd_out EXCEPT ![k] = Len(frames)]
       /\ dll' = [dll EXCEPT !.todo = @ \ {k}]
  /\ UNCHANGED frames /\ HandlerLater

(* The calls of the ISDU engine and of iolink_events_pending end the       *)
(* stores; "toggle", "valid" and the input bytes are still to be loaded.   *)
HandlerTurn ==
  /\ MayRun("dll") /\ dll.at = "out" /\ dll.todo = {}
  /\ dll' = [dll EXCEPT !.at = "in", !.todo = {-1, 0} \cup 1..pd_in_len_current]
  /\ UNCHANGED <<output, frames>> /\ HandlerLater

HandlerLoad ==
  /\ MayRun("dll") /\ dll.at = "in"
  /\ \E k \in dll.todo :
       dll' = [dll EXCEPT !.todo = @ \ {k},
                 !.toggle = IF k = -1 THEN pd_in_toggle ELSE @,
                 !.valid = IF k = 0 THEN pd_valid ELSE @,
                 !.got = IF k > 0 THEN [j \in DOMAIN @ \cup {k} |->
                                          IF j = k THEN pd_in[k] ELSE @[j]]
                                  ELSE @]
  /\ UNCHANGED <<output, frames>> /\ HandlerLater

(* The response goes out: dll holds what it carries until the next frame.  *)
HandlerSend ==
  /\ MayRun("dll") /\ dll.at = "in" /\ dll.todo = {}
  /\ dll' = [dll EXCEPT !.at = "idle"]
  /\ UNCHANGED <<output, frames>> /\ HandlerLater

(* Mutant: the lengths are not checked. *)
set_pd_length_any(len_in, len_out) ==
  /\ MayRun("dll") /\ dll.at = "idle"
  /\ pd_in_len_current' = len_in /\ pd_out_len_current' = len_out
  /\ UNCHANGED <<platform, lock, input, output, task, dll, updates, frames>>

(* iolink_dll_set_pd_length, by the owner of the context between two calls *)
(* of iolink_dll_process.                                                  *)
set_pd_length(len_in, len_out) ==
  /\ MayRun("dll") /\ dll.at = "idle"
  /\ len_in <= PdInMax /\ len_out <= PdOutMax
  /\ pd_in_len_current' = len_in /\ pd_out_len_current' = len_out
  /\ UNCHANGED <<platform, lock, input, output, task, dll, updates, frames>>

-----------------------------------------------------------------------------
Next ==
  \/ \E t \in Producers, len \in UpdateLens, valid \in BOOLEAN : UpdateBegin(t, len, valid)
  \/ \E t \in Producers : UpdateCopy(t) \/ UpdateEnd(t)
  \/ \E t \in Readers, len \in ReadLens : ReadBegin(t, len)
  \/ \E t \in Readers : ReadCopy(t) \/ ReadEnd(t)
  \/ HandlerBegin \/ HandlerStore \/ HandlerTurn \/ HandlerLoad \/ HandlerSend
  \/ \E len_in, len_out \in WireLens : set_pd_length(len_in, len_out)

Spec == Init /\ [][Next]_vars

-----------------------------------------------------------------------------
(* Properties *)

TypeOK ==
  /\ platform \in {"loop", "irq"} /\ lock \in Tasks \cup {Nobody}
  /\ pd_in \in [InBytes -> 0..MaxUpdates] /\ pd_out \in [OutBytes -> 0..MaxFrames]
  /\ pd_in_len \in 0..PdInMax \cup {PdInLen} /\ pd_valid \in BOOLEAN /\ pd_in_toggle \in BOOLEAN
  /\ pd_in_len_current \in 0..PdInMax \cup {PdInLen}
  /\ pd_out_len_current \in 0..PdOutMax \cup {PdOutLen}
  /\ \A t \in Tasks : task[t].at \in {"idle", "copy"}
  /\ dll.at \in {"idle", "out", "in"}

(* For configured lengths that fit: what is still to be copied lies within *)
(* the buffers, although the handler takes its lengths from                *)
(* iolink_dll_set_pd_length, a reader from the configuration and a         *)
(* producer from its argument.                                             *)
CopiesFit ==
  /\ dll.at = "out" => dll.todo \subseteq OutBytes
  /\ dll.at = "in" => dll.todo \subseteq {-1, 0} \cup InBytes
  /\ \A t \in Readers : task[t].at = "copy" => task[t].todo \subseteq OutBytes
  /\ \A t \in Producers : task[t].at = "copy" => task[t].todo \subseteq InBytes

Latest(S) == IF S = {} THEN 0 ELSE CHOOSE n \in S : \A m \in S : m <= n

(* The last of the first n updates, or frames, that reaches byte k.        *)
UpdateOf(k, n) == Latest({m \in 1..n : updates[m].len >= k})
FrameOf(k, n)  == Latest({m \in 1..n : frames[m] >= k})

(* What iolink_pd_input_update's critical section is for: however many     *)
(* tasks update the input, outside of it the buffer is what the updates,   *)
(* one after the other, leave: every byte of the last one that reached it, *)
(* the length, the valid bit and the toggle of the last one.               *)
RestingInputIsSerial ==
  (\A t \in Producers : task[t].at = "idle") =>
    LET n == Len(updates)
    IN  /\ \A k \in InBytes : pd_in[k] = UpdateOf(k, n)
        /\ n > 0 => pd_in_len = updates[n].len /\ pd_valid = updates[n].valid
        /\ pd_in_toggle = (n % 2 = 1)

(* Whatever the order of the handler's loads, and however many updates     *)
(* preempt it, every byte of a response is of the last update that reached *)
(* it before the frame came, or of a later one; the flags are those of     *)
(* such an update; and on one thread, all of them are of the last.         *)
ResponseIsRecent ==
  dll.at = "idle" /\ frames # << >> =>
    LET n == dll.done
        now == IF platform = "loop" THEN n ELSE Len(updates)
    IN  /\ \A k \in DOMAIN dll.got :
             dll.got[k] = UpdateOf(k, n) \/ dll.got[k] \in (n + 1)..now
        /\ n > 0 => \E m \in n..now : dll.valid = updates[m].valid
        /\ \E m \in n..now : dll.toggle = (m % 2 = 1)

(* A reader may find a frame half stored, but the critical section stops   *)
(* the handler while it reads: each byte of one read is of the last frame  *)
(* that reached it, or of the one frame that was being stored.             *)
ReadMixesNoThirdFrame ==
  \A t \in Readers : \A k \in DOMAIN task[t].got :
    \/ task[t].got[k] = FrameOf(k, task[t].last)
    \/ task[t].got[k] = FrameOf(k, task[t].begun)
=============================================================================
