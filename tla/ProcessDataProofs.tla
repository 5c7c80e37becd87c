-------------------------- MODULE ProcessDataProofs -------------------------
(***************************************************************************)
(* The process data for any number of tasks, any buffer sizes, any lengths *)
(* of updates, reads and frames and any number of them, where the          *)
(* configured lengths fit the buffers (LengthsFit).                        *)
(*                                                                         *)
(* None of the properties is inductive: each speaks of the moments at      *)
(* which nobody copies.  The invariant says what a half done copy has left *)
(* in a buffer (Copied, OutputInv), that one task at a time makes one      *)
(* (Exclusive), and what the handler may meanwhile have loaded             *)
(* (HandlerInv).                                                           *)
(***************************************************************************)
EXTENDS ProcessData, FiniteSetTheorems, SequenceTheorems, TLAPS

-----------------------------------------------------------------------------
(* The invariant *)

(* What iolink_init leaves to the configuration: no code checks it.        *)
LengthsFit == PdInLen <= PdInMax /\ PdOutLen <= PdOutMax

(* UpdateOf and FrameOf as functions of the history they look at.          *)
UpdateIn(h, k, n) == Latest({m \in 1..n : h[m].len >= k})
FrameIn(h, k, n)  == Latest({m \in 1..n : h[m] >= k})

Copies    == UNION {[D -> Nat] : D \in SUBSET Int}
UpdateRec == [len : Nat, valid : BOOLEAN]
TaskRec   == [at : {"idle", "copy"}, n : Nat, len : Nat, valid : BOOLEAN, todo : SUBSET Int,
              got : Copies, last : Nat, begun : Nat]
DllRec    == [at : {"idle", "out", "in"}, todo : SUBSET Int, got : Copies, toggle : BOOLEAN,
              valid : BOOLEAN, done : Nat]

Shape ==
  /\ task \in [Tasks -> TaskRec] /\ dll \in DllRec
  /\ updates \in Seq(UpdateRec) /\ Len(updates) <= MaxUpdates
  /\ frames \in Seq(0..PdOutMax) /\ Len(frames) <= MaxFrames

(* Whoever copies holds the critical section, or is the one thread there   *)
(* is.                                                                     *)
Exclusive ==
  /\ lock \in Tasks => platform = "irq" /\ task[lock].at = "copy"
  /\ \A t \in Tasks : task[t].at = "copy" =>
       IF platform = "irq" THEN lock = t
       ELSE dll.at = "idle" /\ \A u \in Tasks \ {t} : task[u].at = "idle"

(* Length, valid bit and toggle are those that the first n updates leave.  *)
FlagsOf(n) ==
  /\ n > 0 => pd_in_len = updates[n].len /\ (pd_valid <=> updates[n].valid)
  /\ pd_in_toggle <=> n % 2 = 1

(* What producer t has done so far of the last update.                     *)
Copied(t) ==
  /\ task[t].n = Len(updates) /\ Len(updates) > 0
  /\ task[t].len = updates[Len(updates)].len /\ (task[t].valid <=> updates[Len(updates)].valid)
  /\ task[t].len <= PdInMax /\ task[t].todo \subseteq 1..task[t].len
  /\ \A k \in InBytes :
       pd_in[k] = IF k <= task[t].len /\ k \notin task[t].todo THEN Len(updates)
                  ELSE UpdateIn(updates, k, Len(updates) - 1)
  /\ FlagsOf(Len(updates) - 1)

InputInv ==
  /\ (\A t \in Producers : task[t].at = "idle") =>
       /\ \A k \in InBytes : pd_in[k] = UpdateIn(updates, k, Len(updates))
       /\ FlagsOf(Len(updates))
  /\ \A t \in Producers : task[t].at = "copy" => Copied(t)

OutputInv ==
  /\ dll.at = "out" =>
       /\ Len(frames) > 0 /\ dll.todo \subseteq 1..frames[Len(frames)]
       /\ \A k \in OutBytes :
            pd_out[k] = IF k <= frames[Len(frames)] /\ k \notin dll.todo THEN Len(frames)
                        ELSE FrameIn(frames, k, Len(frames) - 1)
  /\ dll.at # "out" => \A k \in OutBytes : pd_out[k] = FrameIn(frames, k, Len(frames))

Now == IF platform = "loop" THEN dll.done ELSE Len(updates)

(* A byte that is as old as the frame at most; and flags that are.         *)
Recent(k, v) == v = UpdateIn(updates, k, dll.done) \/ v \in (dll.done + 1)..Now

ValidIsRecent  == dll.done > 0 => \E m \in dll.done..Now : (dll.valid <=> updates[m].valid)
ToggleIsRecent == \E m \in dll.done..Now : (dll.toggle <=> m % 2 = 1)

HandlerInv ==
  /\ dll.done <= Len(updates)
  /\ dll.at = "out" => dll.got = << >>
  /\ dll.at = "in" => dll.todo \subseteq {-1, 0} \cup InBytes
  /\ dll.at # "idle" =>
       /\ frames # << >>
       /\ platform = "loop" => dll.done = Len(updates)
       /\ \A t \in Producers : task[t].at = "copy" => dll.done < Len(updates)
       /\ \A k \in InBytes : Recent(k, pd_in[k])
  /\ \A k \in DOMAIN dll.got : k \in InBytes /\ Recent(k, dll.got[k])
  /\ (dll.at = "in" /\ 0 \notin dll.todo) \/ (dll.at = "idle" /\ frames # << >>) => ValidIsRecent
  /\ (dll.at = "in" /\ -1 \notin dll.todo) \/ (dll.at = "idle" /\ frames # << >>) => ToggleIsRecent

(* What reader t found so far; nobody stores while it copies.              *)
ReaderInv ==
  \A t \in Readers :
    /\ task[t].last <= Len(frames) /\ task[t].begun <= Len(frames)
    /\ task[t].at = "copy" =>
         /\ task[t].todo \subseteq OutBytes
         /\ task[t].begun = Len(frames) /\ task[t].last = FramesDone
    /\ \A k \in DOMAIN task[t].got :
         \/ task[t].got[k] = FrameIn(frames, k, task[t].last)
         \/ task[t].got[k] = FrameIn(frames, k, task[t].begun)

PdInv ==
  /\ LengthsFit /\ TypeOK /\ Shape /\ Exclusive
  /\ InputInv /\ OutputInv /\ HandlerInv /\ ReaderInv

-----------------------------------------------------------------------------
(* Lemmas on the operators *)

LEMMA EmptyCopy == << >> \in Copies /\ DOMAIN << >> = {}
<1>1. << >> \in [{} -> Nat]
  OBVIOUS
<1> QED BY <1>1 DEF Copies

(* One more byte in a copy.                                                *)
LEMMA CopyGrows ==
  ASSUME NEW g \in Copies, NEW k \in Int, NEW v \in Nat, NEW h,
         h = [j \in DOMAIN g \cup {k} |-> IF j = k THEN v ELSE g[j]]
  PROVE  /\ h \in Copies /\ DOMAIN h = DOMAIN g \cup {k}
         /\ \A j \in DOMAIN h : h[j] = IF j = k THEN v ELSE g[j]
<1>1. PICK D \in SUBSET Int : g \in [D -> Nat]
  BY DEF Copies
<1>2. h \in [D \cup {k} -> Nat] /\ D \cup {k} \in SUBSET Int
  BY <1>1
<1> QED BY <1>1, <1>2 DEF Copies

(* The greatest element, when it is known.                                 *)
LEMMA LatestIs ==
  ASSUME NEW S \in SUBSET Int, NEW n \in S, \A m \in S : m <= n
  PROVE  Latest(S) = n
<1>1. \A x \in S : (\A m \in S : m <= x) => x = n
  OBVIOUS
<1> QED BY <1>1 DEF Latest

(* The history as far as n does not depend on what is appended to it.      *)
LEMMA UpdateInKept ==
  ASSUME NEW h \in Seq(UpdateRec), NEW u \in UpdateRec, NEW n \in 0..Len(h), NEW k
  PROVE  UpdateIn(Append(h, u), k, n) = UpdateIn(h, k, n)
<1>1. \A m \in 1..n : Append(h, u)[m] = h[m]
  OBVIOUS
<1>2. {m \in 1..n : Append(h, u)[m].len >= k} = {m \in 1..n : h[m].len >= k}
  BY <1>1
<1> QED BY <1>2 DEF UpdateIn

LEMMA FrameInKept ==
  ASSUME NEW h \in Seq(0..PdOutMax), NEW f \in 0..PdOutMax, NEW n \in 0..Len(h), NEW k
  PROVE  FrameIn(Append(h, f), k, n) = FrameIn(h, k, n)
<1>1. \A m \in 1..n : Append(h, f)[m] = h[m]
  OBVIOUS
<1>2. {m \in 1..n : Append(h, f)[m] >= k} = {m \in 1..n : h[m] >= k}
  BY <1>1
<1> QED BY <1>2 DEF FrameIn

(* The last update, if it reaches byte k, is the one that wrote it.        *)
LEMMA UpdateInLast ==
  ASSUME NEW h \in Seq(UpdateRec), NEW n \in 1..Len(h), NEW k \in Int
  PROVE  UpdateIn(h, k, n) = IF k <= h[n].len THEN n ELSE UpdateIn(h, k, n - 1)
<1> DEFINE S(j) == {m \in 1..j : h[m].len >= k}
<1>1. h[n].len \in Nat
  <2>1. h[n] \in UpdateRec
    OBVIOUS
  <2> QED BY <2>1 DEF UpdateRec
<1>2. CASE k <= h[n].len
  <2>1. n \in S(n) /\ S(n) \in SUBSET Int /\ \A m \in S(n) : m <= n
    BY <1>1, <1>2
  <2> QED BY <1>2, <2>1, LatestIs DEF UpdateIn
<1>3. CASE ~(k <= h[n].len)
  <2>1. S(n) = S(n - 1)
    BY <1>1, <1>3
  <2> QED BY <1>3, <2>1 DEF UpdateIn
<1> QED BY <1>2, <1>3

LEMMA FrameInLast ==
  ASSUME NEW h \in Seq(0..PdOutMax), NEW n \in 1..Len(h), NEW k \in Int
  PROVE  FrameIn(h, k, n) = IF k <= h[n] THEN n ELSE FrameIn(h, k, n - 1)
<1> DEFINE S(j) == {m \in 1..j : h[m] >= k}
<1>1. h[n] \in Int
  BY PdConstants
<1>2. CASE k <= h[n]
  <2>1. n \in S(n) /\ S(n) \in SUBSET Int /\ \A m \in S(n) : m <= n
    BY <1>1, <1>2
  <2> QED BY <1>2, <2>1, LatestIs DEF FrameIn
<1>3. CASE ~(k <= h[n])
  <2>1. S(n) = S(n - 1)
    BY <1>1, <1>3
  <2> QED BY <1>3, <2>1 DEF FrameIn
<1> QED BY <1>2, <1>3

LEMMA NobodyReached ==
  /\ \A h, k : UpdateIn(h, k, 0) = 0
  /\ \A h, k : FrameIn(h, k, 0) = 0
BY DEF UpdateIn, FrameIn, Latest

LEMMA Parity == \A n \in Nat \ {0} : (n % 2 = 1) <=> ~((n - 1) % 2 = 1)
OBVIOUS

-----------------------------------------------------------------------------
LEMMA RestingType == Resting \in TaskRec /\ DllResting \in DllRec
BY EmptyCopy DEF Resting, TaskRec, DllResting, DllRec

LEMMA InitPd == LengthsFit /\ Init => PdInv
<1> SUFFICES ASSUME LengthsFit, Init PROVE PdInv
  OBVIOUS
<1>1. /\ task = [t \in Tasks |-> Resting] /\ dll = DllResting
      /\ updates = << >> /\ frames = << >> /\ lock = Nobody
      /\ \A t \in Tasks : task[t] = Resting
  BY DEF Init
<1>2. /\ updates \in Seq(UpdateRec) /\ Len(updates) = 0
      /\ frames \in Seq(0..PdOutMax) /\ Len(frames) = 0
      /\ Len(updates) <= MaxUpdates /\ Len(frames) <= MaxFrames
  BY <1>1, PdConstants
<1>3. Shape
  BY <1>1, <1>2, RestingType DEF Shape
<1>4. TypeOK
  <2>1. pd_in \in [InBytes -> 0..MaxUpdates] /\ pd_out \in [OutBytes -> 0..MaxFrames]
    BY PdConstants DEF Init
  <2>2. pd_valid \in BOOLEAN /\ pd_in_toggle \in BOOLEAN
    BY Zenon DEF Init
  <2> QED BY <1>1, <2>1, <2>2, PdConstants DEF Init, TypeOK, Resting, DllResting
<1>5. Exclusive
  BY <1>1, PdTasks DEF Exclusive, Resting
<1>6. InputInv
  <2>1. FlagsOf(0)
    BY DEF Init, FlagsOf
  <2>2. \A t \in Producers : task[t].at # "copy"
    BY <1>1 DEF Resting, Tasks
  <2> QED BY <2>2, <1>1, <1>2, <2>1, NobodyReached DEF Init, InputInv, Resting
<1>7. OutputInv
  BY <1>1, <1>2, NobodyReached DEF Init, OutputInv, DllResting
<1>8. HandlerInv
  BY <1>1, <1>2, EmptyCopy DEF HandlerInv, DllResting
<1>9. ReaderInv
  BY <1>1, <1>2, EmptyCopy DEF ReaderInv, Resting, Tasks
<1> QED BY <1>3, <1>4, <1>5, <1>6, <1>7, <1>8, <1>9 DEF PdInv

(* Whoever runs is alone among the tasks, and on one thread also beside    *)
(* the handler.                                                            *)
LEMMA Alone ==
  ASSUME PdInv, NEW who \in Tasks \cup {"dll"}, MayRun(who)
  PROVE  /\ \A u \in Tasks \ {who} : task[u].at = "idle"
         /\ platform = "loop" /\ who # "dll" => dll.at = "idle"
         /\ lock \in {Nobody, who}
<1>1. \A u \in Tasks : task[u].at \in {"idle", "copy"}
  BY DEF PdInv, TypeOK
<1>2. platform \in {"loop", "irq"}
  BY DEF PdInv, TypeOK
<1>3. CASE platform = "loop"
  BY <1>3 DEF MayRun
<1>4. CASE platform = "irq"
  BY <1>1, <1>4, PdTasks DEF MayRun, PdInv, Exclusive
<1> QED BY <1>2, <1>3, <1>4

-----------------------------------------------------------------------------
(* iolink_pd_input_update *)

(* A producer's step leaves the output, and what the readers found, alone. *)
LEMMA ProducerKeeps ==
  ASSUME PdInv, NEW t \in Producers, UpdateLater,
         \A u \in Tasks : u # t => task'[u] = task[u]
  PROVE  OutputInv' /\ ReaderInv'
<1>1. \A u \in Readers : task'[u] = task[u]
  BY PdTasks DEF Tasks
<1>2. UNCHANGED <<platform, pd_in_len_current, pd_out_len_current, pd_out, dll, frames>>
  BY DEF UpdateLater, lens, output
<1>3. OutputInv'
  BY <1>2 DEF PdInv, OutputInv
<1>4. ReaderInv'
  BY <1>1, <1>2 DEF PdInv, ReaderInv, FramesDone
<1> QED BY <1>3, <1>4

(* The history grows by an update; what was recent stays so.               *)
LEMMA HistoryGrows ==
  ASSUME PdInv, NEW u \in UpdateRec, updates' = Append(updates, u), UNCHANGED <<platform, dll>>
  PROVE  /\ updates' \in Seq(UpdateRec) /\ Len(updates') = Len(updates) + 1
         /\ updates'[Len(updates) + 1] = u
         /\ \A m \in 1..Len(updates) : updates'[m] = updates[m]
         /\ \A k : \A n \in 0..Len(updates) : UpdateIn(updates', k, n) = UpdateIn(updates, k, n)
         /\ \A k, v : Recent(k, v) => v = UpdateIn(updates', k, dll.done)
                                      \/ v \in (dll.done + 1)..Now'
         /\ ValidIsRecent => ValidIsRecent'
         /\ ToggleIsRecent => ToggleIsRecent'
<1>1. updates \in Seq(UpdateRec) /\ dll.done \in 0..Len(updates)
  BY DEF PdInv, Shape, DllRec, HandlerInv
<1>2. /\ updates' \in Seq(UpdateRec) /\ Len(updates') = Len(updates) + 1
      /\ updates'[Len(updates) + 1] = u
      /\ \A m \in 1..Len(updates) : updates'[m] = updates[m]
  BY <1>1, AppendProperties
<1>3. \A k : \A n \in 0..Len(updates) : UpdateIn(updates', k, n) = UpdateIn(updates, k, n)
  BY <1>1, UpdateInKept
<1>4. Now \in 0..Len(updates) /\ Now' \in Int /\ Now <= Now'
  BY <1>1, <1>2 DEF Now
<1>5. \A k, v : Recent(k, v) => v = UpdateIn(updates', k, dll.done) \/ v \in (dll.done + 1)..Now'
  BY <1>1, <1>3, <1>4 DEF Recent
<1>6. ValidIsRecent => ValidIsRecent'
  BY <1>1, <1>2, <1>4 DEF ValidIsRecent
<1>7. ASSUME ToggleIsRecent PROVE ToggleIsRecent'
  <2>1. PICK m \in dll.done..Now : (dll.toggle <=> m % 2 = 1)
    BY <1>7 DEF ToggleIsRecent
  <2>2. m \in dll'.done..Now'
    BY <1>1, <1>4
  <2> QED BY <2>1, <2>2 DEF ToggleIsRecent
<1> QED BY <1>2, <1>3, <1>5, <1>6, <1>7

LEMMA UpdateBeginStep ==
  ASSUME PdInv, NEW t \in Producers, NEW len \in UpdateLens, NEW valid \in BOOLEAN,
         UpdateBegin(t, len, valid)
  PROVE  PdInv'
<1> DEFINE r == [Resting EXCEPT !.at = "copy", !.n = Len(updates) + 1,
                                !.len = len, !.valid = valid, !.todo = 1..len]
           u == [len |-> len, valid |-> valid]
<1>1. /\ t \in Tasks /\ MayRun(t) /\ task[t].at = "idle" /\ Len(updates) < MaxUpdates
      /\ len <= PdInMax
      /\ lock' = IF platform = "irq" THEN t ELSE lock
      /\ updates' = Append(updates, u) /\ task' = [task EXCEPT ![t] = r]
      /\ UNCHANGED <<pd_in, pd_in_len, pd_valid, pd_in_toggle, platform, pd_in_len_current,
                     pd_out_len_current, pd_out, dll, frames>>
  BY DEF UpdateBegin, At, iolink_critical_enter, input, UpdateLater, lens, output, Tasks
<1>2. /\ \A v \in Tasks : task[v].at = "idle"
      /\ platform = "loop" => dll.at = "idle"
  BY <1>1, Alone, PdTasks
<1>3. len \in Nat /\ u \in UpdateRec
  BY PdConstants DEF UpdateRec
<1>4. Len(updates) \in Nat /\ updates \in Seq(UpdateRec)
  BY DEF PdInv, Shape
<1>5. /\ r \in TaskRec /\ r.at = "copy" /\ r.n = Len(updates) + 1 /\ r.len = len
      /\ (r.valid <=> valid) /\ r.todo = 1..len
  <2>1. Resting \in TaskRec /\ 1..len \in SUBSET Int
    BY RestingType
  <2>2. Len(updates) + 1 \in Nat /\ len \in Nat
    BY <1>3, <1>4
  <2>3. r = [Resting EXCEPT !.at = "copy", !.n = Len(updates) + 1,
                            !.len = len, !.valid = valid, !.todo = 1..len]
    OBVIOUS
  <2> HIDE DEF r
  <2>4. r \in TaskRec
    BY <2>1, <2>2, <2>3 DEF TaskRec
  <2>5. r.at = "copy" /\ r.n = Len(updates) + 1 /\ r.len = len /\ (r.valid <=> valid)
        /\ r.todo = 1..len
    BY <2>1, <2>2, <2>3 DEF TaskRec
  <2> QED BY <2>4, <2>5
<1> HIDE DEF r
<1>6. /\ task' \in [Tasks -> TaskRec] /\ task'[t] = r
      /\ \A v \in Tasks : v # t => task'[v] = task[v]
  BY <1>1, <1>5 DEF PdInv, Shape
<1>7. /\ updates' \in Seq(UpdateRec) /\ Len(updates') = Len(updates) + 1
      /\ updates'[Len(updates) + 1] = u
      /\ \A m \in 1..Len(updates) : updates'[m] = updates[m]
      /\ \A k : \A n \in 0..Len(updates) : UpdateIn(updates', k, n) = UpdateIn(updates, k, n)
      /\ \A k, v : Recent(k, v) => v = UpdateIn(updates', k, dll.done)
                                   \/ v \in (dll.done + 1)..Now'
      /\ ValidIsRecent => ValidIsRecent'
      /\ ToggleIsRecent => ToggleIsRecent'
  BY <1>1, <1>3, HistoryGrows
<1>8. Shape'
  BY <1>1, <1>4, <1>6, <1>7, PdConstants DEF PdInv, Shape
<1>9. TypeOK'
  BY <1>1, <1>5, <1>6 DEF PdInv, TypeOK
<1>10. Exclusive'
  BY <1>1, <1>2, <1>5, <1>6, PdTasks DEF PdInv, Exclusive, TypeOK
<1>11. InputInv'
  <2>1. \A v \in Producers : v # t => task'[v].at = "idle"
    BY <1>2, <1>6 DEF Tasks
  <2>2. /\ \A k \in InBytes : pd_in[k] = UpdateIn(updates, k, Len(updates))
        /\ FlagsOf(Len(updates))
    BY <1>2 DEF PdInv, InputInv, Tasks
  <2>3. FlagsOf(Len(updates) - 1)'
    <3>1. Len(updates') - 1 = Len(updates)
      BY <1>4, <1>7
    <3> QED BY <1>1, <1>4, <1>7, <2>2, <3>1 DEF FlagsOf
  <2>4. \A k \in InBytes : pd_in'[k] = UpdateIn(updates', k, Len(updates') - 1)
    BY <1>1, <1>4, <1>7, <2>2
  <2>5. Copied(t)'
    BY <1>1, <1>3, <1>4, <1>5, <1>6, <1>7, <2>3, <2>4 DEF Copied, InBytes
  <2> QED BY <1>5, <1>6, <2>1, <2>5 DEF InputInv
<1>12. HandlerInv'
  <2>1. dll.done \in Nat /\ dll.done <= Len(updates)
    BY DEF PdInv, Shape, DllRec, HandlerInv
  <2>2. \A k, v : Recent(k, v) => Recent(k, v)'
    BY <1>1, <1>7 DEF Recent
  <2> QED BY <1>1, <1>2, <1>4, <1>7, <2>1, <2>2 DEF PdInv, HandlerInv
<1> QED BY <1>1, <1>6, <1>8, <1>9, <1>10, <1>11, <1>12, ProducerKeeps DEF PdInv, UpdateBegin

LEMMA UpdateCopyStep ==
  ASSUME PdInv, NEW t \in Producers, UpdateCopy(t)
  PROVE  PdInv'
<1>1. /\ t \in Tasks /\ MayRun(t) /\ task[t].at = "copy"
      /\ UNCHANGED <<lock, pd_in_len, pd_valid, pd_in_toggle, updates, platform,
                     pd_in_len_current, pd_out_len_current, pd_out, dll, frames>>
  BY DEF UpdateCopy, At, UpdateLater, lens, output, Tasks
<1>2. PICK k \in task[t].todo :
        /\ pd_in' = [pd_in EXCEPT ![k] = task[t].n]
        /\ task' = [task EXCEPT ![t].todo = @ \ {k}]
  BY DEF UpdateCopy
<1>3. Copied(t) /\ task[t] \in TaskRec /\ updates \in Seq(UpdateRec)
  BY <1>1 DEF PdInv, InputInv, Shape
<1>4. /\ Len(updates) \in Nat /\ k \in InBytes /\ task[t].n = Len(updates)
      /\ Len(updates) <= MaxUpdates /\ k <= task[t].len
  <2>1. /\ task[t].n = Len(updates) /\ task[t].len <= PdInMax
        /\ task[t].todo \subseteq 1..task[t].len
    BY <1>3 DEF Copied
  <2>2. task[t].len \in Nat /\ PdInMax \in Nat
    BY <1>3, PdConstants DEF TaskRec
  <2>3. k \in 1..task[t].len
    BY <1>2, <2>1
  <2>4. k \in InBytes /\ k <= task[t].len
    BY <2>1, <2>2, <2>3 DEF InBytes
  <2>5. Len(updates) \in Nat /\ Len(updates) <= MaxUpdates
    BY <1>3 DEF PdInv, Shape
  <2> QED BY <2>1, <2>4, <2>5
<1>5. /\ pd_in' \in [InBytes -> 0..MaxUpdates] /\ pd_in'[k] = Len(updates)
      /\ \A j \in InBytes : j # k => pd_in'[j] = pd_in[j]
  BY <1>2, <1>4, PdConstants DEF PdInv, TypeOK
<1>6. /\ task' \in [Tasks -> TaskRec] /\ task'[t] = [task[t] EXCEPT !.todo = @ \ {k}]
      /\ \A v \in Tasks : v # t => task'[v] = task[v]
  BY <1>1, <1>2, <1>3 DEF PdInv, Shape, TaskRec
<1>7. /\ task'[t].at = "copy" /\ task'[t].n = task[t].n /\ task'[t].len = task[t].len
      /\ (task'[t].valid <=> task[t].valid) /\ task'[t].todo = task[t].todo \ {k}
  BY <1>1, <1>3, <1>6 DEF TaskRec
<1>8. \A v \in Tasks : v # t => task[v].at = "idle"
  BY <1>1, Alone, PdTasks
<1>9. Shape'
  BY <1>1, <1>6 DEF PdInv, Shape
<1>10. TypeOK'
  BY <1>1, <1>5, <1>6, <1>7 DEF PdInv, TypeOK
<1>11. Exclusive'
  <2>1. /\ \A v \in Tasks : task'[v].at = task[v].at
        /\ UNCHANGED <<lock, platform, dll>>
    BY <1>1, <1>6, <1>7
  <2>2. Exclusive
    BY DEF PdInv
  <2> QED BY <2>1, <2>2 DEF Exclusive
<1>12. InputInv'
  <2>1. FlagsOf(Len(updates) - 1)'
    BY <1>1, <1>3 DEF Copied, FlagsOf
  <2>2. \A j \in InBytes :
          pd_in'[j] = IF j <= task'[t].len /\ j \notin task'[t].todo THEN Len(updates)
                      ELSE UpdateIn(updates, j, Len(updates) - 1)
    BY <1>3, <1>4, <1>5, <1>7 DEF Copied
  <2>3. Copied(t)'
    BY <1>1, <1>3, <1>4, <1>7, <2>1, <2>2 DEF Copied
  <2>4. \A v \in Producers : v # t => task'[v].at = "idle"
    BY <1>6, <1>8 DEF Tasks
  <2> QED BY <1>7, <2>3, <2>4 DEF InputInv
<1>13. HandlerInv'
  <2>1. \A j, v : Recent(j, v) => Recent(j, v)'
    BY <1>1 DEF Recent, Now
  <2>2. ValidIsRecent => ValidIsRecent'
    BY <1>1 DEF ValidIsRecent, Now
  <2>3. ToggleIsRecent => ToggleIsRecent'
    BY <1>1 DEF ToggleIsRecent, Now
  <2>4. dll.at # "idle" => \A j \in InBytes : Recent(j, pd_in'[j])
    <3> SUFFICES ASSUME dll.at # "idle" PROVE \A j \in InBytes : Recent(j, pd_in'[j])
      OBVIOUS
    <3>1. dll.done < Len(updates) /\ \A j \in InBytes : Recent(j, pd_in[j])
      BY <1>1 DEF PdInv, HandlerInv
    <3>2. platform # "loop" /\ dll.done \in Nat
      BY <1>1, Alone, PdTasks DEF PdInv, Shape, DllRec
    <3>3. Recent(k, Len(updates))
      BY <1>4, <3>1, <3>2 DEF Recent, Now
    <3> QED BY <1>5, <3>1, <3>3
  <2>5. \A v \in Producers : task'[v].at = "copy" => task[v].at = "copy"
    BY <1>1, <1>6, <1>7 DEF Tasks
  <2> QED BY <1>1, <2>1, <2>2, <2>3, <2>4, <2>5 DEF PdInv, HandlerInv
<1> QED BY <1>6, <1>9, <1>10, <1>11, <1>12, <1>13, ProducerKeeps DEF PdInv, UpdateCopy

LEMMA UpdateEndStep ==
  ASSUME PdInv, NEW t \in Producers, UpdateEnd(t)
  PROVE  PdInv'
<1>1. /\ t \in Tasks /\ MayRun(t) /\ task[t].at = "copy" /\ task[t].todo = {}
      /\ pd_in_len' = task[t].len /\ pd_valid' = task[t].valid
      /\ pd_in_toggle' = ~pd_in_toggle
      /\ task' = [task EXCEPT ![t] = Resting] /\ lock' = Nobody
      /\ UNCHANGED <<pd_in, updates, platform, pd_in_len_current, pd_out_len_current, pd_out,
                     dll, frames>>
  BY DEF UpdateEnd, At, UpdateLater, iolink_critical_exit, lens, output, Tasks
<1>2. Copied(t) /\ task[t] \in TaskRec /\ updates \in Seq(UpdateRec)
  BY <1>1 DEF PdInv, InputInv, Shape
<1>3. Len(updates) \in Nat \ {0} /\ task[t].len \in 0..PdInMax /\ task[t].valid \in BOOLEAN
  BY <1>2, PdConstants DEF Copied, TaskRec
<1>4. /\ task' \in [Tasks -> TaskRec] /\ task'[t] = Resting
      /\ \A v \in Tasks : v # t => task'[v] = task[v]
  BY <1>1, RestingType DEF PdInv, Shape
<1>5. \A v \in Tasks : task'[v].at = "idle"
  BY <1>1, <1>4, Alone, PdTasks DEF Resting
<1>6. pd_in_toggle' \in BOOLEAN /\ pd_valid' \in BOOLEAN
  BY <1>1, <1>3, Zenon
<1>7. Shape'
  BY <1>1, <1>4 DEF PdInv, Shape
<1>8. TypeOK'
  BY <1>1, <1>3, <1>5, <1>6 DEF PdInv, TypeOK
<1>9. Exclusive'
  BY <1>1, <1>5, PdTasks DEF Exclusive
<1>10. InputInv'
  <2>1. \A k \in InBytes : pd_in[k] = UpdateIn(updates, k, Len(updates))
    <3> TAKE k \in InBytes
    <3>1. k \in Int /\ Len(updates) \in 1..Len(updates)
      BY <1>3 DEF InBytes
    <3>2. UpdateIn(updates, k, Len(updates)) =
            IF k <= updates[Len(updates)].len THEN Len(updates)
            ELSE UpdateIn(updates, k, Len(updates) - 1)
      BY <1>2, <3>1, UpdateInLast
    <3> QED BY <1>1, <1>2, <3>2 DEF Copied
  <2>2. FlagsOf(Len(updates))'
    <3>1. pd_in_len' = updates[Len(updates)].len /\ (pd_valid' <=> updates[Len(updates)].valid)
      BY <1>1, <1>2 DEF Copied
    <3>2. pd_in_toggle' <=> Len(updates) % 2 = 1
      BY <1>1, <1>2, <1>3, Parity DEF Copied, FlagsOf
    <3> QED BY <1>1, <3>1, <3>2 DEF FlagsOf
  <2> QED BY <1>1, <1>5, <2>1, <2>2 DEF InputInv, Tasks
<1>11. HandlerInv'
  <2>1. \A j, v : Recent(j, v) => Recent(j, v)'
    BY <1>1 DEF Recent, Now
  <2>2. ValidIsRecent => ValidIsRecent'
    BY <1>1 DEF ValidIsRecent, Now
  <2>3. ToggleIsRecent => ToggleIsRecent'
    BY <1>1 DEF ToggleIsRecent, Now
  <2>4. \A v \in Producers : task'[v].at # "copy"
    BY <1>5 DEF Tasks
  <2> QED BY <1>1, <2>1, <2>2, <2>3, <2>4 DEF PdInv, HandlerInv
<1> QED BY <1>4, <1>7, <1>8, <1>9, <1>10, <1>11, ProducerKeeps DEF PdInv, UpdateEnd

-----------------------------------------------------------------------------
(* iolink_pd_output_read *)

(* A reader's step leaves both buffers and the handler alone.              *)
LEMMA ReaderKeeps ==
  ASSUME PdInv, NEW t \in Readers, ReadLater,
         \A u \in Tasks : u # t => task'[u] = task[u]
  PROVE  InputInv' /\ OutputInv' /\ HandlerInv'
<1>1. \A u \in Producers : task'[u] = task[u]
  BY PdTasks DEF Tasks
<1>2. UNCHANGED <<platform, pd_in, pd_in_len, pd_valid, pd_in_toggle, pd_out,
                  pd_in_len_current, pd_out_len_current, dll, updates, frames>>
  BY DEF ReadLater, input, lens, output
<1>3. InputInv'
  <2>1. \A n : FlagsOf(n) => FlagsOf(n)'
    BY <1>2 DEF FlagsOf
  <2>2. \A u \in Producers : Copied(u) => Copied(u)'
    BY <1>1, <1>2 DEF Copied, FlagsOf
  <2> QED BY <1>1, <1>2, <2>1, <2>2 DEF PdInv, InputInv
<1>4. OutputInv'
  BY <1>2 DEF PdInv, OutputInv
<1>5. HandlerInv'
  BY <1>1, <1>2 DEF PdInv, HandlerInv, Recent, ValidIsRecent, ToggleIsRecent, Now
<1> QED BY <1>3, <1>4, <1>5

LEMMA FramesAreCounted ==
  ASSUME PdInv
  PROVE  /\ frames \in Seq(0..PdOutMax) /\ Len(frames) \in Nat
         /\ FramesDone \in 0..Len(frames)
BY DEF PdInv, Shape, OutputInv, FramesDone

LEMMA ReadBeginStep ==
  ASSUME PdInv, NEW t \in Readers, NEW len \in ReadLens, ReadBegin(t, len)
  PROVE  PdInv'
<1> DEFINE n == Lesser(len, PdOutLen)
           r == [Resting EXCEPT !.at = "copy", !.len = n, !.todo = 1..n,
                                !.last = FramesDone, !.begun = Len(frames)]
<1>1. /\ t \in Tasks /\ MayRun(t) /\ task[t].at = "idle"
      /\ lock' = IF platform = "irq" THEN t ELSE lock
      /\ task' = [task EXCEPT ![t] = r]
      /\ UNCHANGED <<platform, pd_in, pd_in_len, pd_valid, pd_in_toggle, pd_out,
                     pd_in_len_current, pd_out_len_current, dll, updates, frames>>
  BY DEF ReadBegin, At, iolink_critical_enter, ReadLater, input, lens, output, Tasks
<1>2. /\ \A v \in Tasks : task[v].at = "idle"
      /\ platform = "loop" => dll.at = "idle"
  BY <1>1, Alone, PdTasks
<1>3. n \in Nat /\ 1..n \subseteq OutBytes
  BY PdConstants DEF Lesser, OutBytes, PdInv, LengthsFit
<1>4. /\ r \in TaskRec /\ r.at = "copy" /\ r.todo = 1..n /\ r.got = << >>
      /\ r.last = FramesDone /\ r.begun = Len(frames)
  <2>1. Resting \in TaskRec /\ 1..n \in SUBSET Int /\ Resting.got = << >>
    BY RestingType DEF Resting
  <2>2. FramesDone \in Nat /\ Len(frames) \in Nat
    BY FramesAreCounted
  <2>3. r = [Resting EXCEPT !.at = "copy", !.len = n, !.todo = 1..n,
                            !.last = FramesDone, !.begun = Len(frames)]
    OBVIOUS
  <2> HIDE DEF r, n
  <2>4. r \in TaskRec
    BY <1>3, <2>1, <2>2, <2>3 DEF TaskRec
  <2>5. r.at = "copy" /\ r.todo = 1..n /\ r.got = << >> /\ r.last = FramesDone
        /\ r.begun = Len(frames)
    BY <1>3, <2>1, <2>2, <2>3 DEF TaskRec
  <2> QED BY <2>4, <2>5
<1> HIDE DEF r, n
<1>5. /\ task' \in [Tasks -> TaskRec] /\ task'[t] = r
      /\ \A v \in Tasks : v # t => task'[v] = task[v]
  BY <1>1, <1>4 DEF PdInv, Shape
<1>6. Shape'
  BY <1>1, <1>5 DEF PdInv, Shape
<1>7. TypeOK'
  BY <1>1, <1>4, <1>5 DEF PdInv, TypeOK
<1>8. Exclusive'
  BY <1>1, <1>2, <1>4, <1>5, PdTasks DEF PdInv, Exclusive, TypeOK
<1>9. ReaderInv'
  <2> SUFFICES ASSUME NEW v \in Readers
               PROVE  /\ task'[v].last <= Len(frames') /\ task'[v].begun <= Len(frames')
                      /\ task'[v].at = "copy" =>
                           /\ task'[v].todo \subseteq OutBytes
                           /\ task'[v].begun = Len(frames') /\ task'[v].last = FramesDone'
                      /\ \A k \in DOMAIN task'[v].got :
                           \/ task'[v].got[k] = FrameIn(frames', k, task'[v].last)
                           \/ task'[v].got[k] = FrameIn(frames', k, task'[v].begun)
    BY DEF ReaderInv
  <2>1. FramesDone' = FramesDone
    BY <1>1 DEF FramesDone
  <2>2. CASE v = t
    BY <1>1, <1>3, <1>4, <1>5, <2>1, <2>2, FramesAreCounted, EmptyCopy
  <2>3. CASE v # t
    <3>1. task'[v] = task[v]
      BY <1>5, <2>3 DEF Tasks
    <3> QED BY <1>1, <2>1, <3>1 DEF PdInv, ReaderInv
  <2> QED BY <2>2, <2>3
<1> QED BY <1>5, <1>6, <1>7, <1>8, <1>9, ReaderKeeps DEF PdInv, ReadBegin

LEMMA ReadCopyStep ==
  ASSUME PdInv, NEW t \in Readers, ReadCopy(t)
  PROVE  PdInv'
<1> DEFINE g == task[t].got
<1>1. /\ t \in Tasks /\ MayRun(t) /\ task[t].at = "copy"
      /\ UNCHANGED <<lock, platform, pd_in, pd_in_len, pd_valid, pd_in_toggle, pd_out,
                     pd_in_len_current, pd_out_len_current, dll, updates, frames>>
  BY DEF ReadCopy, At, ReadLater, input, lens, output, Tasks
<1>2. PICK k \in task[t].todo :
        task' = [task EXCEPT ![t].todo = @ \ {k},
                             ![t].got = [j \in DOMAIN @ \cup {k} |->
                                           IF j = k THEN pd_out[k] ELSE @[j]]]
  BY DEF ReadCopy
<1> DEFINE h == [j \in DOMAIN g \cup {k} |-> IF j = k THEN pd_out[k] ELSE g[j]]
<1>3. /\ task[t] \in TaskRec /\ task[t].todo \subseteq OutBytes
      /\ task[t].begun = Len(frames) /\ task[t].last = FramesDone
  BY <1>1 DEF PdInv, ReaderInv, Shape
<1>4. k \in OutBytes /\ k \in Int /\ pd_out[k] \in Nat /\ g \in Copies
  BY <1>3, PdConstants DEF OutBytes, PdInv, TypeOK, TaskRec
<1>5. /\ h \in Copies /\ DOMAIN h = DOMAIN g \cup {k}
      /\ \A j \in DOMAIN h : h[j] = IF j = k THEN pd_out[k] ELSE g[j]
  <2>1. h = [j \in DOMAIN g \cup {k} |-> IF j = k THEN pd_out[k] ELSE g[j]]
    OBVIOUS
  <2> HIDE DEF g, h
  <2> QED BY <1>4, <2>1, CopyGrows
<1> HIDE DEF h
<1>6. /\ task' \in [Tasks -> TaskRec]
      /\ task'[t] = [task[t] EXCEPT !.todo = @ \ {k}, !.got = h]
      /\ \A v \in Tasks : v # t => task'[v] = task[v]
  BY <1>1, <1>2, <1>3, <1>5 DEF PdInv, Shape, TaskRec, h
<1>7. /\ task'[t].at = "copy" /\ task'[t].todo = task[t].todo \ {k} /\ task'[t].got = h
      /\ task'[t].last = task[t].last /\ task'[t].begun = task[t].begun
  BY <1>1, <1>3, <1>5, <1>6 DEF TaskRec
<1>8. Shape'
  BY <1>1, <1>6 DEF PdInv, Shape
<1>9. TypeOK'
  BY <1>1, <1>6, <1>7 DEF PdInv, TypeOK
<1>10. Exclusive'
  <2>1. \A v \in Tasks : task'[v].at = task[v].at
    BY <1>1, <1>6, <1>7
  <2> QED BY <1>1, <2>1 DEF PdInv, Exclusive
<1>11. pd_out[k] = FrameIn(frames, k, Len(frames)) \/ pd_out[k] = FrameIn(frames, k, FramesDone)
  <2>1. CASE dll.at # "out"
    BY <1>4, <2>1 DEF PdInv, OutputInv
  <2>2. CASE dll.at = "out"
    <3>1. Len(frames) \in 1..Len(frames) /\ frames \in Seq(0..PdOutMax)
      BY <2>2 DEF PdInv, OutputInv, Shape
    <3>2. FrameIn(frames, k, Len(frames)) =
            IF k <= frames[Len(frames)] THEN Len(frames) ELSE FrameIn(frames, k, Len(frames) - 1)
      BY <1>4, <3>1, FrameInLast
    <3>3. FramesDone = Len(frames) - 1
      BY <2>2 DEF FramesDone
    <3> QED BY <1>4, <2>2, <3>2, <3>3 DEF PdInv, OutputInv
  <2> QED BY <2>1, <2>2
<1>12. ReaderInv'
  <2> SUFFICES ASSUME NEW v \in Readers
               PROVE  /\ task'[v].last <= Len(frames') /\ task'[v].begun <= Len(frames')
                      /\ task'[v].at = "copy" =>
                           /\ task'[v].todo \subseteq OutBytes
                           /\ task'[v].begun = Len(frames') /\ task'[v].last = FramesDone'
                      /\ \A j \in DOMAIN task'[v].got :
                           \/ task'[v].got[j] = FrameIn(frames', j, task'[v].last)
                           \/ task'[v].got[j] = FrameIn(frames', j, task'[v].begun)
    BY DEF ReaderInv
  <2>1. FramesDone' = FramesDone
    BY <1>1 DEF FramesDone
  <2>2. CASE v = t
    <3>1. \A j \in DOMAIN g : \/ g[j] = FrameIn(frames, j, task[t].last)
                              \/ g[j] = FrameIn(frames, j, task[t].begun)
      BY DEF PdInv, ReaderInv
    <3>2. \A j \in DOMAIN h : \/ h[j] = FrameIn(frames, j, task[t].last)
                              \/ h[j] = FrameIn(frames, j, task[t].begun)
      BY <1>3, <1>5, <1>11, <3>1
    <3> QED BY <1>1, <1>3, <1>7, <2>1, <2>2, <3>2 DEF PdInv, ReaderInv
  <2>3. CASE v # t
    <3>1. task'[v] = task[v]
      BY <1>6, <2>3 DEF Tasks
    <3> QED BY <1>1, <2>1, <3>1 DEF PdInv, ReaderInv
  <2> QED BY <2>2, <2>3
<1> QED BY <1>6, <1>8, <1>9, <1>10, <1>12, ReaderKeeps DEF PdInv, ReadCopy

LEMMA ReadEndStep ==
  ASSUME PdInv, NEW t \in Readers, ReadEnd(t)
  PROVE  PdInv'
<1>1. /\ t \in Tasks /\ MayRun(t) /\ task[t].at = "copy" /\ lock' = Nobody
      /\ task' = [task EXCEPT ![t].at = "idle"]
      /\ UNCHANGED <<platform, pd_in, pd_in_len, pd_valid, pd_in_toggle, pd_out,
                     pd_in_len_current, pd_out_len_current, dll, updates, frames>>
  BY DEF ReadEnd, At, ReadLater, iolink_critical_exit, input, lens, output, Tasks
<1>2. task[t] \in TaskRec
  BY <1>1 DEF PdInv, Shape
<1>3. /\ task' \in [Tasks -> TaskRec] /\ task'[t] = [task[t] EXCEPT !.at = "idle"]
      /\ \A v \in Tasks : v # t => task'[v] = task[v]
  BY <1>1, <1>2 DEF PdInv, Shape, TaskRec
<1>4. /\ task'[t].at = "idle" /\ task'[t].got = task[t].got
      /\ task'[t].last = task[t].last /\ task'[t].begun = task[t].begun
  BY <1>2, <1>3 DEF TaskRec
<1>5. \A v \in Tasks : task'[v].at = "idle"
  BY <1>1, <1>3, <1>4, Alone, PdTasks
<1>6. Shape'
  BY <1>1, <1>3 DEF PdInv, Shape
<1>7. TypeOK'
  BY <1>1, <1>5 DEF PdInv, TypeOK
<1>8. Exclusive'
  BY <1>1, <1>5, PdTasks DEF Exclusive
<1>9. ReaderInv'
  <2>1. \A v \in Readers : /\ task'[v].at = "idle" /\ task'[v].got = task[v].got
                           /\ task'[v].last = task[v].last /\ task'[v].begun = task[v].begun
    BY <1>3, <1>4, <1>5 DEF Tasks
  <2> QED BY <1>1, <2>1 DEF PdInv, ReaderInv
<1> QED BY <1>3, <1>6, <1>7, <1>8, <1>9, ReaderKeeps DEF PdInv, ReadEnd

-----------------------------------------------------------------------------
(* dll_handle_operate_type1_2 *)

(* When the handler runs, no task is in the middle of a copy.              *)
LEMMA HandlerKeeps ==
  ASSUME PdInv, MayRun("dll"), HandlerLater
  PROVE  /\ \A t \in Tasks : task[t].at = "idle"
         /\ UNCHANGED <<platform, lock, pd_in, pd_in_len, pd_valid, pd_in_toggle,
                        pd_in_len_current, pd_out_len_current, task, updates>>
         /\ \A k \in InBytes : pd_in[k] = UpdateIn(updates, k, Len(updates))
         /\ FlagsOf(Len(updates))
         /\ Exclusive' /\ InputInv'
<1>1. \A t \in Tasks : task[t].at = "idle"
  BY Alone, PdTasks
<1>2. UNCHANGED <<platform, lock, pd_in, pd_in_len, pd_valid, pd_in_toggle,
                  pd_in_len_current, pd_out_len_current, task, updates>>
  BY DEF HandlerLater, input, lens
<1>3. /\ \A k \in InBytes : pd_in[k] = UpdateIn(updates, k, Len(updates))
      /\ FlagsOf(Len(updates))
  BY <1>1 DEF PdInv, InputInv, Tasks
<1>4. lock \notin Tasks
  BY <1>1 DEF PdInv, Exclusive
<1>5. Exclusive'
  BY <1>1, <1>2, <1>4 DEF Exclusive
<1>6. InputInv'
  BY <1>1, <1>2, <1>3 DEF InputInv, Tasks, FlagsOf
<1> QED BY <1>1, <1>2, <1>3, <1>5, <1>6

(* And the readers keep what they found, if no frame is forgotten.         *)
LEMMA HandlerKeepsReads ==
  ASSUME PdInv, MayRun("dll"), HandlerLater,
         \/ UNCHANGED frames
         \/ \E f \in 0..PdOutMax : frames' = Append(frames, f)
  PROVE  ReaderInv'
<1>1. /\ \A t \in Readers : task[t].at = "idle" /\ task[t] \in TaskRec
      /\ UNCHANGED task
  BY HandlerKeeps DEF Tasks, PdInv, Shape
<1>2. \A t \in Readers : task[t].last \in 0..Len(frames) /\ task[t].begun \in 0..Len(frames)
  BY <1>1 DEF PdInv, ReaderInv, TaskRec
<1>3. CASE UNCHANGED frames
  BY <1>1, <1>3 DEF PdInv, ReaderInv
<1>4. CASE \E f \in 0..PdOutMax : frames' = Append(frames, f)
  <2>1. PICK f \in 0..PdOutMax : frames' = Append(frames, f)
    BY <1>4
  <2>2. frames \in Seq(0..PdOutMax) /\ Len(frames) \in Nat /\ Len(frames') = Len(frames) + 1
    BY <2>1 DEF PdInv, Shape
  <2>3. \A k : \A n \in 0..Len(frames) : FrameIn(frames', k, n) = FrameIn(frames, k, n)
    BY <2>1, <2>2, FrameInKept
  <2>4. \A t \in Readers : task[t].last <= Len(frames') /\ task[t].begun <= Len(frames')
    BY <1>2, <2>2
  <2> QED BY <1>1, <1>2, <2>3, <2>4 DEF PdInv, ReaderInv
<1> QED BY <1>3, <1>4

LEMMA HandlerBeginStep ==
  ASSUME PdInv, HandlerBegin
  PROVE  PdInv'
<1> DEFINE n == pd_out_len_current
<1>1. /\ MayRun("dll") /\ dll.at = "idle" /\ Len(frames) < MaxFrames /\ HandlerLater
      /\ frames' = Append(frames, n) /\ UNCHANGED pd_out
      /\ dll' = [DllResting EXCEPT !.at = "out", !.todo = 1..n, !.done = UpdatesDone]
  BY DEF HandlerBegin, output
<1>2. /\ \A t \in Tasks : task[t].at = "idle"
      /\ UNCHANGED <<platform, lock, pd_in, pd_in_len, pd_valid, pd_in_toggle,
                     pd_in_len_current, pd_out_len_current, task, updates>>
      /\ \A k \in InBytes : pd_in[k] = UpdateIn(updates, k, Len(updates))
      /\ Exclusive' /\ InputInv'
  BY <1>1, HandlerKeeps
<1>3. UpdatesDone = Len(updates) /\ Len(updates) \in Nat
  <2>1. {t \in Producers : task[t].at = "copy"} = {}
    BY <1>2 DEF Tasks
  <2>2. Len(updates) \in Nat
    BY DEF PdInv, Shape
  <2> QED BY <2>1, <2>2, FS_EmptySet DEF UpdatesDone
<1>4. n \in 0..PdOutMax /\ n \in Nat
  BY PdConstants DEF PdInv, LengthsFit, TypeOK
<1>5. /\ dll' \in DllRec /\ dll'.at = "out" /\ dll'.todo = 1..n /\ dll'.done = Len(updates)
      /\ dll'.got = << >>
  <2>1. DllResting \in DllRec /\ 1..n \in SUBSET Int /\ DllResting.got = << >>
    BY <1>4, RestingType DEF DllResting
  <2> HIDE DEF n
  <2>2. dll' \in DllRec
    BY <1>1, <1>3, <2>1 DEF DllRec
  <2>3. /\ dll'.at = "out" /\ dll'.todo = 1..n /\ dll'.done = Len(updates)
        /\ dll'.got = << >>
    BY <1>1, <1>3, <2>1 DEF DllRec
  <2> QED BY <2>2, <2>3
<1>6. /\ frames \in Seq(0..PdOutMax) /\ frames' \in Seq(0..PdOutMax) /\ Len(frames) \in Nat
      /\ Len(frames') = Len(frames) + 1 /\ frames'[Len(frames')] = n /\ frames' # << >>
  BY <1>1, <1>4 DEF PdInv, Shape
<1>7. Shape'
  BY <1>1, <1>2, <1>5, <1>6, PdConstants DEF PdInv, Shape
<1>8. TypeOK'
  BY <1>1, <1>2, <1>5 DEF PdInv, TypeOK
<1>9. OutputInv'
  <2>1. \A k \in OutBytes : pd_out[k] = FrameIn(frames, k, Len(frames))
    BY <1>1 DEF PdInv, OutputInv
  <2>2. \A k \in OutBytes : FrameIn(frames', k, Len(frames') - 1) = FrameIn(frames, k, Len(frames))
    <3>1. Len(frames') - 1 = Len(frames) /\ Len(frames) \in 0..Len(frames)
      BY <1>6
    <3> QED BY <1>1, <1>4, <1>6, <3>1, FrameInKept
  <2> QED BY <1>1, <1>4, <1>5, <1>6, <2>1, <2>2 DEF OutputInv, OutBytes
<1>10. HandlerInv'
  <2>1. \A k \in InBytes : Recent(k, pd_in[k])'
    BY <1>2, <1>5 DEF Recent
  <2>2. \A t \in Producers : task'[t].at # "copy"
    BY <1>2 DEF Tasks
  <2> QED BY <1>2, <1>3, <1>5, <1>6, <2>1, <2>2, EmptyCopy DEF HandlerInv
<1>11. ReaderInv'
  BY <1>1, <1>4, HandlerKeepsReads
<1> QED BY <1>2, <1>7, <1>8, <1>9, <1>10, <1>11 DEF PdInv

(* A step of the handler that leaves done and got as they were.            *)
LEMMA RecentKept ==
  ASSUME dll'.done = dll.done, UNCHANGED <<platform, updates>>
  PROVE  /\ \A k, v : Recent(k, v) => Recent(k, v)'
         /\ (dll'.valid <=> dll.valid) => (ValidIsRecent => ValidIsRecent')
         /\ (dll'.toggle <=> dll.toggle) => (ToggleIsRecent => ToggleIsRecent')
BY DEF Recent, ValidIsRecent, ToggleIsRecent, Now

LEMMA HandlerStoreStep ==
  ASSUME PdInv, HandlerStore
  PROVE  PdInv'
<1>1. MayRun("dll") /\ dll.at = "out" /\ HandlerLater /\ UNCHANGED frames
  BY DEF HandlerStore
<1>2. PICK k \in dll.todo : /\ pd_out' = [pd_out EXCEPT ![k] = Len(frames)]
                            /\ dll' = [dll EXCEPT !.todo = @ \ {k}]
  BY DEF HandlerStore
<1>3. /\ \A t \in Tasks : task[t].at = "idle"
      /\ UNCHANGED <<platform, lock, pd_in, pd_in_len, pd_valid, pd_in_toggle,
                     pd_in_len_current, pd_out_len_current, task, updates>>
      /\ Exclusive' /\ InputInv'
  BY <1>1, HandlerKeeps
<1>4. /\ frames \in Seq(0..PdOutMax) /\ Len(frames) \in Nat /\ Len(frames) \in 0..MaxFrames
      /\ Len(frames) \in 1..Len(frames) /\ frames # << >>
  BY <1>1, PdConstants DEF PdInv, Shape, OutputInv
<1>5. frames[Len(frames)] \in 0..PdOutMax /\ k \in 1..frames[Len(frames)] /\ k \in OutBytes
  BY <1>1, <1>4, PdConstants DEF PdInv, OutputInv, OutBytes
<1>6. dll \in DllRec
  BY DEF PdInv, Shape
<1>7. /\ dll' \in DllRec /\ dll'.at = "out" /\ dll'.todo = dll.todo \ {k}
      /\ dll'.done = dll.done /\ dll'.got = dll.got
  BY <1>1, <1>2, <1>6 DEF DllRec
<1>8. /\ pd_out' \in [OutBytes -> 0..MaxFrames] /\ pd_out'[k] = Len(frames)
      /\ \A j \in OutBytes : j # k => pd_out'[j] = pd_out[j]
  BY <1>2, <1>4, <1>5 DEF PdInv, TypeOK
<1>9. Shape'
  BY <1>1, <1>3, <1>7 DEF PdInv, Shape
<1>10. TypeOK'
  BY <1>3, <1>7, <1>8 DEF PdInv, TypeOK
<1>11. OutputInv'
  BY <1>1, <1>4, <1>5, <1>7, <1>8 DEF PdInv, OutputInv
<1>12. HandlerInv'
  <2>1. \A j, v : Recent(j, v) => Recent(j, v)'
    BY <1>3, <1>7, RecentKept
  <2> QED BY <1>1, <1>3, <1>4, <1>7, <2>1 DEF PdInv, HandlerInv
<1>13. ReaderInv'
  BY <1>1, HandlerKeepsReads
<1> QED BY <1>3, <1>9, <1>10, <1>11, <1>12, <1>13 DEF PdInv

LEMMA HandlerTurnStep ==
  ASSUME PdInv, HandlerTurn
  PROVE  PdInv'
<1> DEFINE S == {-1, 0} \cup 1..pd_in_len_current
<1>1. /\ MayRun("dll") /\ dll.at = "out" /\ dll.todo = {} /\ HandlerLater
      /\ UNCHANGED <<frames, pd_out>> /\ dll' = [dll EXCEPT !.at = "in", !.todo = S]
  BY DEF HandlerTurn, output
<1>2. /\ \A t \in Tasks : task[t].at = "idle"
      /\ UNCHANGED <<platform, lock, pd_in, pd_in_len, pd_valid, pd_in_toggle,
                     pd_in_len_current, pd_out_len_current, task, updates>>
      /\ Exclusive' /\ InputInv'
  BY <1>1, HandlerKeeps
<1>3. /\ S \subseteq {-1, 0} \cup InBytes
      /\ S \in SUBSET Int /\ 0 \in S /\ -1 \in S
  BY PdConstants DEF PdInv, LengthsFit, TypeOK, InBytes
<1> HIDE DEF S
<1>4. dll \in DllRec
  BY DEF PdInv, Shape
<1>5. /\ dll' \in DllRec /\ dll'.at = "in" /\ dll'.todo = S
      /\ dll'.done = dll.done /\ dll'.got = dll.got
  BY <1>1, <1>3, <1>4 DEF DllRec
<1>6. Shape'
  BY <1>1, <1>2, <1>5 DEF PdInv, Shape
<1>7. TypeOK'
  BY <1>1, <1>2, <1>3, <1>5 DEF PdInv, TypeOK
<1>8. OutputInv'
  <2>1. frames \in Seq(0..PdOutMax) /\ Len(frames) \in 1..Len(frames)
    BY <1>1 DEF PdInv, Shape, OutputInv
  <2>2. \A k \in OutBytes :
          FrameIn(frames, k, Len(frames)) =
            IF k <= frames[Len(frames)] THEN Len(frames) ELSE FrameIn(frames, k, Len(frames) - 1)
    BY <2>1, FrameInLast DEF OutBytes
  <2> QED BY <1>1, <1>5, <2>2 DEF PdInv, OutputInv
<1>9. HandlerInv'
  <2>1. \A j, v : Recent(j, v) => Recent(j, v)'
    BY <1>2, <1>5, RecentKept
  <2> QED BY <1>1, <1>2, <1>3, <1>5, <2>1 DEF PdInv, HandlerInv
<1>10. ReaderInv'
  BY <1>1, HandlerKeepsReads
<1> QED BY <1>2, <1>6, <1>7, <1>8, <1>9, <1>10 DEF PdInv

LEMMA HandlerSendStep ==
  ASSUME PdInv, HandlerSend
  PROVE  PdInv'
<1>1. /\ MayRun("dll") /\ dll.at = "in" /\ dll.todo = {} /\ HandlerLater
      /\ UNCHANGED <<frames, pd_out>> /\ dll' = [dll EXCEPT !.at = "idle"]
  BY DEF HandlerSend, output
<1>2. /\ \A t \in Tasks : task[t].at = "idle"
      /\ UNCHANGED <<platform, lock, pd_in, pd_in_len, pd_valid, pd_in_toggle,
                     pd_in_len_current, pd_out_len_current, task, updates>>
      /\ Exclusive' /\ InputInv'
  BY <1>1, HandlerKeeps
<1>3. dll \in DllRec
  BY DEF PdInv, Shape
<1>4. /\ dll' \in DllRec /\ dll'.at = "idle" /\ dll'.todo = dll.todo
      /\ dll'.done = dll.done /\ dll'.got = dll.got
      /\ (dll'.valid <=> dll.valid) /\ (dll'.toggle <=> dll.toggle)
  BY <1>1, <1>3 DEF DllRec
<1>5. Shape'
  BY <1>1, <1>2, <1>4 DEF PdInv, Shape
<1>6. TypeOK'
  BY <1>1, <1>2, <1>4 DEF PdInv, TypeOK
<1>7. OutputInv'
  BY <1>1, <1>4 DEF PdInv, OutputInv
<1>8. HandlerInv'
  <2>1. /\ \A j, v : Recent(j, v) => Recent(j, v)'
        /\ ValidIsRecent => ValidIsRecent'
        /\ ToggleIsRecent => ToggleIsRecent'
    BY <1>2, <1>4, RecentKept
  <2> QED BY <1>1, <1>2, <1>4, <2>1 DEF PdInv, HandlerInv
<1>9. ReaderInv'
  BY <1>1, HandlerKeepsReads
<1> QED BY <1>2, <1>5, <1>6, <1>7, <1>8, <1>9 DEF PdInv

LEMMA HandlerLoadStep ==
  ASSUME PdInv, HandlerLoad
  PROVE  PdInv'
<1>1. MayRun("dll") /\ dll.at = "in" /\ HandlerLater /\ UNCHANGED <<frames, pd_out>>
  BY DEF HandlerLoad, output
<1>2. PICK k \in dll.todo :
        dll' = [dll EXCEPT !.todo = @ \ {k},
                  !.toggle = IF k = -1 THEN pd_in_toggle ELSE @,
                  !.valid = IF k = 0 THEN pd_valid ELSE @,
                  !.got = IF k > 0 THEN [j \in DOMAIN @ \cup {k} |->
                                           IF j = k THEN pd_in[k] ELSE @[j]]
                                   ELSE @]
  BY DEF HandlerLoad
<1> DEFINE g  == dll.got
           h  == [j \in DOMAIN g \cup {k} |-> IF j = k THEN pd_in[k] ELSE g[j]]
           tg == IF k = -1 THEN pd_in_toggle ELSE dll.toggle
           va == IF k = 0 THEN pd_valid ELSE dll.valid
           gt == IF k > 0 THEN h ELSE g
<1>3. /\ \A t \in Tasks : task[t].at = "idle"
      /\ UNCHANGED <<platform, lock, pd_in, pd_in_len, pd_valid, pd_in_toggle,
                     pd_in_len_current, pd_out_len_current, task, updates>>
      /\ Exclusive' /\ InputInv' /\ FlagsOf(Len(updates))
  BY <1>1, HandlerKeeps
<1>4. dll \in DllRec /\ k \in {-1, 0} \cup InBytes /\ k \in Int
  BY <1>1 DEF PdInv, Shape, HandlerInv, InBytes
<1>5. tg \in BOOLEAN /\ va \in BOOLEAN
  <2>1. /\ pd_in_toggle \in BOOLEAN /\ pd_valid \in BOOLEAN
        /\ dll.toggle \in BOOLEAN /\ dll.valid \in BOOLEAN
    BY <1>4 DEF PdInv, TypeOK, DllRec
  <2> QED BY <2>1, Zenon
<1>6. /\ gt \in Copies
      /\ \A j \in DOMAIN gt : \/ j \in DOMAIN g /\ gt[j] = g[j]
                              \/ j = k /\ k \in InBytes /\ gt[j] = pd_in[k]
  <2>1. g \in Copies
    BY <1>4 DEF DllRec
  <2>2. CASE k > 0
    <3>1. k \in InBytes /\ pd_in[k] \in Nat
      BY <1>4, <2>2, PdConstants DEF PdInv, TypeOK
    <3>2. h = [j \in DOMAIN g \cup {k} |-> IF j = k THEN pd_in[k] ELSE g[j]]
      OBVIOUS
    <3>3. gt = h
      BY <2>2
    <3> HIDE DEF g, h, gt
    <3>4. /\ h \in Copies /\ DOMAIN h = DOMAIN g \cup {k}
          /\ \A j \in DOMAIN h : h[j] = IF j = k THEN pd_in[k] ELSE g[j]
      BY <1>4, <2>1, <3>1, <3>2, CopyGrows
    <3> QED BY <3>1, <3>3, <3>4
  <2>3. CASE ~(k > 0)
    <3>1. gt = g
      BY <2>3
    <3> HIDE DEF g, h, gt
    <3> QED BY <2>1, <3>1
  <2> QED BY <2>2, <2>3
<1>7. dll' = [dll EXCEPT !.todo = @ \ {k}, !.toggle = tg, !.valid = va, !.got = gt]
  BY <1>2
<1>8. (k = -1 => (tg <=> pd_in_toggle)) /\ (k # -1 => (tg <=> dll.toggle))
  OBVIOUS
<1>9. (k = 0 => (va <=> pd_valid)) /\ (k # 0 => (va <=> dll.valid))
  OBVIOUS
<1> HIDE DEF tg, va, gt, h, g
<1>10. /\ dll' \in DllRec /\ dll'.at = "in" /\ dll'.todo = dll.todo \ {k}
       /\ dll'.done = dll.done /\ dll'.got = gt
       /\ (dll'.toggle <=> tg) /\ (dll'.valid <=> va)
  <2>1. dll' \in DllRec
    BY <1>4, <1>5, <1>6, <1>7 DEF DllRec
  <2>2. /\ dll'.at = "in" /\ dll'.todo = dll.todo \ {k}
        /\ dll'.done = dll.done /\ dll'.got = gt
    BY <1>1, <1>4, <1>5, <1>6, <1>7 DEF DllRec
  <2>3. (dll'.toggle <=> tg) /\ (dll'.valid <=> va)
    BY <1>4, <1>5, <1>7 DEF DllRec
  <2> QED BY <2>1, <2>2, <2>3
<1>11. Shape'
  BY <1>1, <1>3, <1>10 DEF PdInv, Shape
<1>12. TypeOK'
  BY <1>1, <1>3, <1>10 DEF PdInv, TypeOK
<1>13. OutputInv'
  BY <1>1, <1>10 DEF PdInv, OutputInv
<1>14. HandlerInv'
  <2>1. \A j, v : Recent(j, v) => Recent(j, v)'
    BY <1>3, <1>10, RecentKept
  <2>2. \A j \in DOMAIN gt : j \in InBytes /\ Recent(j, gt[j])
    <3>1. \A j \in DOMAIN g : j \in InBytes /\ Recent(j, g[j])
      BY DEF PdInv, HandlerInv, g
    <3>2. \A j \in InBytes : Recent(j, pd_in[j])
      BY <1>1 DEF PdInv, HandlerInv
    <3> QED BY <1>6, <3>1, <3>2
  <2>3. Len(updates) \in Nat /\ dll.done \in Nat /\ Len(updates) \in dll.done..Now
    BY <1>1, <1>4 DEF PdInv, Shape, HandlerInv, Now, DllRec
  <2>4. Now' = Now
    BY <1>3, <1>10 DEF Now
  <2>5. (0 \notin dll.todo \ {k}) => ValidIsRecent'
    <3>1. CASE k = 0
      <4>1. dll.done > 0 => (va <=> updates[Len(updates)].valid)
        BY <1>3, <1>9, <2>3, <3>1 DEF FlagsOf
      <4> QED BY <1>3, <1>10, <2>3, <2>4, <4>1 DEF ValidIsRecent
    <3>2. CASE k # 0
      <4>1. 0 \notin dll.todo => ValidIsRecent
        BY <1>1 DEF PdInv, HandlerInv
      <4> QED BY <1>3, <1>9, <1>10, <3>2, <4>1, RecentKept
    <3> QED BY <3>1, <3>2
  <2>6. (-1 \notin dll.todo \ {k}) => ToggleIsRecent'
    <3>1. CASE k = -1
      <4>1. tg <=> Len(updates) % 2 = 1
        BY <1>3, <1>8, <3>1 DEF FlagsOf
      <4> QED BY <1>3, <1>10, <2>3, <2>4, <4>1 DEF ToggleIsRecent
    <3>2. CASE k # -1
      <4>1. -1 \notin dll.todo => ToggleIsRecent
        BY <1>1 DEF PdInv, HandlerInv
      <4> QED BY <1>3, <1>8, <1>10, <3>2, <4>1, RecentKept
    <3> QED BY <3>1, <3>2
  <2> QED BY <1>1, <1>3, <1>10, <2>1, <2>2, <2>5, <2>6 DEF PdInv, HandlerInv
<1>15. ReaderInv'
  BY <1>1, HandlerKeepsReads
<1> QED BY <1>3, <1>11, <1>12, <1>13, <1>14, <1>15 DEF PdInv

-----------------------------------------------------------------------------
(* The theorems *)

(* A step that changes at most the lengths on the wire.                    *)
LEMMA OnlyLengths ==
  ASSUME PdInv, pd_in_len_current' \in 0..PdInMax, pd_out_len_current' \in 0..PdOutMax,
         UNCHANGED <<platform, lock, pd_in, pd_in_len, pd_valid, pd_in_toggle, pd_out,
                     task, dll, updates, frames>>
  PROVE  PdInv'
<1>1. TypeOK' /\ Shape'
  BY DEF PdInv, TypeOK, Shape
<1>2. Exclusive' /\ OutputInv'
  BY DEF PdInv, Exclusive, OutputInv
<1>3. InputInv'
  BY DEF PdInv, InputInv, Copied, FlagsOf
<1>4. HandlerInv' /\ ReaderInv'
  BY DEF PdInv, HandlerInv, Recent, ValidIsRecent, ToggleIsRecent, Now, ReaderInv, FramesDone
<1> QED BY <1>1, <1>2, <1>3, <1>4 DEF PdInv

LEMMA NextPd == PdInv /\ [Next]_vars => PdInv'
<1> SUFFICES ASSUME PdInv, [Next]_vars PROVE PdInv'
  OBVIOUS
<1>1. ASSUME NEW t \in Producers, NEW len \in UpdateLens, NEW valid \in BOOLEAN,
             UpdateBegin(t, len, valid)
      PROVE  PdInv'
  BY <1>1, UpdateBeginStep
<1>2. ASSUME NEW t \in Producers, UpdateCopy(t) \/ UpdateEnd(t)
      PROVE  PdInv'
  BY <1>2, UpdateCopyStep, UpdateEndStep
<1>3. ASSUME NEW t \in Readers, NEW len \in ReadLens, ReadBegin(t, len)
      PROVE  PdInv'
  BY <1>3, ReadBeginStep
<1>4. ASSUME NEW t \in Readers, ReadCopy(t) \/ ReadEnd(t)
      PROVE  PdInv'
  BY <1>4, ReadCopyStep, ReadEndStep
<1>5. CASE HandlerBegin \/ HandlerStore \/ HandlerTurn \/ HandlerLoad \/ HandlerSend
  BY <1>5, HandlerBeginStep, HandlerStoreStep, HandlerTurnStep, HandlerLoadStep, HandlerSendStep
<1>6. ASSUME NEW len_in \in WireLens, NEW len_out \in WireLens, set_pd_length(len_in, len_out)
      PROVE  PdInv'
  BY <1>6, OnlyLengths, PdConstants DEF set_pd_length, input, output
<1>7. CASE UNCHANGED vars
  BY <1>7, OnlyLengths, PdConstants DEF vars, input, output, lens, PdInv, LengthsFit, TypeOK
<1> QED BY <1>1, <1>2, <1>3, <1>4, <1>5, <1>6, <1>7 DEF Next

LEMMA ValidIsBoolean == \A u \in UpdateRec : u.valid \in BOOLEAN
BY DEF UpdateRec

LEMMA SpecPd ==
  ASSUME LengthsFit
  PROVE  Spec => []PdInv
<1>1. Init => PdInv
  BY InitPd
<1> QED BY <1>1, NextPd, PTL DEF Spec

(* Every reachable state of the process data is well formed, for every     *)
(* number of tasks and every buffer size, if the configured lengths, which *)
(* iolink_init does not check, fit the buffers.                            *)
THEOREM ProcessDataTypeCorrect ==
  ASSUME LengthsFit
  PROVE  Spec => []TypeOK
<1>1. PdInv => TypeOK
  BY DEF PdInv
<1> QED BY <1>1, SpecPd, PTL

(* If the configured lengths fit, every copy of the cyclic handler, of     *)
(* iolink_pd_output_read and of iolink_pd_input_update stays within its    *)
(* buffer, whenever iolink_dll_set_pd_length is called.                    *)
THEOREM ProcessDataCopiesFit ==
  ASSUME LengthsFit
  PROVE  Spec => []CopiesFit
<1>1. PdInv => CopiesFit
  <2> SUFFICES ASSUME PdInv PROVE CopiesFit
    OBVIOUS
  <2>1. dll.at = "out" => dll.todo \subseteq OutBytes
    <3> SUFFICES ASSUME dll.at = "out" PROVE dll.todo \subseteq OutBytes
      OBVIOUS
    <3>1. Len(frames) > 0 /\ dll.todo \subseteq 1..frames[Len(frames)]
      BY DEF PdInv, OutputInv
    <3>2. PICK n \in 0..PdOutMax : n = frames[Len(frames)]
      <4>1. frames \in Seq(0..PdOutMax) /\ Len(frames) \in 1..Len(frames)
        BY <3>1 DEF PdInv, Shape
      <4> QED BY <4>1, ElementOfSeq
    <3> QED BY <3>1, <3>2, PdConstants DEF OutBytes
  <2>2. ASSUME NEW t \in Producers, task[t].at = "copy"
        PROVE  task[t].todo \subseteq InBytes
    <3>1. Copied(t) /\ task[t].len \in Nat
      BY <2>2 DEF PdInv, InputInv, Shape, TaskRec, Tasks
    <3> QED BY <3>1, PdConstants DEF Copied, InBytes
  <2> QED BY <2>1, <2>2 DEF CopiesFit, PdInv, HandlerInv, ReaderInv
<1> QED BY <1>1, SpecPd, PTL

(* However many tasks call iolink_pd_input_update, whenever none of them   *)
(* is inside the call the input is what the updates leave one after the    *)
(* other: no byte, length, valid bit or toggle of two updates is mixed.    *)
THEOREM ProcessDataRestingInputIsSerial ==
  ASSUME LengthsFit
  PROVE  Spec => []RestingInputIsSerial
<1>1. PdInv => RestingInputIsSerial
  <2> SUFFICES ASSUME PdInv, \A t \in Producers : task[t].at = "idle"
               PROVE  /\ \A k \in InBytes : pd_in[k] = UpdateOf(k, Len(updates))
                      /\ Len(updates) > 0 => /\ pd_in_len = updates[Len(updates)].len
                                             /\ pd_valid = updates[Len(updates)].valid
                      /\ pd_in_toggle = (Len(updates) % 2 = 1)
    BY DEF RestingInputIsSerial
  <2>1. \A k \in InBytes : pd_in[k] = UpdateOf(k, Len(updates))
    BY DEF PdInv, InputInv, UpdateIn, UpdateOf
  <2>2. FlagsOf(Len(updates))
    BY DEF PdInv, InputInv
  <2>3. pd_valid \in BOOLEAN /\ pd_in_toggle \in BOOLEAN
    BY DEF PdInv, TypeOK
  <2>4. Len(updates) > 0 => updates[Len(updates)].valid \in BOOLEAN
    <3>1. Len(updates) > 0 => updates[Len(updates)] \in UpdateRec
      BY DEF PdInv, Shape
    <3> QED BY <3>1, ValidIsBoolean
  <2>5. Len(updates) > 0 => pd_valid = updates[Len(updates)].valid
    BY <2>2, <2>3, <2>4, Zenon DEF FlagsOf
  <2>6. pd_in_toggle = (Len(updates) % 2 = 1)
    BY <2>2, <2>3, Zenon DEF FlagsOf
  <2> QED BY <2>1, <2>2, <2>5, <2>6 DEF FlagsOf
<1> QED BY <1>1, SpecPd, PTL

(* However the loads of dll_handle_operate_type1_2 interleave with the     *)
(* updates, a response carries nothing older than the last update before   *)
(* its frame, and on one thread exactly that update.                       *)
THEOREM ProcessDataResponseIsRecent ==
  ASSUME LengthsFit
  PROVE  Spec => []ResponseIsRecent
<1>1. PdInv => ResponseIsRecent
  <2> SUFFICES ASSUME PdInv, dll.at = "idle", frames # << >>
               PROVE  /\ \A k \in DOMAIN dll.got :
                           dll.got[k] = UpdateOf(k, dll.done) \/ dll.got[k] \in (dll.done + 1)..Now
                      /\ dll.done > 0 => \E m \in dll.done..Now : dll.valid = updates[m].valid
                      /\ \E m \in dll.done..Now : dll.toggle = (m % 2 = 1)
    BY DEF ResponseIsRecent, Now
  <2>1. \A k \in DOMAIN dll.got :
          dll.got[k] = UpdateOf(k, dll.done) \/ dll.got[k] \in (dll.done + 1)..Now
    BY DEF PdInv, HandlerInv, Recent, UpdateIn, UpdateOf
  <2>2. /\ dll.valid \in BOOLEAN /\ dll.toggle \in BOOLEAN /\ dll.done \in Nat
        /\ Now \in 0..Len(updates) /\ updates \in Seq(UpdateRec)
    BY DEF PdInv, Shape, DllRec, HandlerInv, Now
  <2>3. \A m \in 1..Len(updates) : updates[m].valid \in BOOLEAN
    <3>1. \A m \in 1..Len(updates) : updates[m] \in UpdateRec
      BY <2>2
    <3> QED BY <3>1, ValidIsBoolean
  <2>4. dll.done > 0 => \E m \in dll.done..Now : dll.valid = updates[m].valid
    <3> SUFFICES ASSUME dll.done > 0
                 PROVE  \E m \in dll.done..Now : dll.valid = updates[m].valid
      OBVIOUS
    <3>1. PICK m \in dll.done..Now : dll.valid <=> updates[m].valid
      BY DEF PdInv, HandlerInv, ValidIsRecent
    <3>2. updates[m].valid \in BOOLEAN
      BY <2>2, <2>3
    <3>3. dll.valid = updates[m].valid
      BY <2>2, <3>1, <3>2, Zenon
    <3> QED BY <3>3
  <2>5. \E m \in dll.done..Now : dll.toggle = (m % 2 = 1)
    <3>1. PICK m \in dll.done..Now : dll.toggle <=> m % 2 = 1
      BY DEF PdInv, HandlerInv, ToggleIsRecent
    <3>2. dll.toggle = (m % 2 = 1)
      BY <2>2, <3>1, Zenon
    <3> QED BY <3>2
  <2> QED BY <2>1, <2>4, <2>5
<1> QED BY <1>1, SpecPd, PTL

(* However the stores of the handler interleave with                       *)
(* iolink_pd_output_read, one read never mixes more than two frames: the   *)
(* last complete one and the one that is being stored.                     *)
THEOREM ProcessDataReadMixesNoThirdFrame ==
  ASSUME LengthsFit
  PROVE  Spec => []ReadMixesNoThirdFrame
<1>1. PdInv => ReadMixesNoThirdFrame
  BY DEF PdInv, ReaderInv, ReadMixesNoThirdFrame, FrameIn, FrameOf
<1> QED BY <1>1, SpecPd, PTL
=============================================================================
