# A TLA+ development for the iolinki device stack

iolinki is an IO-Link device stack in C. One context (`iolink_dll_ctx_t`) is
stepped by the application's main loop through `iolink_process()`; a master on
the other end of a serial line sends frames and expects an answer to each. This
directory models the parts of the stack that carry its logic, checks them with
TLC and proves the most important facts with TLAPS.

## 1. Inventory

| Part | State | Operations | Talks to |
|---|---|---|---|
| Data link layer (`dll.c`) | state, PHY mode, rate, frame being assembled, fallback count, timers, error counters | `iolink_dll_process`, `dll_enter_fallback`, the frame handlers, the setters | PHY (bytes, mode, rate, wake-up), ISDU (one on-request byte at a time), events (trigger) |
| ISDU engine (`isdu.c`) | collector state, header, request and response buffers, segment number, flags | `collect_byte`, `get_response_byte`, `process` (the services) | called by the DLL; reads and pops events, reads and writes parameters, DLL statistics |
| Event engine (`events.c`) | ring of four events: queue, head, tail, count | trigger, pop, peek, pending, get_all, get_highest_severity | triggered by DLL and application, read by DLL, ISDU and application |
| Parameters and device info (`params.c`, `device_info.c`) | three tags, access locks, a shadow of the NVM | init, get, set, factory reset | called by ISDU; NVM of the platform |
| Data storage (`data_storage.c`) | state of an upload or download, checksum | check, start, process, abort, handle_command | ISDU commands (if wired), storage callbacks |
| Core and process data (`iolink_core.c`) | the global context, `pd_in`, `pd_out`, toggle and valid bits | init, process, `pd_input_update`, `pd_output_read` | DLL context, critical sections |
| Checksums (`crc.c`) | none | `iolink_crc6`, `iolink_checksum_ck` | DLL |
| Platform (`platform*.c`, `platform/`) | clock, NVM, critical section | supplied by the port | everybody |
| PHY (`phy_virtual.c`, `phy_generic.c`) | file descriptor | the callbacks of `iolink_phy_api_t` | DLL |
| Virtual master, tests, examples | | | not part of the device |

What is hard here, and what correctness means:

* **DLL.** Frames are assembled byte by byte over several calls while the state,
  the rate or the PD length may change; errors of several kinds lead to one of
  three exits from communication; timeouts race with late bytes. Correct means:
  no byte is written or read outside `frame_buf`; a frame is handled with the
  meaning it had when it began; giving up leaves a clean state; silence is
  noticed; the counters do not contradict each other; the device comes back.
* **ISDU.** The line may lose, repeat or shift bytes, and data bytes look like
  control bytes. Correct means: only requests that were sent as a whole are
  executed, the master can read every answer as a whole, both buffers hold, and
  no abandoned exchange blocks the engine.
* **Events.** Called from several threads, partly without the lock. Correct
  means: for its callers it is a FIFO that drops its oldest event when full.
* **Parameters.** Three copies of a tag (device info, shadow, NVM), a pointer
  that becomes valid as a side effect of a read, writes that may fail unnoticed,
  restarts at any moment. Correct means: what was acknowledged is what is read,
  and saving one tag does not bring back an old value of another.
* **Data storage.** A transfer is opened by three routes and ended by three,
  while the master may announce another checksum. Correct means: the lock holds,
  what is broken off is not adopted, and the two sides come to agree.
* **Process data.** Tasks use the critical section, the cyclic handler does not.
  Correct means: it is known which mixtures can reach the master or a task.
* **Checksums.** Correct means: what is computed is the polynomial named.
* **The whole device.** The ISDU engine sees one byte per frame through a link
  that falls back and is woken again. Correct means: the DLL keeps to the call
  order the engine needs, and events reach the master in order and once.

`PROJECT.json` lists each hazard at its line with the properties aimed at it.

## 2. Modules

| Module | Models | Uses |
|---|---|---|
| `Dll` | `dll.c` | |
| `MCDllStreak` | `Dll` with a counter of refused frames in a row | `Dll` |
| `MCDllRecovery` | `Dll` with a master that wants OPERATE and a line that corrupts a few frames | `Dll` |
| `DllProofs` | theorems about `Dll` and the streak counter | `MCDllStreak` |
| `EventFifo` | abstract: an atomic drop-oldest FIFO | |
| `Events` | `events.c`, statement by statement, with threads and lock | `EventFifo` (refinement) |
| `EventsProofs` | theorems about the ring of `Events`, and that it implements `EventFifo` | `Events` |
| `Isdu` | `isdu.c` and what it does to tags, locks and events | |
| `MCIsdu` | `Isdu` with observers of the request bytes and of the answer | `Isdu` |
| `MCIsduQuiet` | `Isdu` with a master that stops requesting | `Isdu` |
| `IsduProofs` | theorems about `Isdu` | `Isdu` |
| `IsduLineProofs` | theorems about whole requests and answers | `IsduProofs`, `MCIsdu` |
| `DataStorage` | `data_storage.c`, the state machine | |
| `Params` | `params.c`, `device_info.c`, the NVM | |
| `ParamServer` | the requests and application calls that drive both, and power losses | `Params`, `DataStorage` |
| `MCParamServer` | `ParamServer` with a master that settles on one checksum | `ParamServer` |
| `ParamServerProofs` | theorems about `ParamServer` | `ParamServer` |
| `ProcessData` | `iolink_pd_input_update`, `iolink_pd_output_read` and the copies of the cyclic handler | |
| `ProcessDataProofs` | theorems about `ProcessData` | `ProcessData` |
| `Checksums` | `crc.c` and `iolink_ds_calc_checksum` | |
| `ChecksumsProofs` | theorems about what the two checksums detect | `Checksums` |
| `Device` | DLL, ISDU engine and event queue together | `Dll`, `Isdu` (instance) |
| `MCDevice` | `Device` with a master that sends one request over and over | `Device` |
| `DeviceProofs` | theorems about the composed device: call order, and delivery of events | `MCDevice` |

### Dll

The variables have the names of the fields of `iolink_dll_ctx_t`. Time stamps
are replaced by the only thing the code asks of them: `armed` and `idle` stand
for `last_activity_ms` and its age, `gap_over` for "the inter-byte limit is
over", `t_pd_active` and `dwu_active` for deadlines that lie ahead,
`cycle_started` for `last_cycle_start_us # 0`. Of a frame only its first byte is
kept, as one of the three kinds the DLL distinguishes; whether the checksum is
right is a choice of the environment. `out` records what a step asked of its
neighbours: on-request bytes to the ISDU engine, events, the response.

One call of `iolink_dll_process` is a sequence of actions ordered by `pc`:

| `pc` | Actions | `dll.c` |
|---|---|---|
| idle | `Begin` | 259-279: ISDU, diagnostics, inactivity |
| gate | `TPdDrain`, `SioPoll`, `SilenceCheck` | 281-315 |
| dwu | `DwuWait`, `DwuOver` | 317-321 |
| loop | `RecvByte`, `LoopEnd` | 324-377 |
| frame | `FrameBadCrc`, `FrameRejected`, `FrameTransition`, `FrameType0`, `FrameCyclic` | 377-455 |

The setters run between two calls, from the same main loop. Those of the PD
length and of the timing checks are always there. `iolink_dll_set_baudrate`,
`iolink_dll_set_sio_mode` and `iolink_dll_set_sdci_mode` (`SetBaudrate`,
`SetMode`) take the context, which an application that only uses `iolink.h` does
not have, and are there where the constant `ModeSetters` is TRUE, for an
application that owns the context as `tests/test_baudrate.c` does. The configured
PD length is any byte, since `iolink_init` checks none; after a copy that leaves
its buffer nothing is modelled any more. `Tick`, `ByteGap`,
`DwuElapsed` and `TPdElapsed` let time pass between any two steps; `MasterGone`
ends the traffic for good. The counters `voltage_faults` and `short_circuits`
only mirror the two diagnostic events and are left out. The test
`last_byte_us # 0`, false only for a byte stamped with microsecond 0, is taken
to be true. A PHY that has no `detect_wakeup` or no `send` callback is not
modelled: such a device never leaves SIO mode, or never answers.

### Events

Each statement that another thread could look into is a step. The lock is a
mutex, as `platform.h` asks of a port (the default in `platform.c` is a no-op
and relies on a single thread). `FifoSpec` maps the ring to the queue its
callers see: a trigger that finds room takes effect when it counts its event,
one that drops the oldest takes effect with the drop. With a queue of one event
that mapping fails: in the middle of a trigger the count would pass through 0
and an unlocked `pending` would miss an event; the configured size is 4.

### Isdu

Bytes and buffers are real bytes, since the encoding (START, LAST, six-bit
numbers, lengths in a nibble or a byte, big-endian fields) is what the
properties are about. `turn` keeps the order in which the DLL calls the engine.
A response is kept as far as it was written for this answer; `response_len` is
reduced to eight bits as the code does. The event queue is the FIFO that
`Events` is shown to implement. The module starts with `g_device_info` set, as
`iolink_params_init` leaves it when the NVM is empty; every text of the device
info is present. `ds_ctx` is NULL, since `iolink_dll_init` does not set it:
the data storage commands are acknowledged and do nothing.

### Params, DataStorage and ParamServer

Texts are abstract: what matters is which tag is where, and that a text longer
than 32 bytes is refused (application tag) or cut (the others). The application
tag passes through a cast to `uint8_t` (`params.c:100`), so a text of 256 to 288
bytes, one of `WrappedTexts`, is taken for its first `len - 256` bytes (`Rest`)
by the device info, which accepts it, while the shadow takes 32. A write of the
access locks with fewer than two bytes is acknowledged and changes nothing
(`WriteLocksShort`, `isdu.c:585`). `phase` is
"boot" until `iolink_init` has run; `Restart` sets the static variables back and
keeps `nvm`. A user-supplied device info is read-only, has its own tag and no
locks. `Platforms` says what a successful write does: replace the record
("cell", what `params.c` expects of a port), append to the file and leave the
first record in place ("file", the Linux port, which opens with `a+b`), or never
succeed ("none", the weak stubs). A read of the NVM at start may fail although
there is a record. Power loss within a write is a failed write and a restart.

`DataStorage` has one operator per entry point. The state LOCKED is never
entered. `ParamServer` calls them the way `handle_system_command` does, with
`ds_ctx` wired as `tests/test_isdu.c` wires it (`iolink_dll_init` does not), and
lets the application call `iolink_ds_handle_command`, `iolink_ds_check` and
`iolink_ds_process`. Its variables `acked`, `meant`, `durable`, `known`,
`transfer` and `accepted` are history: no guard reads them.

### ProcessData

A byte of `pd_in` is known by the number of the update that wrote it, a byte of
`pd_out` by the number of the frame. The copies go byte by byte in any order, as
`memcpy` may. The configured lengths are any bytes, as `iolink_init` takes them;
`CopiesFit` says that no copy leaves its buffer, and holds when they fit. There
are two platforms. "loop" is the default: hooks that do
nothing and one thread that makes every call. "irq" has a task per caller and
hooks that keep everybody else from running, as `platform.h` asks of a port. The
handler takes no lock on either: on "irq" one response may mix several updates
and one read may find half a frame, although `CHANGELOG.md:265` says all process
data was wrapped in critical sections (`docs/API.md:328` says the stack is not
thread-safe). `ResponseIsRecent` and `ReadMixesNoThirdFrame` say how far that
goes: on "loop" a response is of one update, on "irq" it is never older than the
frame, and a read never sees three frames.

### Checksums

`tx` and `rx` are the registers of the two ends, fed byte by byte; the cable
flips up to `MaxFlips` bits. A byte of a frame, and the 8-bit register, is the
set of its bits that are one: exclusive or is the symmetric difference, and the
left shift of `crc.c:30` (`Doubled`) drops bit 7 and moves the others up. The
reference definition, `PowerOfX`, divides by
x^6 + x^4 + x^3 + x^2 + 1 in six bits and knows nothing of the shifted register.
`CrcEnd` is the zero byte that `iolink_checksum_ck(mc, 0)` appends in a two-byte
frame. The polynomial has order 15, so two flips that are 15 powers of x apart go
unnoticed in any frame long enough; `PairsAre15Apart` says that these are the
only pairs that do, and `BurstsAreRefused` that flips within six bits never do,
however many they are. The data storage sum is fed with a set of parameters and
a changed copy; its bytes are numbers.

### Device

A step of `Dll` says what it asks of its neighbours; `todo` holds those calls in
the order of `dll.c` and each is a step of `Isdu` (an instance whose variable
`state` is `isdu_state`). No step of `Dll` happens before they are made.
`MCDevice` adds a master that wakes the device, may take it to cyclic exchange,
sends the segments of one request in Type 0 or cyclic frames, listens to the
answer segment by segment, and begins again; a frame that is not answered it
sends again. The cable corrupts three of its frames (as many as lead to SIO), once
it abandons a request or an answer. Kept simple here, since `Dll` alone covers
them: timing checks are off, the bytes of a frame come without a pause, the
master waits for each answer, and no response is lost on the way back.

## 3. Runs

Runs that pass:

| Run | Question | Bounds |
|---|---|---|
| `Dll_safety` | Do the invariants and the two action properties hold for any traffic, when the application leaves rate and mode to the stack? Does silence then end in SIO and STARTUP, unless the device was just woken and heard no byte? (With the counter of `MCDllStreak`.) | one PD byte, one OD byte, threshold 3 as in the code, inactivity limit one tick, timing checks switched on and off, a clock that does not read 0 when a byte arrives, counters saturating at 1 (the inequalities between saturated counters follow from those between the counters, and a missed count shows at 1) |
| `Dll_setters` | Do the buffers hold and does every long frame find a handler, when all setters are called at any moment and the clock may read 0? | PD lengths 0, 1 and the refused 33, power-on delay, t_ren limits 0 and 500, no error counters |
| `Events` | Ring and refinement | two threads, queue of 4, all severities, buffers smaller and larger than the queue |
| `Isdu_line` | Whole requests, whole answers, buffers, events at any moment | right and wrong numbers, numbers about to wrap, lengths 0, 2 and extended, an index of every kind of answer length, a queue of one event so that it overflows |
| `Isdu_quiet` | Does an abandoned exchange end? | every state of the engine, every kind of service |
| `ParamServer` | Acknowledged values, saved records, the lock, broken off downloads, agreement on a checksum | two tags (the third is handled like the second), one written text of up to 32 bytes and one of 33 to 255 (for more see below), three checksums with 0 for "no data", all three platforms, any number of restarts |
| `ProcessData` | Copies within the buffers, serial updates, recent responses, reads of at most two frames | two producers, one reader, buffers of two bytes, lengths 1, 2 and the refused 3, two updates and two frames (with the initial contents, three to mix) |
| `Checksums` | Accepted frames, bursts, pairs of flips, changed parameters | frames of 2 and of 4 to 8 bytes over two byte values, up to three flips in short and two in longer frames; a CRC is linear, so the data hardly matters and the positions are complete; four parameter bytes with both aliases of 0 |
| `Device` | Call order, order of the delivered events, number of the lost ones; is every event received that is not dropped or aborted? | the queue of four of the code, two events of the application beside the framing errors, so that several wait together and some are dropped, three corrupted frames, one abort |

Frames longer than a few bytes add nothing to `Dll` but length; the theorem
`DllFrameFits` covers every length. Buffers of 256 bytes are never filled by
TLC; `IsduBufferFits` covers them. `Checksums` stops when the message is
complete; every other run checks deadlock.

Runs that end in a violation, each of a sentence of the repository:

| Run | What the repository says | What the code does |
|---|---|---|
| `Dll_recovery` | full functionality is restored (`test_conformance_error_injection.py:243`) | COM1 is never left, so OPERATE is never reached again |
| `Params_restart` | the application tag persists across reboots (`test_pd_variable.py:89`, `CONFORMANCE.md:169`) | `g_device_info` is NULL when the stored tag is handed over, and the tag is refused |
| `Device_type0` | ISDU writes work over Type 0 (`SERVICES.md:30`, `CHANGELOG.md:255`) | segment 15 is the byte of the transition command; a write of 13 bytes is never executed. `CHANGELOG.md:121` and `test_conformance_error_injection.py:147` avoid the case in the tests |

Where a property has a condition, TLC finds it violated without it, by setting
the constants named here in the cfg. In each case a sentence of the repository
says otherwise:

* *Configured lengths.* `CONFORMANCE.md:86` says that a PD length above 32 is
  rejected. `iolink_dll_set_pd_length` does so; `iolink_init`
  (`iolink_core.c:47-48, 70-79`) checks nothing. With `PdOutLen = 33` in
  `Dll_setters.cfg` a cyclic frame is copied past `pd_out` and `FrameFits` fails;
  with `PdInLen = 3`, more than its buffer of two, in `ProcessData.cfg` the
  handler reads past `pd_in` for its response and `CopiesFit` fails.
* *Clock value 0.* `FRAMES.md:41` says that the device resets to STARTUP if no
  bytes are received for more than 1000 ms. The value 0 of `last_activity_ms` also
  means "no byte yet" (`dll.c:271, 326`). With `ClockMayBeZero = TRUE` in
  `Dll_safety.cfg` a last byte in millisecond 0, at power-on or when the 32-bit
  clock wraps, leaves the device in SDCI mode for ever: `SilenceEndsInSio` fails,
  and `PartialFrameIsTimed` with it.
* *A wake-up and no byte.* The same sentence: the timer is armed by a byte only
  (`dll.c:293-298`), so a device that is woken and hears nothing stays in
  AWAITING_COMM. Without its clause about that state `SilenceEndsInSio` fails.
* *Locks after a start from the NVM.* `CHANGELOG.md:218` says that index 0x000C
  can be written, `data_storage.h:153` that a download command is given its state.
  After a start with a valid record `g_device_info` is NULL until something reads
  it; a lock that is written before is acknowledged (`isdu.c:589`) and dropped
  (`device_info.c:97`), and the download is accepted. `LockIsObeyed` fails with
  `Resolved` in place of `known`.
* *Long application tags.* `params.h:46-48` says that `len` is the length of the
  data and 0 means success. With a text of `WrappedTexts` in `Written`
  (`ParamServer.cfg`) the call returns 0 and the tag reads as a shorter text:
  `ReadsAsAcknowledged` fails.

Smaller differences between text and code, visible in the modules and not worth
a run each: valid Type 0 frames do not clear the count that `dll.h:105` calls
consecutive (`FrameType0`); the receive loop goes on after the fallback that
switched the PHY to SIO (`LoopEnd`, `dll.c:324`); BUSY and unknown-service
answers do not start with number 0, against `isdu.c:118` (`Collision`,
`BadService`); a t_ren limit of 0 restores the default instead of disabling the
check, against `dll.h:235` (`SetTRenLimit`); a fallback triggers the code 0x1801
of `protocol.h:100`, not the framing error 0x1803 of `events.h` (`FramingCode`).

## 4. Fairness

`Dll!Fairness`: the main loop keeps calling `iolink_process`, each call returns
once the receive FIFO is empty (weak fairness of the process steps), time passes
and the power-on delay ends. Nothing is assumed of the master, and of the
application only that it leaves rate and mode to the stack. `MCDllRecovery` adds the master's side: it keeps sending, and a
device in SIO mode does not stop the clock. `MCIsduQuiet` assumes that frames
keep coming (each is a collect and a get call) and that `iolink_isdu_process`
is called again and again between them; that one is strong fairness, because
the two calls of a frame disable it in between. `MCParamServer` assumes, once
the master has settled, that the application goes on calling `iolink_ds_check`
and `iolink_ds_process`, as `tests/test_ds.c` does. `MCDevice` assumes that the
device keeps running and its responses arrive (weak), and that again and again
the master sends a byte when it may and time passes while the device is in SIO
mode (strong: the steps of the device disable both in between).

## 5. Theorems

Proved for every value of the constants that satisfies the named assumptions:
`DllConstants`, `EventsConstants`, `BytesConstant` and `IsduConstants`,
`ParamsConstants`, `NoDataConstant` and `WrittenConstant`, `PdConstants` and
`PdTasks`, `ChecksumConstants`, `DeviceConstants` and `MasterConstants`. They say
what the declarations of the code say (sizes, widths, that a cut text is a text)
and are evaluated in the runs. `DeviceConstants` also asks two things of the
application: that its event codes fit in the two bytes `isdu.c` answers with, the
first of them neither 0 ("no event") nor 0x80 (an error), which the codes of
`events.h` obey; and that no identification text has index 2, which the code
looks for only after its services for index 2.

### Dll (`DllProofs`)

Three hypotheses appear, each where it is needed and nowhere else: `ConfigFits`
(the configured output length is at most 32, which `iolink_init` does not check;
without it see section 3), `~ModeSetters` (the application leaves rate and
mode to the stack) and `~ClockMayBeZero` (see there too).

* `DllTypeCorrect`, `DllLongFrameIsHandled`: without a hypothesis.
  `DllFrameFits`: with `ConfigFits`. `DllLongFrameIsCyclic`,
  `DllSioAboveComOneIsFresh`, `DllLeavingSdciIsClean`: with `~ModeSetters`.
  `DllOperateIsCyclic`: with both. The invariant is `TypeOK /\ LinkInv`.
  `Assembly` (a frame is handled as soon as its length is reached) and
  `LongFrameIsHandled` hold whatever is called, `LengthFits` with a configured
  length that fits, and `StackInv` when rate and mode are the stack's:
  `OperateIsCyclic` is not inductive, since that the frame handled in OPERATE is
  a long one needs the length it was given at its first byte
  (`LongFrameIsCyclic`), and that a long frame is only begun in SDCI mode needs
  `SioAboveComOneIsFresh`, as the receive loop does not look at the mode. There
  is one lemma per action.
* `DllErrorAccounting`: every step counts a set of errors that is `Balanced`
  (with each counter the ones it must not exceed), and counting such a set keeps
  the inequalities between saturating counters. It needs no hypothesis, and
  includes the violations of the power-on delay, which the runs leave out.
* `DllPartialFrameIsTimed`, under the hypothesis `~ClockMayBeZero`: a byte that
  arrives at millisecond 0 leaves the timer unarmed, and the property is then
  false.
* `DllOperateFallbacksAreConsecutive`, with `ConfigFits` and `~ModeSetters`: `StreakInv` adds that in OPERATE the
  count of fallbacks is at most the number of frames refused in a row, which is
  so because OPERATE is entered by a frame that clears both. Outside of OPERATE
  it need not be: a valid Type 0 frame ends the row and not the count.

### Events (`EventsProofs`)

* `EventsTypeCorrect`, `EventsRingConsistent`, `EventsLockProtects`: for every
  queue size and set of threads. The invariant is the type invariant, mutual
  exclusion and `RingConsistent`, whose clauses about the middle of a trigger
  and of a pop make it inductive.
* `EventsImplementFifo`: for two or more places every step of `Events` is a step
  of `EventFifo` or changes nothing that `EventFifo` shows. The refinement
  mapping reads the queue off the ring; a trigger takes effect when it counts
  its event, or, when the queue was full, when it drops the oldest one, so
  `TriggerInv` carries what a half-done trigger has written. For
  a queue of one place the refinement does not hold: a trigger that drops an
  event counts down to 0 before it stores the new one, and
  `iolink_events_pending`, which takes no lock, may answer in between that there
  is none. The default size is 4 (`config.h:43`).

### Isdu (`IsduProofs`, `IsduLineProofs`)

* `IsduBufferFits`: for every set of bytes the master may send in each state.
  The invariant adds the types of the request's fields; that a length of 0
  stands for one byte, and that SEGMENT_COLLECT remembers DATA_COLLECT in
  `next_state`, are what carries it.
* `IsduTypeCorrect`, `IsduResponseFits`: the invariant `IsduInv` adds that the
  index is at most 65280 whenever its low byte may come next (so that it stays
  below 65536), and the types of tags, locks and events. Lemma `ServiceAnswers`
  goes through the services: each answers with bytes or falls silently to IDLE.
* `IsduResponseIsWhole`: for responses of every length a byte can hold, so that
  the numbers wrap at 64, where TLC sees only short ones. `RxInv` says what a master that follows the control bytes has
  while it reads (the first `response_idx` bytes, the engine's number or
  the one before it) and after.
* `IsduRequestIsWhole`: for every request, with the numbers wrapping at 64 and
  data of up to 255 bytes. `LogInv` relates the bytes since START to the state:
  `Numbered` the control bytes, `Parsed` the header fields and the buffer,
  `Stage` how far the request has come.

### ParamServer (`ParamServerProofs`)

`ParamServerTypeCorrect`, `ParamServerReadsAsAcknowledged`,
`ParamServerSavesAllTags`, `ParamServerLockIsObeyed`,
`ParamServerBrokenOffIsNotAdopted`, for any texts and tags, all platforms, any
failed writes and any power losses. `ParamServerReadsAsAcknowledged` has the
hypothesis `NoneWrapped`: no text that is written has more than 255 bytes (else
see section 3). It speaks of the application tag and the locks, and
`ParamServerLockIsObeyed` of the lock, where the device info was the default one
when `iolink_params_init` ran; after a start from the NVM both fail (see
`Params_restart` and section 3). The invariant `ServerInv` adds that the
shadow of the parameters is what was meant (`ShadowIsMeant`), that the device
info agrees with what was acknowledged where it is the default one
(`DeviceAgrees`, `TagsAgree`), what a device that is starting holds
(`BootIsClear`), and that a data storage state of downloading stands for a
download that was opened and not broken off (`DownloadIsFollowed`).

### ProcessData (`ProcessDataProofs`)

`ProcessDataTypeCorrect`, `ProcessDataCopiesFit`,
`ProcessDataRestingInputIsSerial`, `ProcessDataResponseIsRecent`,
`ProcessDataReadMixesNoThirdFrame`, for any number of producers and readers, any
buffer sizes, any lengths handed to the calls and any number of updates and
frames, under the hypothesis `LengthsFit`: the configured lengths fit the
buffers, which `iolink_init` does not check (else see section 3). The
invariant `PdInv` is mutual exclusion (`Exclusive`) and,
for each of the four parties in the middle of its copy, what it has written or
read so far: `InputInv` (each byte is of the last update, or of the one under
way if it has been copied), `OutputInv`, `HandlerInv`, `ReaderInv`.

### Checksums (`ChecksumsProofs`)

* `ChecksumSeesChange`: for parameters of any length. `StoreInv` says where a
  change is kept: a changed byte leaves `sum1` different for good, two swapped
  neighbours leave `sum1` alone and `sum2` different for good. That is addition
  modulo 255, in which only 0 and 255 are the same byte.
* `FrameCheckRefusesBursts`: for any data, any number of flips and every frame
  length. The register is linear (`Shift8Linear`), so that the difference `Err` of
  the two registers depends on the flips alone; and its two low bits are 0 after
  the first byte, so that eight turns lose nothing (`UpperStays`). `BurstInv` adds
  what the property does not say: where all flips so far lie within six bits and
  in the last byte, `Err` is what those bits leave, as a burst may go on in the
  next byte or in the check byte (`BurstInTwoBytes`, `BurstAtEnd`).
* `PairsTakenAre15Apart`: one flipped bit leaves a power of x in `Err`
  (`IsPower`), eight turns multiply it by x^8 (`PowerTurns`), and the fifteen
  powers differ, so a second flip cancels the first only where the exponents
  agree modulo 15. `PairInv` carries the exponent from byte to byte.

### Device (`DeviceProofs`)

* `DeviceCallsKeepTurn`, for one or two on-request bytes, any request of the
  master, any faults, aborts and events. `CallsInv` describes the calls a step
  has left: events and `iolink_isdu_process` only, or, with `send` as the call
  number `s` and `n` bytes unanswered, events, then `n` pairs of collect and get,
  of which the first may be half done, then send, then events. This is what
  justifies `Isdu`'s variable `turn`: the composition never asks the engine for
  a call that its module does not allow.
* `DeviceDeliversInOrder` and `DeviceLosesOnePerAbort`, for a master that reads
  events (`Request = ReadEvent`; the answer to another request may look like an
  event code, and the properties are about this one), for one or two on-request
  bytes per frame, any queue size, any codes, patience, number of corrupted
  frames and number of aborts, as long as responses arrive.

The two properties speak of what came out at the end; neither is near to being
inductive. `DeliveryInv` follows the exchange itself. Master and engine are two
machines that walk over the same bytes, and a frame moves them at different
steps: `Taken` is how far the engine is in the master's cycle, the calls of the
frame at hand included, and `Virtual` what the master will have received once its
response is sent. `InStep(c)` says how the two stand, `c` being the code on its
way (0 for none):

| | engine | master | events lost so far |
|---|---|---|---|
| `Requesting` | in the state that the first `Taken` bytes lead to | has received nothing | at most the aborts |
| `Answering(c)` | has given out `Given` bytes of the answer `c` | has exactly those | one more if `c` is an event |
| `OutOfStep` | busy with an older request, refusing the new one, or idle after it | hears nothing | at most the aborts, less one if the older request is still to be executed |

An abort leads to `OutOfStep`: the old request may still be executed and its
answer be given out while the master does not listen, so `Stale` reserves a loss
for it; a new START byte makes the engine answer BUSY, whose two bytes with
their control bytes are over before the master has sent its own eight, after
which the master's patience ends and the next cycle is in step. The rest of the invariant is what this needs: the
exact calls of a frame (`TodoInv`), that a complete request is executed before
the next frame (`PcInv`: the master waits, and `iolink_dll_process` begins with
`iolink_isdu_process`), that the queue holds the last events triggered
(`QueueInv`), and `Ordered(c)`: the events received are `triggered[d[1]]`,
`triggered[d[2]]`, ... for an increasing `d`, below the place of `c`, and all of
them have left the queue. There is one lemma per call of the engine and mode
(`CollectRequesting`, `GetAnswering`, ...) and one per action. TLC checked
`DeliveryInv` as an invariant before it was proved, on small instances (a queue
of one or two, one or two on-request bytes, up to two aborts).

## 6. Only model-checked

* Liveness (`SilenceEndsInSio`, `QuietEndsInIdle`, `SyncSettles`,
  `EventsReachMaster`), which is out of the prover's reach.
* `AcceptedIsMultiple` of `Checksums`: its reference definition is recursive over
  the exponent and folds over the flipped bits, and the provers have no
  induction for either. What it implies for bursts and for pairs is proved.

Every other invariant and action property that a passing run checks is a theorem.

## 7. Plan

What the plan set out to model and to prove is done. A next step would be a line
that loses responses on the way back: the code has no retry number, so the
engine takes a repeated frame for a new byte, and the properties of `MCDevice`
would have to be restated for it.

## 8. Not modelled

* PHY drivers (`phy_virtual.c`, `phy_generic.c`): pure I/O and stubs. What the
  DLL uses of the interface is the environment of `Dll`.
* The virtual master, the test tools, the examples and the Zephyr glue: not part
  of the device. Their loops are the fairness of section 4.
* Clocks (`time_utils.c`): reading them is I/O; `Dll` lets time pass.
* Getters that return a field (`iolink_get_state` and its like).
