# A formal model of the Creator 5 firmware

The repository is the firmware of a 3D printer: a modified Klipper host
(`src/software/klipper`) that turns G-code into commands for four
microcontrollers, the scripts that update the operating system
(`src/kernel/.../etc/ota_bin`), installation scripts, and binaries. These
modules model the parts whose correctness depends on the order in which several
actors take their steps, and check and prove what makes those parts correct.

Paths below are relative to `src/software/klipper` unless they start with `src/`.

## 1. Inventory

| Component | State it keeps | Operations | What is hard |
|---|---|---|---|
| Reactor (`klippy/reactor.py`) | timers, next wake-up, running and spare greenlets, completions, the queue of other threads | register/update/unregister timer, pause, complete, callbacks, dispatch loop | a callback that pauses is left in the middle of a scan which another greenlet goes on with |
| Reactor mutex (`klippy/reactor.py`) | is_locked, next_pending, queue, one timer per paused greenlet | `__enter__`, `__exit__`, `test` | hand-off: the lock stays locked while it is passed by one timer update |
| G-code input (`klippy/gcode.py`) | pending_commands, is_processing_data, the descriptor | read, process a batch, M112 out of order | calls overlap; flow control; a command taken out of order |
| Print job (`extras/virtual_sdcard.py`, `pause_resume.py`, `print_stats.py`) | file, positions, work_timer, must_pause_work, tool-change and interception flags; is_paused; the reported state | the worker greenlet; PAUSE, RESUME, CANCEL_PRINT, CLEAR_PAUSE, SDCARD_PRINT_FILE, SDCARD_RESET_FILE, M23 to M26; the screen's reports (tool loaded, SDCARD_SET_CHANNEL) | the worker yields inside and between scripts; stops poll for it, some of them inside the mutex; every flag may be changed by another greenlet across a yield |
| Filament sensor (`extras/filament_switch_sensor.py`) | filament_present, min_event_systime | run-out and insert handlers | pauses a print from outside the mutex, in two steps with a delay between |
| Tool head, idle time-out (`klippy/toolhead.py`, `extras/idle_timeout.py`) | print_time, special_queuing_state, the look-ahead queue, how far steps are generated and sent, three timers; the idle state | move, dwell, wait, homing move, set position; flush, priming and idle timers | commands, timers and a paused greenlet push the same time line, which must stay ahead of the boards' clocks |
| Heaters (`extras/heaters.py`, `verify_heater.py`) | targets, which extruders may heat, the queue of those that wait | M104, M109, TURN_OFF_HEATERS, the queue's timer | the timer changes the lists while an M109 polls them |
| Trigger dispatch (`klippy/mcu.py`, `chelper/chelper/trdispatch.c`) | each board's time-out, the host's knowledge of it, the trigger completion | start, report, extend, pass on, stop, query | several boards stop together over late links; three threads |
| Serial queue (`chelper/chelper/serialqueue.c`, `klippy/serialhdl.py`) | sequence numbers, sent queue, pending queues, two timers, notifications, receive queue | send, pull, command_event, retransmit_event, handle_message | three threads, a lossy wire, a few sequence numbers, acknowledgements that are not requests' ends |
| System update (`src/kernel/ota_kernel_emmc/ota_v1/rootfs_extracted/etc/ota_bin`) | two slots of partitions, the marker of the slot to boot, files in /tmp/ota | two scripts that fetch, writers in the background that copy | power cuts, failed writes, writers that outlive their script |
| Printer life cycle (`klippy/klippy.py`) | state message, in_shutdown_state | connect, ready, shutdown, restart | handlers that fail half way |
| Homing and probing (`extras/homing.py`, `e_stop.py`, `probe.py`) | positions, retries | homing moves one after the other | retries; a pause in every move |
| Clock synchronisation, step generation, kinematics, bed mesh, drivers, configuration, webhooks, macros | mostly numbers and text | | not control |
| Installation, recovery system (`src/*/run.sh`, `etc/ota_bin/*recovery*`) | files | copy, flash, update | partial failure |

**How they interact.** All Python code but the serial thread runs in greenlets
of one thread. A greenlet runs until it pauses, waits or waits for the mutex. A
*client* (the pty or a connection of the webhooks) runs its commands inside the
G-code mutex. The print worker is a greenlet too: it enters the mutex once per
script, and has a fast path for moves that it takes only when the mutex is free.
Commands that stop a print set `must_pause_work` and poll until the worker has
gone; the worker itself is only told by this flag. Commands append moves to the
tool head; what is left in its queue is pushed by timers. Scripts end as messages
in the serial queue, whose C thread sends them; the answers come back through a
second Python thread to a completion of the reactor. Homing takes a short cut: a
C thread passes a trigger of one board on to the others. A shutdown is an event that
each component handles in its own way. The update scripts and the host share nothing
but the file system.

**What makes each correct.** Reactor: no timer forgotten, none called that was taken
out, another thread's call seen. Mutex: at most one inside, no hand-off lost, first
come first served. Input: every line run once and in order, input that was stopped
starts again, an M112 is heard. Print job: no line lost or repeated over any number of
pauses; a stop stops and returns; the reported state is the real one; every move
with the right tool; nothing after a shutdown. Tool head: a move starts after the steps
already generated, the boards never run out of steps, what was queued is made; a printer
left alone turns its heaters off. Heaters: no more than two at full power, off
stays off, M109 ends. Triggers: all boards stop together, and the report is of this
move. Serial queue: each message run once and in order, the board's buffer not overrun, every query answered, the
clock fed with right samples. Update: the device can boot at any moment, the
running system is not overwritten, scripts and writers end. `PROJECT.json` lists the
hazards behind these, line by line.

## 2. Modules

| Module | What it models |
|---|---|
| `Reactor`, `ReactorProofs` | the dispatch loop, timers, greenlets and other threads |
| `FifoLock` | abstract specification: a lock that serves those who ask in turn |
| `ReactorMutex` | the mutex of `klippy/reactor.py` 65-92, with the timers of its greenlets; implements `FifoLock` |
| `GcodeInput`, `GcodeInputProofs` | the pty's input, composed with `ReactorMutex`; the proofs are about both |
| `PrintJob`, `PrintJobProofs` | the worker and the users of a print, on the promise of `FifoLock` |
| `MoveQueue`, `MoveQueueProofs` | the tool head's time line with its timers, and the idle time-out |
| `Heaters`, `HeatersProofs` | the extruders' queue, the commands that wait, the plant |
| `TriggerDispatch`, `TriggerDispatchProofs` | homing moves over several boards |
| `SerialQueue`, `SerialQueueProofs` | the host's end of the link to a board, the wire and an external board |
| `OtaUpdate`, `OtaUpdateProofs` | the update scripts, the writers, the partitions, boots |
| `MC...` | values of constants for TLC |

**Reactor.** The variables are the attributes of `PollReactor` and of one completion;
`scan` is what the loop of `_check_timers` has still to look at, `job` whose callback
each greenlet is in the middle of. The code between two switches of greenlets is one
thread's, but the clock and other threads go on, so it is cut into the steps of the
loop (`Check`, `Due`, `NotDue`, `ScanEnds`, `PollFd`, `PollPipe`, `Drain`) and of
callbacks, which may register, move or take out any timer, complete, wait, pause and
return (`CallbackStep`, `CallbackEnds`). `PauseDispatch` is the first pause of a callback:
another greenlet takes the loop over. `BackToLoop` and `PauseAgain` are the ways of a
greenlet that is switched to. Another thread's call is two steps: `PostPut`, `PostWrite`.

**ReactorMutex.** One variable per attribute and a timer per greenlet; an action
per piece of code between two pauses: `Acquire` and `Block` are the two ways
through `__enter__`, `Wake` the loop after a pause, `Exit` is `__exit__`.
`ServesInOrder` is the refinement: mapping `queue` and `place` to the lock of
`FifoLock`. `PrintJob` uses that lock: `Request`, `Rerequest`, `Release`, `Grant`.

**GcodeInput** extends it: `ReadData` is a call of `_process_data` up to its return or
to its loop, `Loop` takes the list and asks for the mutex, `RunLine` calls the handler
of one command, `BatchEnds` leaves the mutex. Between `BatchEnds` and `Loop` or
`LoopEnds` nobody else runs (`loops`), as the code does not yield there. A command is an
M112 or not; a line that a read ends inside of comes with the next one.

**PrintJob.** `sd`, `pr` and `stats` are the attributes of the three Python
objects, `work` the locals of `work_handler` and where it is, `upc` where each user is
inside its command. `cpu` names the greenlet that runs: a step that leaves it at
its greenlet continues without a yield, so a step of the model is the code between
two possible yields and no more interleavings are allowed than in the reactor. An
action `Work...` is a piece of the worker's loop, in the order of the code; an
action `Run...` or `...Done` is a command up to its wait and from there. A line of
the file is one of nine kinds, those the loop tells apart. A read returns `Chunk`
lines. A script may fail, crash (an exception that the loop does not catch), or yield.
A script that a shutdown finds on its way goes on, as a move that is held back returns normally, and
one that starts later is refused (`GoesOn`). The screen is a user that reports: it has loaded the
tool it was asked for (`RunToolReport`), and SDCARD_SET_CHANNEL names the tool that is loaded
(`RunSetChannel`). `hist` is no state of the program: it holds how many lines have been dealt with,
whether each was the next one, whether a stop has returned, whether a RESUME has started the
worker in a shut down printer (`revived`), and of the screen the tool that is in the head (`tool`)
and whether it and the commands kept to what `RightTool` presumes (`sure`).

**MoveQueue.** `th` is the tool head. Its methods that do not yield are functions from
one such record to the next, so that an action composes them as the code does:
`FlushSteps` is `_flush_lookahead` and then `_advance_flush_time`. Every time is
relative to the boards' clock, which `Tick` moves on, so the model needs no bound on how long the
printer runs: times longer ago than `Past` are not told apart. A move is how long it takes;
a lazy flush of the look-ahead queue hands over any part of it, which stands for the
junction velocities. A command that pauses leaves a place in `at`, and timers run
meanwhile: `PrimingTimer`, `FlushTimer`, `IdleTimer`. An M109 asks for the last move's time at each
look at a busy heater, every second (`LooksAt`, `HoldsOn`), or only waits for its turn, until the
heater is settled (`Held`). `late` is history: a move was
put on the time line before steps that had been generated. A timer is the set of the time it is
set for, empty when it is off, so that being off is not a time.

**Heaters.** A temperature is a level, so that "within five degrees" is equality.
`Adjust`, `Start`, `Enqueue` and `Cool` are the four ways through `set_temperature`;
a command that waits is at a place and looks again and again
(`Warmed`, `Look`, `Heated`); `Tick` is `_check_heater_queue`, with its error when it
takes an out-of-range temperature from the queue, and may come any number of times between two
looks. The plant (`Warm`, `CoolDown`) and
`HeaterFault` are the world and `verify_heater`.

**TriggerDispatch.** Links are queues, late without bound, and may fall silent for
good; a board's half is external (`Obey`, `Hit`, `Expires`, `Reports`). `FastRead` is the C handler in the
serial thread, `Handle` the Python one in the second thread, and `Start`, `Arm`, `MoveEnds`,
`WaitEnds`, `Stop`, `Answer` are the greenlet between its waits.

**SerialQueue.** Messages are numbered as they are given to the queue; times are
dropped and a timer is off, due or due later. One step is one callback of the C
thread (they hold the lock), or one call of a Python thread, except that
`command_event` builds one block per step with the lock held (`filling`). The
firmware's half is external and is modelled by what the host relies on: it runs
blocks that come in sequence, sends responses while it runs a block and the
acknowledgement after it, and answers anything else with the number it expects. The
wire keeps order and may lose. The initial states have every number the
board may expect, since a board is not reset with the host. A notification given before anything
was acknowledged is called "early", for the properties only; the code does not tell it apart (see
section 4). Commands of a block that were given by several threads are notified in the order in which
they were given.

**OtaUpdate.** A partition is the sequence of chunks it holds. The script and
each writer step separately; files in `/tmp/ota` are triples of what they mean, the image,
and the chunk. `Boot` may come at any time and may lose what a writer has not
closed. Some damage is beyond what the scripts can help; `spoilt`, which
is history, records which of the three happened to a slot: a write error, a power cut
before a close, or a writer of an earlier call that was still at work (on this slot, or, as the
calls share `/tmp/ota`, on the other).

## 3. Runs

| Run | Question | Properties |
|---|---|---|
| `reactor` | callbacks that pause, move and take out timers, another thread | NoTimerForgotten, WaiterIsDue, UnregisteredIsQuiet, DueIsRun, PostIsSeen |
| `gcode_input` | the pty and two scripts on the mutex | MutualExclusion, ServesInOrder, LinesInOrder, StopIsHeard, EveryLineRuns |
| `print_stop` | two clients, all stops, failing scripts and reads | ReportsPrinting, ClosesOpenFile, CompleteMeansWhole, StopIsFinal |
| `print_files` | the M commands, a sensor, a PAUSE in the file, a shutdown at any time | ResumesWhereItStopped, ShutdownIsFinal |
| `print_returns` | two tool changes, the screen's reports, failures, stops and a shutdown under a fair reactor | RightTool, StopReturns |
| `print_feed_deadlock` | does a stop return with a deferred feedrate? (violated) | StopReturns |
| `moves` | commands, homing moves and three timers on one time line | MovesStartInTime, StepsAreAhead, MovesAreMade, HeatersGoOff |
| `heaters` | three extruders, two places | PowerBudget, OffStaysOff, WaitEnds |
| `trigger` | two boards, two homing moves, late and silent links | StopTogether, EndIsOfThisMove, NothingLeftOver, HitMeansHit |
| `serial` | losses, a spurious retransmission, an unasked report | RunInOrder, NothingForgotten, NoLateResponse, TimeIsOfItsBlock |
| `serial_heard` | two losses, or a loss and an unasked report: do all messages and queries end? | WindowHolds, EveryMessageRuns, EveryQueryIsHeard |
| `ota` | two calls, failures, a boot at any time | BootsWhole, RunningSlotUntouched, WritersLeave, ScriptEnds |

Each property of a passing run has a mutant in `PROJECT.json`: a plausible slip in
the code that the property finds.

**Bounds, and why they are enough.**
Reactor: two dispatch greenlets, so that a callback pauses, another loop runs and
pauses, and no spare is left (the guard then makes it wait, as memory would); one
repeating timer and one one-shot callback besides the timers of the greenlets; two
instants. `ReactorProofs` has no bound.
Input: a limit of three pending commands and five lines reach "one runs, three wait, one is
not read"; three greenlets are a holder, the next, and one behind.
Print job: a command that meets another's wait needs two users, two clients in
`print_stop`, a client and the sensor in `print_files`; `print_returns` is about a command
that waits for the worker while the worker is in line, so one client is enough. Files of up to six lines
have, each, the kinds one question is about and are longer than one read where reads matter
(`PlainFiles`: 4 lines, reads of 3). Nothing bounds how often commands are sent.
Tool head: the code's constants keep their order (start 0.5 s < low 1 s < high 2 s; the flush
timer's lead of 0.5 s fits below the low mark, and the start is less than that lead and the drip
lead together), the smallest are one instant; `DelaysInOrder` states what of this order the proof
of `StepsAreAhead` needs. Moves of two instants, a dwell of five, a queue of four: enough to
pass the high mark, to be paused, to run low with moves in the queue and to drain.
`MaxAhead` only keeps commands from adding to a time line that is already near the mark; one
command more takes it beyond.
Heaters: three extruders and two places, as in the printer with one fewer extruder: one waits
in every way the code knows; a temperature in range and one out of range.
Triggers: two boards (each is the other's only witness), two moves (the first leaves, the
second meets), three instants with a time-out of two. `TriggerDispatchProofs` has no bound.
Serial: three or four numbers instead of sixteen with two or three blocks
outstanding keep the relation `MaxPending < SeqSize` of the code (12 < 16) and make
numbers wrap within three or four messages; at most two of losses, spurious
retransmissions and reports together (`MaxEvents`), as a retransmission that is itself lost,
or that crosses a report, needs two.
Update: two images, of one and two chunks as the fetch is one ahead of the copy; two
calls and a boot, the least in which a second call can meet what the first has left
(a second boot adds nothing, as `BootsWhole` looks at every moment).

**Fairness, and why the code gives it.**
Reactor: the loop, returning callbacks, a thread between its two calls, and time go on;
a descriptor that is readable again and again is served (strong fairness of `PollPipe`:
`poll` returns it with the others).
Input: greenlets that are due and descriptors that are readable are served, commands and scripts end.
Print job: the hand-off and each user's
next step are weakly fair; the worker is strongly fair, because its steps need the
cpu, which others take in between, and each pass of `_check_timers` runs every
timer that is due, so nobody can hold it off by coming first every time. No client
has to send a command, no screen has to report a tool change, and a script is
assumed to end.
Tool head: due timers are run, a paused command goes on when its wait is over, time
passes, and an idle script that is tried again and again succeeds at some time (else no
code could turn the heaters off), and so does M109's look, at some time, if it is repeated (strong fairness of
`Held`: the heater settles, or `verify_heater` stops the printer). `FairSpec` spells these out as "infinitely often not due,
or infinitely often done", which is what weak fairness means: ENABLED of those actions is
costly to evaluate.
Heaters: a waiting command, the queue's timer and the cooling go on; a cold heater under
power warms up, or is found not to by `verify_heater`.
Triggers: none; safety only.
Serial: threads, board and the time-out go on; nothing is
assumed of the wire but the bound on losses. Update: a script that runs goes on, and so do the
writers; nobody has to start one.

Deadlock is checked in all runs but `trigger` and `ota`, whose bounds (instants, calls) let
them stop.

## 4. What the checks found

**`print_feed_deadlock`** ends in a counterexample: the worker that leaves with a deferred
feedrate sends it with `run_script` (`virtual_sdcard.py` 971-976) and waits for the mutex,
while PAUSE, M25 or CANCEL_PRINT hold it and poll for the worker (231-232).
Neither goes on. `print_returns` shows that without a deferred feedrate they return.

Seen while modelling; no property of a passing run forbids it, and where one had to be
stated around it this is said.

- Print job. A print cancelled after a tool change leaves `after_channel_g1` set, and
  the first moves of the next print are remembered or replaced. A stop during a tool change
  returns at once, as `cmd_from_sd` is still set (so `StopIsFinal` is checked in files without
  tool change); for the same reason SDCARD_RESET_FILE of a client may be refused as if it came
  from the file (`virtual_sdcard.py:268`, `:777`). M24 after PAUSE leaves `is_paused` set, and
  the next PAUSE stops nothing (`pause_resume.py:62`). The PAUSE of a run-out is lost
  when a print was cancelled and another started during its wait (so `StopIsFinal`
  is checked without a sensor). The last line of a file without a newline is never run
  (`virtual_sdcard.py:680`).
  A RESUME that a shutdown finds in the move of RESTORE_GCODE_STATE returns from it as usual
  (`toolhead.py:445-447`), and `do_resume` starts the worker without a look at the state
  (`virtual_sdcard.py:233-239`); the moves of the file that take the fast path are then queued in a
  printer that is shut down (so `ShutdownIsFinal` is stated up to `revived`). A CANCEL_PRINT that ends the
  wait for a tool change (245) makes the worker record a tool that nobody has loaded (877), an
  SDCARD_SET_CHANNEL in the middle of a print is written over or writes over what the worker records
  (283-284), and M26 may go past a tool change: `RightTool` is stated up to these (`sure`).
- Tool head and idle time-out. The dwells of the idle script put the time line ahead of
  the clock for a moment; a heater turned on in that moment needs no resynchronisation, so
  `sync_print_time` is not sent, the idle timer stays off, and nothing turns the heater off
  (so `HeatersGoOff` starts in another state than Idle). `toolhead.py:372` sends the times of that event in
  another order than `idle_timeout.py:105` takes them; the timer only comes too early and is set again.
- Input. Not heard at once are an M112 that comes alone while another client holds the mutex,
  one in a first read of twenty lines or more, and one behind a stopped input.
- Heaters. When an extruder is started at once, an older request of it may still be queued, and the
  next tick sets the older temperature (`heaters.py:427`; the comments at 452-465 are about
  avoiding this when it is queued or turned off). An out-of-range temperature that was
  queued is refused by the timer and stops the printer (405). An M109 that waits for its turn looks only at
  the list of those that heat, five times a second: when a heater that is warm already gets its place and a second tick
  takes it back between two looks, as after a callback that holds the reactor up, M109 waits for ever with
  the mutex held (445-450; `Missed`, up to which `WaitEnds` is stated). An extruder that
  was started twice is listed twice, and turning it off takes one place back, the other only at the next tick
  (so `HeatersInvariant` says that it has no target and no request, not that it has no place). That a
  heater which has reached its target does not sink below it (`CoolDown`) is an assumption on the plant, and
  `PowerBudget` rests on it. After a shutdown the second loop
  of M109 never ends, with the mutex held, and a RESTART is not served (so `WaitEnds` is stated up to a
  shutdown as well). `verify_heater.py:118` treats a target that has just changed otherwise than its comment.
- Reactor. The return value of a callback that paused is written over a time that was set for its timer
  meanwhile. A descriptor taken out by a callback of the same poll is looked up all the same (`reactor.py:344`, 353).
- Serial queue. `wake_seq` is unsigned (`serialqueue.c:245`): a message other than an
  acknowledgement, with the number 1 and before the first acknowledgement, makes `rseq - 1 - 1` wrap,
  and every notification that waits is given at once, ahead of its response. `SerialRetryCommand`
  asks again then. `NoLateResponse` and `TimeIsOfItsBlock` leave these out; it was met
  while the first was proved. A report of number 2 and the loss of the identify block leave a session without
  an answer until its 5 s time-out. When a report comes at connection while the identify block is on the way,
  the host goes on with the number of the report (`serialqueue.c:167` empties the sent queue), and that
  block, which no window counts any more (518), takes room in the board's buffer besides what is
  sent next. It was met while
  `WindowHolds` was prepared for its proof, and the property is stated up to it (`GivenUp`).
  When a response has acknowledged a
  block and the acknowledgement is lost, the notification waits for other traffic.
- Update. The status of `local_set_next_boot_device` is not looked at (`network_ota_update.sh:582`): when the
  marker cannot be read or written, the script touches `/tmp/ota_boot_set` all the same and reports success, and
  no call before the next boot puts it right. The provider ignores the status of `cat` and reports the image ok; an image is reported
  ok before its partition is closed, so a power cut after the switch may leave a slot that cannot boot.
  `local_ota_update.sh` does not look at `/tmp/ota_boot_set` and, called twice before a boot,
  overwrites the running slot (so `RunningSlotUntouched` is about the network script). Two scripts
  at the same moment share `/tmp/ota` (`network_ota_update.sh:309`), and so do a call and the writers
  that an earlier call left behind: a late "ok" or "done" of theirs is taken for one of the new
  writer's even when they write to the other slot. The proof of `BootsWhole` failed at this before
  `spoilt` counted it.

## 5. Theorems

Proved by TLAPS for every value of the constants, from the named assumptions on
constants (for instance `PrintJobAssumption`: greenlets have distinct names, files are sequences of
line kinds, a read returns at least one line; `MoveQueueAssumption`: delays are natural
numbers, and, for `FlowInvariant` and `BoardsHaveSteps` only, `DelaysInOrder`: the order that the
code's delays have). `ReactorMutex` assumes nothing. Where a theorem holds for some files, sensors or
commands only, its statement says so (`ASSUME ... PROVE`).

- `MutexInvariant`, `MutexExcludes`, `MutexHandsOver`, `MutexServesInOrder`: for any
  set of greenlets. `MutexInv` is inductive: the queue has no repetition and holds exactly
  the paused greenlets, `next_pending` implies that the head's timer is due and nobody is inside,
  and the lock is marked taken while someone is inside or a hand-off is
  under way. Mutual exclusion alone is not inductive: `Exit` keeps it only because the
  queue is what the timers say. The last theorem is the refinement of `FifoLock`: each
  step is a step of the lock or a stutter.
- `InputUsesMutex`: the composition implements `ReactorMutex`, step by step, so its theorems
  carry over (`InputExcludes`, `InputServesInOrder`). `LinesRunInOrder` and `StopsAreHeard` follow from
  `InputInv`: the lines that were run, are in the batch, and wait are, one after the other,
  all the lines read; and nothing is left between batches. The second is inductive only
  with the flag that keeps a call from starting while another is at work.
- `PrintJobTypes`: `TypeOK`, one fact per variable and action.
- `PrintJobPosition`: the inductive invariant `PositionInv`. "No line is lost or
  repeated" says something of `file_position` when the worker is gone, but is broken or
  kept while it works; so the invariant says, place by place in the worker's loop, how
  `file_position`, `next_file_position`, the lines in hand and the number of lines
  dealt with go together. It needs three more parts: `OneWorker` (a second worker could
  advance the position), who is inside the mutex when the worker is in a script (a
  command that writes the position holds it), and that a command which waits to close
  the file still has one (`ClosesOpenFile`).
- `PrintJobOneWorker`, `PrintJobResumes`, `PrintJobClosesOpenFile` follow from it: the
  properties of the runs, for any files, clients, sensors, commands and read size.
- `PrintJobReport`, `PrintJobReports`, `PrintJobCompleteMeansWhole`: what `print_stats` says, for any
  files, clients and sensors. A worker is reported from the moment its timer fires, not from M24
  on (`Reported`). "Complete" is decided when the worker returns with no file open, and its file
  may have been closed by another greenlet too; `Ended` says that then its outcome was already noted, and
  `Within` that the worker which closes the file itself was at its end.
- `PrintJobHeard`: the worker is in the line of the mutex at most once and never with the first
  script of a line (`InTheLine`), since nothing runs between its test of the mutex and its
  dispatch (`Undisturbed`); and a worker that outlives a shutdown has been asked to stop, unless a
  RESUME has started it since (`ShutdownHeard`). So only a dispatch starts a line (`LineStarts`), and
  `PrintJobNoLineAfterShutdown`: for any files, no line starts after a shutdown, up to that RESUME, which
  is one that was in its move when the shutdown came.
  `PrintJobShutdownIsFinal` is `ShutdownIsFinal` for files without a tool change: after one, the Z
  part of a move whose X/Y part has run asks for the mutex again and gets it.
- `PrintJobStops`, `PrintJobNoLineAfterStop`, `PrintJobStopIsFinal`: the same once a command that
  stops the print has returned, without filament sensors (a run-out handler sends its pause
  outside the mutex, and the PAUSE that follows may then stop nothing, see section 4). `Stopped`: who waits
  to stop the worker holds the mutex, so nobody starts it meanwhile, and `pause_command_sent`
  outlives its command only together with `is_paused`, or in a shutdown.
- `PrintJobRightTool`: for any files, clients and sensors. The tool in the head is the screen's, the
  record the host's, and the file asks for a third: `ToolInv` says how they go together at the position, at
  the line at hand and at the line after it. While `sure`, the tool in the head is the recorded one, or a
  change to it has been reported and the worker is about to record it. Its lemmas are about the tool
  at a line (`ToolFirst`, `ToolAfterChange`, `ToolAfterOther`) and about the steps that load or record one
  (`ToolKnown`, `Unrecorded`, `ChangePlaces`, `PlainPlaces`).
- `ReactorTypes`, `ReactorForgetsNoTimer`, for any timers, greenlets and calls. `ReactorInv` adds
  `CallingHead`: a callback that runs is the head of what the loop has not looked at, so the
  loop comes back to the time it leaves.
- `ReactorWaitersAreDue`, `ReactorUnregisteredIsQuiet`. The return value of a callback that had
  paused is written over a time that was set meanwhile, which could undo a wake-up. It does not,
  for the timer of a greenlet is behind the timer it is in the middle of, in the list and in every
  copy (`Ahead` in `PlacesInv`), so the scan has passed that timer before the greenlet goes on. What
  the scan has and the list has no more, is set to never (`ScanInv`).
- `HeadInvariant`, `MovesAreInTime`: for any delays, moves and dwells. What is sent is never beyond
  what is generated, and in the main state the time line is beyond both by the kinematic
  delay; in the other states a move resynchronises first. Each function on the tool head
  has its lemma, so that an action's proof is their composition.
- `FlowInvariant`, `BoardsHaveSteps`: outside a homing move the flush timer is set early enough for
  what has been sent, or nothing is to be sent (`Awake`), and whoever flushes next finds a reserve
  (`Fed`); during a homing move that timer is off and the wait ends in time
  (`Unwatched`). It needs `DelaysInOrder`, which ties the start time and the leads to the low mark.
- `HeatersInvariant`, `HeatersPowerBudget`, `HeatersOffStaysOff`, for any extruders, limit and temperatures: in
  a printer that is not shut down a heater below its target has a place (`ColdHasPlace`) and there are never more
  places than allowed (`PlacesBounded`), and one turned off has no target and no request that a later tick could
  serve, so the budget follows by counting. The lists lose elements at
  many places at once; `PickedIs` says what is left.
- `OtaInvariant`, `OtaBootsWhole`, `OtaRunningUntouched`, for any images, versions, calls and boots: the script works
  on the slot that is not marked, and with no boot set the marked one is the running one
  (`SlotsInv`); a marked slot that nothing spoilt is whole and no writer is at work on it (`MarkedInv`); and while nothing
  has spoilt the slot under work, every writer has written what its files say (`CleanInv`).
- `TriggerTypes`, `BoardsStopTogether`, `CompletionIsOfThisMove`, `NothingIsLeftOver`,
  `SuccessMeansHit`, for any number of boards, moves and times. Two arguments: a query is the last
  command of a move and its answer the last report, so every board is quiet when a move starts
  (`QueueInv`); and nothing the host knows of a board's life is later than its last sign of
  life, so no time-out given to the others is later than that plus `Expire` (`TimeInv`).

- `SerialTypes`, `SerialInvariant`, for any numbers on the wire, windows, blocks, queries and losses. All is
  told by `Expected`, the full number that the board expects: what the wire carries is a remainder,
  and the numbers modulo `SeqSize` have their own lemmas. The sent queue is what lies between
  `receive` and `send` (`SentInv`); a block on the way is one of it or acknowledged, and never
  so old that the board could take it for the one it expects (`WireInv`, which uses
  `MaxPending < SeqSize`); answers come with numbers that do not fall (`AnswerInv`); and the board may
  expect a number never sent only until it is first heard (`ConnectInv`).
- `SerialRunInOrder`, `SerialNothingForgotten`: messages keep their order from the queue over the
  blocks to the board (`OrderInv`), and a block below `Expected` has been run (`KeptInv`).
- `SerialNoLateResponse`, `SerialTimeIsOfItsBlock`: a notification that waits knows the number with which
  its response comes (`NotifyInv`), one that was given has no response on the way (`DoneInv`), a
  query is always in one of these states (`TellInv`), and what was sent twice is below
  `retransmit` (`TimeInv`).
- `SerialWindowHolds`: the sent queue and the last acknowledged block together keep within the window
  (`LoadInv`); the block that the board runs is in the sent queue or is that last one, and has been
  acknowledged only by a response of its own (`RunInv`); and until something is retransmitted the
  numbers on the wire rise, so no block is there twice, and one below `receive` is an identify query
  that was given up (`FreshInv`). Then each message on the way is a different one of
  the sent queue, and counting does the rest: `TotalLen` is the number of places of messages
  in blocks, so that lemmas on injections (`PlacesEmbed`, `PlacesMono`, `PlacesSplit`) take the
  part of an induction over sequences.

**Only model-checked.** Liveness, which is beyond the prover: `DueIsRun`, `PostIsSeen`,
`EveryLineRuns`, `StopReturns`, `MovesAreMade`, `HeatersGoOff`, `WaitEnds`,
`EveryMessageRuns`, `EveryQueryIsHeard`, `WritersLeave`, `ScriptEnds`. Every other
property of a passing run, invariant or action property, is a theorem.

## 6. Plan

Done: `FifoLock`, `ReactorMutex`, `GcodeInput`, `PrintJob`, `SerialQueue`, `OtaUpdate`, `Reactor`,
`TriggerDispatch`, `Heaters`, `MoveQueue`.

Next: the printer life cycle (connect, ready, shutdown and restart with handlers that fail); the
recovery update as a second instance of `OtaUpdate`; homing with its retries on
`TriggerDispatch` and `MoveQueue`.

Theorems: no safety property of a passing run is left. Worth stating next: that the users of the
mutex in `PrintJob` keep to `FifoLock`. It does not hold step by step, as `Rerequest` is a `Release` and
then a `Take` or a `Join` in one step, so it needs the composition of two steps of the lock.

## 7. Not modelled

Step generation, kinematics, junction velocities, bed mesh, input shaping, clock regression and heater control
are computations on real numbers. Configuration, message parsing, macros and
webhooks framing are text. Drivers, fans and LEDs have little state. Board firmware,
the screen's program and the flashing tools are binaries. `sdcard_loop` and the chips
no configuration names are not loaded. Most of the lines of the repository are of these
kinds, so the share of lines that the modules translate is small.

Inside the modelled parts: garbage collection, the write half of descriptors and the other
reactors; input that cannot be decoded, which is dropped, and debug file input; the preheat scan of
the file and print statistics in numbers, partial lines of a read, the insert handler of the sensor;
extruder changes and changes of the kinematic delay; heaters other than extruders, which do not queue, and the
counters of `verify_heater`; a shutdown during homing;
fast readers, several command queues and CAN of the serial queue; the rtos partition,
packages with one image, two update scripts at once, and the checks before the first image, which
only end the call.

Further hazards, met while reading and not listed in `PROJECT.json`:
`filament_switch_sensor.py:70` sets `filament_present` before it drops an event, so that
run-out is never acted on; `e_stop.py:343` retries a failed move without counting;
`heaters.py:102` decides on a temperature that the serial thread writes;
`serialqueue.c:167` may take a report of the previous session for an acknowledgement at connection;
`klippy.py:171` leaves ready callbacks uncalled after a shutdown in one of them;
`virtual_sdcard.py:867` runs EXCLUDE_OBJECT_END without the mutex; `src/software/run.sh:110`
deletes the images of an update that failed; the rtos partition is written in place.
