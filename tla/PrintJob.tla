------------------------------ MODULE PrintJob ------------------------------
(***************************************************************************)
(* Printing a file: extras/virtual_sdcard.py, pause_resume.py and          *)
(* print_stats.py around the G-code mutex of klippy/gcode.py.              *)
(*                                                                         *)
(* The worker is the greenlet that runs VirtualSD.work_handler.  Clients   *)
(* are the greenlets of the G-code pty and of the webhooks connections;    *)
(* each runs one command at a time inside the G-code mutex.  Sensors are   *)
(* filament sensors, whose run-out handler asks for a pause outside it.    *)
(*                                                                         *)
(* Greenlets run until they pause: cpu names the greenlet that is running, *)
(* or is Nobody while the reactor chooses, and every other action waits.   *)
(* A step that leaves cpu at its greenlet goes on without a pause.         *)
(*                                                                         *)
(* The mutex is FifoLock (which ReactorMutex implements): holder and the   *)
(* line of those who wait.  Positions count lines, not bytes.              *)
(***************************************************************************)
EXTENDS Integers, Sequences

CONSTANTS
  Clients,      \* greenlets that run commands
  Sensors,      \* filament sensors with pause_on_runout
  Nobody,       \* not a greenlet
  Files,        \* the files that may be printed, each a sequence of LineKinds
  Commands,     \* the commands the clients send
  Chunk,        \* lines per read of the file
  MayFail,      \* whether scripts, moves and file operations may fail
  MayStop       \* whether the printer may be shut down

\* What the worker tells apart in a line: a comment; a move with X and Y, one
\* without, a feedrate-only move; a tool change; a command that is replaced
\* and run on the spot (M106 with an adjusted fan, SET_PRESSURE_ADVANCE); the
\* PAUSE command; any other command.
Tools == {"T0", "T1"}
Moves == {"xy", "z"}
LineKinds == {"comment", "feed", "replaced", "pause", "command"} \cup Moves \cup Tools

AllCommands == {"PAUSE", "RESUME", "CANCEL_PRINT", "CLEAR_PAUSE",
                "SDCARD_PRINT_FILE", "SDCARD_RESET_FILE", "M23", "M24", "M25", "M26",
                "SDCARD_CLEAR_REFUELLING", "SDCARD_SET_CHANNEL", "SDCARD_SET_PAUSE_STATE"}

Worker == "worker"
Users == Clients \cup Sensors
Procs == Users \cup {Worker}

ASSUME PrintJobAssumption ==
  /\ Worker \notin Users /\ Nobody \notin Procs /\ Clients \cap Sensors = {}
  /\ Files # {} /\ Files \subseteq Seq(LineKinds)
  /\ Commands \subseteq AllCommands
  /\ Chunk \in Nat \ {0}
  /\ MayFail \in BOOLEAN /\ MayStop \in BOOLEAN

VARIABLES
  sd,           \* attributes of VirtualSD; file is the content of current_file
  work,         \* the locals of work_handler, and where it is
  pr,           \* attributes of PauseResume
  stats,        \* attributes of PrintStats
  cpu,          \* the greenlet that runs
  holder,       \* who is inside the G-code mutex
  waiting,      \* who is queued for it
  upc, cmd,     \* where each user is, and in which command
  is_shutdown,  \* Printer.in_shutdown_state
  hist          \* history: lines dealt with, whether each followed the last,
                \* whether a command that stops the print has returned, whether
                \* a RESUME has started the worker in a shut down printer; and
                \* of the screen: the tool it has loaded, whether it kept to
                \* what RightTool presumes

lockVars == <<cpu, holder, waiting>>
userVars == <<upc, cmd>>
vars == <<sd, work, pr, stats, lockVars, userVars, is_shutdown, hist>>

\* work_handler: not running; its timer set; at the head of its loop; about
\* to dispatch a line; inside or waiting for the mutex with a script; after
\* the line; waiting for the tool change; leaving; dead of an exception.
FileScripts == {"move", "script", "replacedScript", "hijackXY", "hijackZ"}
WorkerScripts == FileScripts \cup {"finishMoves", "restoreVelocity", "onError", "flush"}
WorkerPlaces == WorkerScripts \cup
  {"off", "armed", "top", "dispatch", "lineDone", "toolWait", "leave", "dead"}

\* A user: idle; inside or waiting for the mutex with its command; waiting for
\* the worker in PAUSE or M25, or in CANCEL_PRINT or SDCARD_RESET_FILE; saving
\* or restoring the G-code state; waiting for the worker or for pause_delay in
\* the run-out handler.
UserPlaces == {"idle", "body", "pausing", "closing", "gcodeState", "sensed", "delay"}

Init ==
  /\ sd \in [file: Files, current_file: {FALSE}, file_position: {0},
             next_file_position: {0}, work_timer: {FALSE}, must_pause_work: {FALSE},
             cmd_from_sd: {FALSE}, change_filament: {FALSE}, after_channel_g1: {FALSE},
             print_channel: {"T0"}, load_channel: {"T0"}]
  /\ work = [at |-> "off", lines |-> 0, pending_feedrate |-> FALSE, error |-> FALSE]
  /\ pr = [is_paused |-> FALSE, sd_paused |-> FALSE, pause_command_sent |-> FALSE]
  /\ stats = [state |-> "standby", started |-> FALSE]
  /\ cpu = Nobody /\ holder = Nobody /\ waiting = <<>>
  /\ upc = [u \in Users |-> "idle"] /\ cmd = [u \in Users |-> "PAUSE"]
  /\ is_shutdown = FALSE
  /\ hist = [dealt |-> 0, in_order |-> TRUE, stopped |-> FALSE, revived |-> FALSE,
             tool |-> "T0", sure |-> TRUE]

-----------------------------------------------------------------------------
(* The scheduler and the mutex. *)

\* A greenlet that paused for a while may be run again by the reactor.
Resumes(p) == cpu \in {p, Nobody}

\* ReactorMutex.test()
Locked == holder # Nobody \/ waiting # <<>>

\* Enter the mutex, or queue up for it and pause.
Request(p) ==
  IF Locked
  THEN waiting' = Append(waiting, p) /\ cpu' = Nobody /\ UNCHANGED holder
  ELSE holder' = p /\ cpu' = p /\ UNCHANGED waiting

\* Leave the mutex and, without a pause, ask for it again.
Rerequest(p) ==
  IF waiting = <<>>
  THEN cpu' = p /\ UNCHANGED <<holder, waiting>>
  ELSE holder' = Nobody /\ waiting' = Append(waiting, p) /\ cpu' = Nobody

Release == holder' = Nobody /\ UNCHANGED waiting

\* The reactor runs the greenlet the mutex was handed to.
Grant ==
  /\ cpu = Nobody /\ holder = Nobody /\ waiting # <<>>
  /\ holder' = Head(waiting) /\ cpu' = Head(waiting)
  /\ waiting' = Tail(waiting)
  /\ UNCHANGED <<sd, work, pr, stats, userVars, is_shutdown, hist>>

-----------------------------------------------------------------------------
(* PrintStats. *)

NoteStart == stats' = [state |-> "printing", started |-> TRUE]

NotePause ==
  stats' = [stats EXCEPT !.state = IF @ = "error" THEN @ ELSE "paused"]

\* _note_finish does nothing for a job that is not under way.
NoteFinish(outcome) ==
  stats' = IF stats.started THEN [state |-> outcome, started |-> FALSE] ELSE stats

StatsReset == stats' = [state |-> "standby", started |-> FALSE]

-----------------------------------------------------------------------------
(* The worker: work_handler. *)

Goes(place) == work' = [work EXCEPT !.at = place]

\* The line at position n - 1 has been dealt with.
Dealt(n) ==
  hist' = [hist EXCEPT !.dealt = n, !.in_order = @ /\ n = hist.dealt + 1]

NextLine == sd.file[sd.file_position + 1]       \* at the top of the loop
Line == sd.file[sd.next_file_position]          \* while it is dispatched

\* Mutant: the start of a print is not noted.
WorkStartUnnoted ==
  /\ work.at = "armed" /\ cpu = Nobody
  /\ work' = [work EXCEPT !.at = "top", !.lines = 0]
  /\ cpu' = Worker
  /\ UNCHANGED <<sd, pr, stats, holder, waiting, userVars, is_shutdown, hist>>

\* The timer fires: seek, and start if there is a file.
WorkStart ==
  /\ work.at = "armed" /\ cpu = Nobody
  /\ IF sd.current_file
     THEN /\ NoteStart
          /\ work' = [at |-> "top", lines |-> 0, pending_feedrate |-> FALSE, error |-> FALSE]
          /\ cpu' = Worker
          /\ UNCHANGED sd
     ELSE /\ sd' = [sd EXCEPT !.work_timer = FALSE]
          /\ Goes("off")
          /\ UNCHANGED <<stats, cpu>>
  /\ UNCHANGED <<pr, holder, waiting, userVars, is_shutdown, hist>>

\* The head of the loop, when the worker has been asked to stop.
WorkAskedToStop ==
  /\ work.at = "top" /\ Resumes(Worker) /\ sd.must_pause_work
  /\ Goes("leave") /\ cpu' = Worker
  /\ UNCHANGED <<sd, pr, stats, holder, waiting, userVars, is_shutdown, hist>>

AtTop == work.at = "top" /\ Resumes(Worker) /\ ~sd.must_pause_work
Unread == Len(sd.file) - sd.file_position

\* Read the next block and pause once.
WorkRead ==
  /\ AtTop /\ work.lines = 0 /\ Unread > 0
  /\ work' = [work EXCEPT !.lines = IF Unread < Chunk THEN Unread ELSE Chunk]
  /\ cpu' = Nobody
  /\ UNCHANGED <<sd, pr, stats, holder, waiting, userVars, is_shutdown, hist>>

\* The read fails: leave the loop with the file still open.
WorkReadFails ==
  /\ AtTop /\ work.lines = 0 /\ MayFail
  /\ Goes("leave") /\ cpu' = Worker
  /\ UNCHANGED <<sd, pr, stats, holder, waiting, userVars, is_shutdown, hist>>

\* Mutant: the end of the file is looked for before the request to stop.
WorkEndOfFileFirst ==
  /\ work.at = "top" /\ Resumes(Worker) /\ work.lines = 0 /\ Unread <= 0
  /\ sd' = [sd EXCEPT !.current_file = FALSE]
  /\ Goes("leave") /\ cpu' = Worker
  /\ UNCHANGED <<pr, stats, holder, waiting, userVars, is_shutdown, hist>>

\* The end of the file: close it and leave the loop.
WorkEndOfFile ==
  /\ AtTop /\ work.lines = 0 /\ Unread <= 0
  /\ sd' = [sd EXCEPT !.current_file = FALSE]
  /\ Goes("leave") /\ cpu' = Worker
  /\ UNCHANGED <<pr, stats, holder, waiting, userVars, is_shutdown, hist>>

\* A comment is consumed without the mutex; the worker pauses when its batch
\* time is over.
WorkComment ==
  /\ AtTop /\ work.lines > 0 /\ NextLine = "comment"
  /\ work' = [work EXCEPT !.lines = @ - 1]
  /\ sd' = [sd EXCEPT !.file_position = @ + 1, !.next_file_position = sd.file_position + 1]
  /\ Dealt(sd.file_position + 1)
  /\ cpu' \in {Worker, Nobody}
  /\ UNCHANGED <<pr, stats, holder, waiting, userVars, is_shutdown>>

\* Somebody else runs or waits to run a script: pause and look again.
WorkBusy ==
  /\ AtTop /\ work.lines > 0 /\ NextLine # "comment"
  /\ Locked
  /\ cpu = Worker /\ cpu' = Nobody
  /\ UNCHANGED <<sd, work, pr, stats, holder, waiting, userVars, is_shutdown, hist>>

\* Mutant: the worker does not test the mutex.
WorkTakeLineAnyway ==
  /\ AtTop /\ work.lines > 0 /\ NextLine # "comment"
  /\ sd' = [sd EXCEPT !.cmd_from_sd = TRUE, !.next_file_position = sd.file_position + 1]
  /\ work' = [work EXCEPT !.at = "dispatch", !.lines = @ - 1,
                          !.pending_feedrate = @ /\ NextLine \in Moves \cup {"feed"}]
  /\ cpu' = Worker
  /\ UNCHANGED <<pr, stats, holder, waiting, userVars, is_shutdown, hist>>

\* Take the next line.  A deferred feedrate is applied before anything but a
\* move; that neither waits (the mutex was just seen free) nor pauses.
WorkTakeLine ==
  /\ AtTop /\ work.lines > 0 /\ NextLine # "comment"
  /\ ~Locked
  /\ sd' = [sd EXCEPT !.cmd_from_sd = TRUE, !.next_file_position = sd.file_position + 1]
  /\ work' = [work EXCEPT !.at = "dispatch", !.lines = @ - 1,
                          !.pending_feedrate = @ /\ NextLine \in Moves \cup {"feed"}]
  /\ cpu' = Worker
  /\ UNCHANGED <<pr, stats, holder, waiting, userVars, is_shutdown, hist>>

\* After a tool change the next moves are intercepted.
Hijacked == sd.after_channel_g1 /\ Line \in Moves \cup {"feed"}
ToolIsLoaded == Line \in Tools /\ Line = sd.load_channel

\* The script that a line starts.
ScriptOf ==
  CASE Hijacked           -> "hijackXY"
    [] Line \in Moves /\ ~Hijacked -> "move"
    [] Line = "replaced"  -> "replacedScript"
    [] Line \in Tools     -> "finishMoves"
    [] OTHER              -> "script"

\* Dispatch a line that needs the mutex.
WorkDispatch ==
  /\ work.at = "dispatch" /\ cpu = Worker
  /\ ~ToolIsLoaded
  /\ IF Hijacked THEN Line = "xy" ELSE Line # "feed"
  /\ Goes(ScriptOf)
  /\ sd' = [sd EXCEPT !.print_channel = IF Line \in Tools THEN Line ELSE @]
  /\ Request(Worker)
  /\ UNCHANGED <<pr, stats, userVars, is_shutdown, hist>>

\* A feedrate-only move is deferred to the next move.
WorkDefer ==
  /\ work.at = "dispatch" /\ cpu = Worker
  /\ Line = "feed" /\ ~Hijacked
  /\ work' = [work EXCEPT !.at = "lineDone", !.pending_feedrate = TRUE]
  /\ Dealt(sd.next_file_position)
  /\ UNCHANGED <<sd, pr, stats, lockVars, userVars, is_shutdown>>

\* The "continue" statements: back to the head of the loop with the position
\* advanced; cmd_from_sd stays as it is.
Continue(newSd) ==
  /\ sd' = [newSd EXCEPT !.file_position = sd.next_file_position]
  /\ Dealt(sd.next_file_position)
  /\ Goes("top") /\ cpu' = Worker
  /\ UNCHANGED <<pr, stats, userVars, is_shutdown>>

\* After a tool change, moves without X and Y are only remembered.
WorkRemember ==
  /\ work.at = "dispatch" /\ cpu = Worker
  /\ Hijacked /\ Line # "xy"
  /\ Continue(sd)
  /\ UNCHANGED <<holder, waiting>>

\* A tool change to the tool that is loaded.
WorkSameTool ==
  /\ work.at = "dispatch" /\ cpu = Worker
  /\ ToolIsLoaded
  /\ Continue([sd EXCEPT !.print_channel = Line, !.change_filament = FALSE])
  /\ UNCHANGED <<holder, waiting>>

InScript(script) == work.at = script /\ holder = Worker /\ Resumes(Worker)

\* A script pauses while it runs: the toolhead is full, a heater is waited for.
\* In a shut down printer a script is refused, and a move does not pause.
WorkPausesInScript ==
  /\ work.at \in WorkerScripts \ {"flush"} /\ holder = Worker /\ ~is_shutdown
  /\ cpu = Worker /\ cpu' = Nobody
  /\ UNCHANGED <<sd, work, pr, stats, holder, waiting, userVars, is_shutdown, hist>>

\* A script that has paused before a shutdown is let go on and ends as usual
\* (toolhead.py:445-447, 572); one that starts after it finds no handler.
GoesOn == is_shutdown => cpu = Nobody

\* PAUSE from the file finds cmd_from_sd set and does not wait.
PauseFromFile ==
  /\ pr' = [is_paused |-> TRUE, pause_command_sent |-> TRUE,
            sd_paused |-> pr.pause_command_sent => pr.sd_paused]
  /\ sd' = [sd EXCEPT !.must_pause_work = @ \/ ~pr.pause_command_sent]

\* The end of a move, which is no script that needs a handler, or of an ordinary
\* script; PAUSE runs another one, SAVE_GCODE_STATE.
WorkScriptEnds ==
  /\ InScript("move") \/ (InScript("script") /\ GoesOn)
  /\ Line = "pause" => ~is_shutdown
  /\ IF Line = "pause" /\ ~pr.is_paused THEN PauseFromFile ELSE UNCHANGED <<pr, sd>>
  /\ work' = [work EXCEPT !.at = "lineDone", !.pending_feedrate = FALSE]
  /\ Dealt(sd.next_file_position)
  /\ Release /\ cpu' = Worker
  /\ UNCHANGED <<stats, userVars, is_shutdown>>

\* A move or an ordinary script fails: run on_error_gcode.
WorkScriptFails ==
  /\ InScript("move") \/ InScript("script")
  /\ MayFail \/ (is_shutdown /\ work.at = "script")
  /\ work' = [work EXCEPT !.at = "onError", !.error = TRUE]
  /\ Rerequest(Worker)
  /\ UNCHANGED <<sd, pr, stats, userVars, is_shutdown, hist>>

\* An internal error shuts the printer down and leaves the loop at once; no
\* error is noted for the print.
WorkScriptCrashes ==
  /\ InScript("move") \/ InScript("script")
  /\ MayStop
  /\ is_shutdown' = TRUE
  /\ sd' = [sd EXCEPT !.must_pause_work = TRUE]
  /\ Goes("leave") /\ Release /\ cpu' = Worker
  /\ UNCHANGED <<pr, stats, userVars, hist>>

\* on_error_gcode has run (or failed, which is logged): leave the loop.
WorkOnError ==
  /\ InScript("onError")
  /\ Goes("leave") /\ Release /\ cpu' = Worker
  /\ UNCHANGED <<sd, pr, stats, userVars, is_shutdown, hist>>

\* The 5 ms of a batch are over: pause before the line is accounted for.
WorkBatchYield ==
  /\ work.at = "lineDone"
  /\ cpu = Worker /\ cpu' = Nobody
  /\ UNCHANGED <<sd, work, pr, stats, holder, waiting, userVars, is_shutdown, hist>>

\* Mutant: the position is not advanced when the worker is to stop.
WorkLineDoneLate ==
  /\ work.at = "lineDone" /\ Resumes(Worker)
  /\ sd' = [sd EXCEPT !.cmd_from_sd = FALSE,
                      !.file_position = IF sd.must_pause_work THEN @ ELSE sd.next_file_position]
  /\ Goes("top") /\ cpu' = Worker
  /\ UNCHANGED <<pr, stats, holder, waiting, userVars, is_shutdown, hist>>

\* The end of the loop body.
WorkLineDone ==
  /\ work.at = "lineDone" /\ Resumes(Worker)
  /\ sd' = [sd EXCEPT !.cmd_from_sd = FALSE, !.file_position = sd.next_file_position]
  /\ Goes("top") /\ cpu' = Worker
  /\ UNCHANGED <<pr, stats, holder, waiting, userVars, is_shutdown, hist>>

\* The end of a replaced command (M106, SET_PRESSURE_ADVANCE).
WorkReplacedEnds ==
  /\ InScript("replacedScript") /\ GoesOn
  /\ Release
  /\ Continue(sd)

\* The X/Y part of the first move after a tool change; the Z part is a second
\* script and asks for the mutex again.
WorkHijackXY ==
  /\ InScript("hijackXY") /\ GoesOn
  /\ Goes("hijackZ")
  /\ Rerequest(Worker)
  /\ UNCHANGED <<sd, pr, stats, userVars, is_shutdown, hist>>

WorkHijackZ ==
  /\ InScript("hijackZ") /\ GoesOn
  /\ Release
  /\ Continue([sd EXCEPT !.after_channel_g1 = FALSE])

\* Mutant: the worker does not wait for the tool change.
WorkMovesGoOn ==
  /\ InScript("finishMoves") /\ GoesOn
  /\ Goes("toolWait") /\ Release /\ cpu' = Nobody
  /\ UNCHANGED <<sd, pr, stats, userVars, is_shutdown, hist>>

\* M400 before a tool change has ended: wait for the tool change.
WorkMovesFinished ==
  /\ InScript("finishMoves") /\ GoesOn
  /\ sd' = [sd EXCEPT !.change_filament = TRUE]
  /\ Goes("toolWait") /\ Release /\ cpu' = Nobody
  /\ UNCHANGED <<pr, stats, userVars, is_shutdown, hist>>

\* The wait is polled every 50 ms; afterwards the velocity limit is restored.
WorkToolChanged ==
  /\ work.at = "toolWait" /\ cpu = Nobody
  /\ ~sd.change_filament
  /\ Goes("restoreVelocity")
  /\ Request(Worker)
  /\ UNCHANGED <<sd, pr, stats, userVars, is_shutdown, hist>>

WorkVelocityRestored ==
  /\ InScript("restoreVelocity") /\ GoesOn
  /\ Release
  /\ Continue([sd EXCEPT !.after_channel_g1 = TRUE, !.load_channel = sd.print_channel,
                         !.change_filament = FALSE])

\* An error in a script nobody guards leaves work_handler and the reactor:
\* klippy shuts the printer down, and work_timer is never cleared.
WorkDies ==
  /\ \E script \in {"replacedScript", "hijackXY", "hijackZ", "finishMoves",
                    "restoreVelocity"} : InScript(script)
  /\ MayFail \/ ~GoesOn
  /\ Goes("dead") /\ Release /\ cpu' = Nobody
  /\ is_shutdown' = TRUE
  /\ sd' = [sd EXCEPT !.must_pause_work = TRUE]
  /\ UNCHANGED <<pr, stats, userVars, hist>>

\* Mutant: every end without an error counts as complete.
LeaveCompletes ==
  /\ sd' = [sd EXCEPT !.work_timer = FALSE, !.cmd_from_sd = FALSE]
  /\ work' = [work EXCEPT !.at = "off", !.pending_feedrate = FALSE]
  /\ cpu' = Nobody
  /\ NoteFinish(IF work.error THEN "error" ELSE "complete")
  /\ UNCHANGED <<pr, userVars, is_shutdown, hist>>

\* work_handler returns: the outcome depends on the error and on whether a
\* file is still open.
Leave ==
  /\ sd' = [sd EXCEPT !.work_timer = FALSE, !.cmd_from_sd = FALSE]
  /\ work' = [work EXCEPT !.at = "off", !.pending_feedrate = FALSE]
  /\ cpu' = Nobody
  /\ IF work.error THEN NoteFinish("error")
     ELSE IF sd.current_file THEN NotePause ELSE NoteFinish("complete")
  /\ UNCHANGED <<pr, userVars, is_shutdown, hist>>

WorkLeave ==
  /\ work.at = "leave" /\ cpu = Worker
  /\ ~work.pending_feedrate
  /\ Leave
  /\ UNCHANGED <<holder, waiting>>

\* With a feedrate deferred, it is applied inside the mutex first.
WorkLeaveFlush ==
  /\ work.at = "leave" /\ cpu = Worker
  /\ work.pending_feedrate
  /\ Goes("flush")
  /\ Request(Worker)
  /\ UNCHANGED <<sd, pr, stats, userVars, is_shutdown, hist>>

WorkFlushed ==
  /\ work.at = "flush" /\ holder = Worker /\ cpu = Worker
  /\ Release
  /\ Leave

WorkerNext ==
  \/ WorkStart \/ WorkAskedToStop \/ WorkRead \/ WorkReadFails \/ WorkEndOfFile
  \/ WorkComment \/ WorkBusy \/ WorkTakeLine \/ WorkDispatch \/ WorkDefer
  \/ WorkRemember \/ WorkSameTool \/ WorkPausesInScript \/ WorkScriptEnds
  \/ WorkScriptFails \/ WorkScriptCrashes \/ WorkOnError \/ WorkBatchYield \/ WorkLineDone
  \/ WorkReplacedEnds \/ WorkHijackXY \/ WorkHijackZ \/ WorkMovesFinished
  \/ WorkToolChanged \/ WorkVelocityRestored \/ WorkDies \/ WorkLeave
  \/ WorkLeaveFlush \/ WorkFlushed

-----------------------------------------------------------------------------
(* Users: clients run a command inside the mutex; sensors ask for a pause   *)
(* outside it and then run PAUSE.                                           *)

UserGoes(u, place) == upc' = [upc EXCEPT ![u] = place]

\* A client sends a command.
Issue(c, k) ==
  /\ upc[c] = "idle" /\ cpu = Nobody
  /\ cmd' = [cmd EXCEPT ![c] = k]
  /\ UserGoes(c, "body")
  /\ Request(c)
  /\ UNCHANGED <<sd, work, pr, stats, is_shutdown, hist>>

\* Command k of user u is at the given place.  A body starts with the mutex;
\* in the shutdown state there are no handlers for these commands.
Runs(u, k) == upc[u] = "body" /\ cmd[u] = k /\ cpu = u /\ ~is_shutdown
Continues(u, k, place) == upc[u] = place /\ cmd[u] = k /\ Resumes(u)

\* A command ends, well or with an error.
Return(u) ==
  /\ UserGoes(u, "idle") /\ Release /\ cpu' = Nobody
  /\ UNCHANGED <<cmd, is_shutdown>>

\* A command goes on inside the mutex, at another place.
Proceed(u, place) ==
  /\ UserGoes(u, place)
  /\ UNCHANGED <<lockVars, cmd, is_shutdown>>

\* Mutant: do_pause does not look at cmd_from_sd.
HaltedOnlyWhenGone == ~sd.work_timer

\* do_pause asks the worker to stop and polls until it has, or until it is
\* seen dispatching a line.
AskToStop == sd' = [sd EXCEPT !.must_pause_work = @ \/ sd.work_timer]
Halted == ~sd.work_timer \/ sd.cmd_from_sd

\* The worker has not stopped: sleep for a millisecond and look again.
AwaitWorker(u) ==
  /\ upc[u] \in {"pausing", "closing", "sensed"} /\ ~Halted
  /\ Resumes(u) /\ cpu' = Nobody
  /\ UNCHANGED <<sd, work, pr, stats, holder, waiting, userVars, is_shutdown, hist>>

\* do_resume: clear the request to stop and arm the timer; nobody asks whether the
\* printer is shut down.
DoResume ==
  /\ sd' = [sd EXCEPT !.must_pause_work = FALSE, !.work_timer = TRUE]
  /\ Goes("armed")
  /\ hist' = [hist EXCEPT !.stopped = FALSE, !.revived = @ \/ is_shutdown]

\* Commands that are refused: all of them after a shutdown, PAUSE and RESUME
\* in the wrong state, what the running worker excludes ("SD busy").
Refused(u) ==
  CASE is_shutdown -> TRUE
    [] cmd[u] = "PAUSE" -> pr.is_paused
    [] cmd[u] = "RESUME" -> ~pr.is_paused
    [] cmd[u] \in {"M23", "M24", "M26", "SDCARD_PRINT_FILE"} -> sd.work_timer
    [] cmd[u] = "SDCARD_RESET_FILE" -> sd.cmd_from_sd
    [] OTHER -> FALSE

RunRefused(u) ==
  /\ upc[u] = "body" /\ cpu = u
  /\ Refused(u)
  /\ Return(u)
  /\ UNCHANGED <<sd, work, pr, stats, hist>>

Starts(u, k) == Runs(u, k) /\ ~Refused(u)

\* send_pause_command up to its wait.
SendPause ==
  IF pr.pause_command_sent
  THEN UNCHANGED <<pr, sd>>
  ELSE AskToStop /\ pr' = [pr EXCEPT !.sd_paused = sd.work_timer]

\* PAUSE: there is no wait for the worker when the pause was already sent.
RunPause(u) ==
  /\ Starts(u, "PAUSE")
  /\ SendPause
  /\ Proceed(u, IF pr.pause_command_sent THEN "gcodeState" ELSE "pausing")
  /\ UNCHANGED <<work, stats, hist>>

\* The rest of PAUSE: SAVE_GCODE_STATE (which fails after a shutdown), then
\* the printer counts as paused.
PauseDone(u) ==
  /\ Continues(u, "PAUSE", "gcodeState") \/ (Continues(u, "PAUSE", "pausing") /\ Halted)
  /\ pr' = [pr EXCEPT !.pause_command_sent = TRUE, !.is_paused = ~is_shutdown]
  /\ hist' = [hist EXCEPT !.stopped = TRUE]
  /\ Return(u)
  /\ UNCHANGED <<sd, work, stats>>

\* M25.
RunM25(u) ==
  /\ Starts(u, "M25")
  /\ AskToStop
  /\ Proceed(u, "pausing")
  /\ UNCHANGED <<work, pr, stats, hist>>

M25Done(u) ==
  /\ Continues(u, "M25", "pausing") /\ Halted
  /\ hist' = [hist EXCEPT !.stopped = TRUE]
  /\ Return(u)
  /\ UNCHANGED <<sd, work, pr, stats>>

\* RESUME moves back to the saved position, which pauses the greenlet.
RunResume(u) ==
  /\ Starts(u, "RESUME")
  /\ UserGoes(u, "gcodeState") /\ cpu' = Nobody
  /\ UNCHANGED <<sd, work, pr, stats, holder, waiting, cmd, is_shutdown, hist>>

\* The end of RESUME, of one that a shutdown has found in its move as well.
ResumeDone(u) ==
  /\ Continues(u, "RESUME", "gcodeState")
  /\ ~(pr.sd_paused /\ sd.work_timer)
  /\ IF pr.sd_paused THEN DoResume ELSE UNCHANGED <<sd, work, hist>>
  /\ pr' = [is_paused |-> FALSE, sd_paused |-> FALSE, pause_command_sent |-> FALSE]
  /\ Return(u)
  /\ UNCHANGED stats

\* The move fails, or the worker is still there and do_resume raises "SD busy":
\* the printer stays paused.
ResumeFails(u) ==
  /\ Continues(u, "RESUME", "gcodeState")
  /\ MayFail \/ (pr.sd_paused /\ sd.work_timer)
  /\ Return(u)
  /\ UNCHANGED <<sd, work, pr, stats, hist>>

ClearPause == pr' = [pr EXCEPT !.is_paused = FALSE, !.pause_command_sent = FALSE]

RunClearPause(u) ==
  /\ Starts(u, "CLEAR_PAUSE")
  /\ ClearPause
  /\ Return(u)
  /\ UNCHANGED <<sd, work, stats, hist>>

\* CANCEL_PRINT of a print from the file waits for the worker; of anything
\* else, it only clears the pause.
CancelsFile == sd.work_timer \/ pr.sd_paused

RunCancel(u) ==
  /\ Starts(u, "CANCEL_PRINT") /\ CancelsFile /\ sd.current_file
  /\ AskToStop
  /\ Proceed(u, "closing")
  /\ UNCHANGED <<work, pr, stats, hist>>

RunCancelNothing(u) ==
  /\ Starts(u, "CANCEL_PRINT") /\ ~(CancelsFile /\ sd.current_file)
  /\ sd' = [sd EXCEPT !.file_position = IF CancelsFile THEN 0 ELSE @]
  /\ ClearPause
  /\ Return(u)
  /\ UNCHANGED <<work, stats, hist>>

\* do_cancel after the wait, then CLEAR_PAUSE.  sd_paused is left as it is.  A tool
\* change under way is waited for no longer, whatever the screen has loaded.
CancelDone(u) ==
  /\ Continues(u, "CANCEL_PRINT", "closing") /\ Halted
  /\ sd' = [sd EXCEPT !.current_file = FALSE, !.change_filament = FALSE,
                      !.file_position = 0]
  /\ NoteFinish("cancelled")
  /\ ClearPause
  /\ hist' = [hist EXCEPT !.stopped = TRUE, !.sure = @ /\ ~sd.change_filament]
  /\ Return(u)
  /\ UNCHANGED work

\* SDCARD_RESET_FILE waits for the worker when there is a file, and closes it.
RunReset(u) ==
  /\ Starts(u, "SDCARD_RESET_FILE") /\ sd.current_file
  /\ AskToStop
  /\ Proceed(u, "closing")
  /\ UNCHANGED <<work, pr, stats, hist>>

RunResetNothing(u) ==
  /\ Starts(u, "SDCARD_RESET_FILE") /\ ~sd.current_file
  /\ sd' = [sd EXCEPT !.file_position = 0]
  /\ StatsReset
  /\ Return(u)
  /\ UNCHANGED <<work, pr, hist>>

ResetDone(u) ==
  /\ Continues(u, "SDCARD_RESET_FILE", "closing") /\ Halted
  /\ sd' = [sd EXCEPT !.current_file = FALSE, !.file_position = 0]
  /\ StatsReset
  /\ Return(u)
  /\ UNCHANGED <<work, pr, hist>>

\* _reset_file with the worker gone, then _load_file, which may fail to open.
Loaded(f, opened) ==
  [sd EXCEPT !.file = f, !.current_file = opened, !.file_position = 0]

\* M23 selects a file and resets more than SDCARD_PRINT_FILE does.
RunSelect(u) ==
  /\ Starts(u, "M23")
  /\ \E f \in Files, opened \in {TRUE, ~MayFail} :
       sd' = [Loaded(f, opened) EXCEPT !.change_filament = FALSE]
  /\ hist' = [hist EXCEPT !.dealt = 0, !.in_order = TRUE]
  /\ StatsReset
  /\ Return(u)
  /\ UNCHANGED <<work, pr>>

\* SDCARD_PRINT_FILE loads a file and starts the worker.
RunPrintFile(u) ==
  /\ Starts(u, "SDCARD_PRINT_FILE")
  /\ \E f \in Files, opened \in {TRUE, ~MayFail} :
       /\ sd' = [Loaded(f, opened) EXCEPT !.work_timer = opened,
                                          !.must_pause_work = @ /\ ~opened]
       /\ Goes(IF opened THEN "armed" ELSE "off")
       /\ hist' = [hist EXCEPT !.dealt = 0, !.in_order = TRUE, !.stopped = @ /\ ~opened]
  /\ StatsReset
  /\ Return(u)
  /\ UNCHANGED pr

\* M24 starts or resumes the worker.
RunM24(u) ==
  /\ Starts(u, "M24")
  /\ DoResume
  /\ Return(u)
  /\ UNCHANGED <<pr, stats>>

\* M26 sets the position of the next start.
RunM26(u) ==
  /\ Starts(u, "M26")
  /\ \E p \in 0..Len(sd.file) :
       /\ sd' = [sd EXCEPT !.file_position = p]
       /\ hist' = [hist EXCEPT !.dealt = p, !.in_order = TRUE, !.sure = FALSE]
  /\ Return(u)
  /\ UNCHANGED <<work, pr, stats>>

\* The screen reports that the tool change is done (SDCARD_CLEAR_REFUELLING): it has
\* loaded the tool that get_status shows as the channel.
RunToolReport(u) ==
  /\ Starts(u, "SDCARD_CLEAR_REFUELLING")
  /\ sd' = [sd EXCEPT !.change_filament = FALSE]
  /\ hist' = [hist EXCEPT !.tool = IF sd.change_filament THEN sd.print_channel ELSE @]
  /\ Return(u)
  /\ UNCHANGED <<work, pr, stats>>

\* The screen names the tool that is loaded (SDCARD_SET_CHANNEL), as it does before a
\* print.  In the middle of one it overwrites what the worker is about to record, and
\* in a stopped one it does not bring back the tool that the rest of the file needs.
RunSetChannel(u) ==
  /\ Starts(u, "SDCARD_SET_CHANNEL")
  /\ sd' = [sd EXCEPT !.load_channel = hist.tool, !.print_channel = hist.tool]
  /\ hist' = [hist EXCEPT !.sure =
       ~sd.work_timer /\ (@ \/ ~sd.current_file \/ sd.file_position = 0)]
  /\ Return(u)
  /\ UNCHANGED <<work, pr, stats>>

\* The next move need not be intercepted (SDCARD_SET_PAUSE_STATE).
RunSetPauseState(u) ==
  /\ Starts(u, "SDCARD_SET_PAUSE_STATE")
  /\ sd' = [sd EXCEPT !.after_channel_g1 = FALSE]
  /\ Return(u)
  /\ UNCHANGED <<work, pr, stats, hist>>

\* A filament sensor runs out: send_pause_command outside the mutex, wait for
\* the worker, sleep for pause_delay, then run PAUSE like a client.
Sense(u) ==
  /\ u \in Sensors /\ upc[u] = "idle" /\ cpu = Nobody
  /\ SendPause
  /\ UserGoes(u, IF pr.pause_command_sent THEN "delay" ELSE "sensed")
  /\ cpu' = IF pr.pause_command_sent THEN Nobody ELSE u
  /\ UNCHANGED <<work, stats, holder, waiting, cmd, is_shutdown, hist>>

SensePaused(u) ==
  /\ upc[u] = "sensed" /\ Resumes(u) /\ Halted
  /\ pr' = [pr EXCEPT !.pause_command_sent = TRUE]
  /\ UserGoes(u, "delay") /\ cpu' = Nobody
  /\ UNCHANGED <<sd, work, stats, holder, waiting, cmd, is_shutdown, hist>>

SenseDelayOver(u) ==
  /\ upc[u] = "delay" /\ cpu = Nobody
  /\ cmd' = [cmd EXCEPT ![u] = "PAUSE"]
  /\ UserGoes(u, "body")
  /\ Request(u)
  /\ UNCHANGED <<sd, work, pr, stats, is_shutdown, hist>>

\* Mutant: the shutdown handler leaves the worker alone.
ShutdownUnheard ==
  /\ MayStop /\ ~is_shutdown /\ cpu = Nobody
  /\ is_shutdown' = TRUE
  /\ UNCHANGED <<sd, work, pr, stats, lockVars, userVars, hist>>

\* An emergency stop, or a micro-controller that reports a shutdown.
Shutdown ==
  /\ MayStop /\ ~is_shutdown /\ cpu = Nobody
  /\ is_shutdown' = TRUE
  /\ AskToStop
  /\ UNCHANGED <<work, pr, stats, lockVars, userVars, hist>>

\* What a user does once its command is under way.
UserStep(u) ==
  \/ RunRefused(u) \/ RunPause(u) \/ AwaitWorker(u) \/ PauseDone(u)
  \/ RunM25(u) \/ M25Done(u) \/ RunResume(u) \/ ResumeDone(u) \/ ResumeFails(u)
  \/ RunClearPause(u) \/ RunCancel(u) \/ RunCancelNothing(u) \/ CancelDone(u)
  \/ RunReset(u) \/ RunResetNothing(u) \/ ResetDone(u) \/ RunSelect(u) \/ RunPrintFile(u) \/ RunM24(u)
  \/ RunM26(u) \/ RunToolReport(u) \/ RunSetChannel(u) \/ RunSetPauseState(u)
  \/ SensePaused(u) \/ SenseDelayOver(u)

UserNext ==
  \/ \E c \in Clients, k \in Commands : Issue(c, k)
  \/ \E s \in Sensors : Sense(s)
  \/ \E u \in Users : UserStep(u)

Next == Grant \/ WorkerNext \/ UserNext \/ Shutdown

Spec == Init /\ [][Next]_vars

\* The reactor runs every greenlet whose time has come: each pass over the
\* timers runs all that are due, so commands that keep coming cannot hold off
\* the worker.  Nothing forces a client to send a command.
Fairness ==
  /\ WF_vars(Grant)
  /\ SF_vars(WorkerNext)
  /\ \A u \in Users : WF_vars(UserStep(u))

FairSpec == Spec /\ Fairness

-----------------------------------------------------------------------------
(* Properties. *)

States == {"standby", "printing", "paused", "complete", "cancelled", "error"}

SdType ==
  sd \in [file: Files, current_file: BOOLEAN, file_position: Nat,
          next_file_position: Nat, work_timer: BOOLEAN, must_pause_work: BOOLEAN,
          cmd_from_sd: BOOLEAN, change_filament: BOOLEAN, after_channel_g1: BOOLEAN,
          print_channel: Tools, load_channel: Tools]
WorkType ==
  work \in [at: WorkerPlaces, lines: Nat, pending_feedrate: BOOLEAN, error: BOOLEAN]
PauseType == pr \in [is_paused: BOOLEAN, sd_paused: BOOLEAN, pause_command_sent: BOOLEAN]
StatsType == stats \in [state: States, started: BOOLEAN]
LockType ==
  /\ cpu \in Procs \cup {Nobody} /\ holder \in Procs \cup {Nobody}
  /\ waiting \in Seq(Procs)
UserType == upc \in [Users -> UserPlaces] /\ cmd \in [Users -> AllCommands]
HistType ==
  hist \in [dealt: Nat, in_order: BOOLEAN, stopped: BOOLEAN, revived: BOOLEAN,
            tool: Tools, sure: BOOLEAN]

TypeOK ==
  /\ SdType /\ WorkType /\ PauseType /\ StatsType /\ LockType /\ UserType
  /\ HistType /\ is_shutdown \in BOOLEAN

\* The worker runs lines of the file (as opposed to being off, or on its way
\* out, or dead).
InLoop == work.at \notin {"off", "armed", "leave", "flush", "dead"}

\* Each line of the file is dealt with once and in order, whatever pauses,
\* resumes, failed lines and cancelled prints come between; and when the
\* worker is gone, file_position is where the next start has to go on.
ResumesWhereItStopped ==
  /\ hist.in_order
  /\ ~sd.work_timer /\ sd.current_file => sd.file_position = hist.dealt

\* One worker at a time: work_timer is set exactly as long as the worker has
\* not returned, so "SD busy" keeps a second one out.
OneWorker == sd.work_timer <=> work.at # "off"

\* A command that waits to close the file finds it open: the worker does not
\* close it at its end in the meantime (closing None would shut the printer down).
ClosesOpenFile == \A u \in Users : upc[u] = "closing" => sd.current_file

\* A print is reported complete only if every line of its file was dealt with.
CompleteMeansWhole ==
  [][stats.state' = "complete" /\ stats.state # "complete"
     => hist.in_order /\ hist.dealt = Len(sd.file)]_vars

\* The reported state agrees with the worker: nothing is reported as printing
\* without a worker, and a worker that goes on with its file is reported.
ReportsPrinting ==
  /\ stats.state = "printing" => sd.work_timer
  /\ InLoop /\ ~sd.must_pause_work => stats.state = "printing" /\ stats.started

\* Once PAUSE, M25 or CANCEL_PRINT has returned, the worker starts no script of
\* the file until the print is resumed or another one is started.
StopIsFinal ==
  [][hist.stopped /\ hist.stopped' /\ work.at' \in FileScripts
     => ~(holder' = Worker /\ holder # Worker)]_vars

\* A command that waits for the worker to stop comes back.
StopReturns ==
  \A u \in Users :
    upc[u] \in {"pausing", "closing", "sensed"}
    ~> upc[u] \notin {"pausing", "closing", "sensed"}

\* The tool that the file asks for at line n: that of the last tool change before.
ToolAt(n) ==
  LET changes == {i \in 1..(n - 1) : sd.file[i] \in Tools}
  IN  IF changes = {} THEN hist.tool
      ELSE sd.file[CHOOSE i \in changes : \A j \in changes : j <= i]

\* No move is made with another tool in the head than the file asks for at its line,
\* nor while a tool change is under way, however the change was interrupted.  It
\* cannot be said once a CANCEL_PRINT has cut a tool change short (245 ends the wait,
\* and 877 records a tool that nobody has loaded), M26 has moved the position, perhaps
\* past one, or the screen has named a tool in the middle of a print (283-284), until it
\* names the loaded one before the next print.
RightTool ==
  hist.sure /\ work.at \in {"move", "hijackXY", "hijackZ"}
  => hist.tool = ToolAt(sd.next_file_position) /\ ~sd.change_filament

\* Once the printer is shut down, the worker starts no script of the file (a move on
\* the fast path would not notice that the handlers are gone), unless a RESUME that
\* the shutdown has found in its move has started the worker again: it does not look.
ShutdownIsFinal ==
  [][is_shutdown /\ ~hist.revived /\ work.at' \in FileScripts
     => ~(holder' = Worker /\ holder # Worker)]_vars
=============================================================================
