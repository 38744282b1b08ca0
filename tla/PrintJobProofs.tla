--------------------------- MODULE PrintJobProofs ---------------------------
(***************************************************************************)
(* Proofs about PrintJob, for any clients, sensors, files and commands:    *)
(* types; the position in the file; what print_stats reports; that nothing *)
(* of the file starts after a shutdown or a stop; the tool that is loaded. *)
(* Where a theorem needs it, it says what the files, the sensors or the    *)
(* commands may not contain.                                               *)
(***************************************************************************)
EXTENDS PrintJob, TLAPS

\* The mutex keeps its types whatever greenlet asks for it.
LEMMA RequestType ==
  ASSUME LockType, NEW p \in Procs, Request(p)
  PROVE  LockType'
<1>1. waiting \in Seq(Procs) /\ Append(waiting, p) \in Seq(Procs)
  BY DEF LockType
<1> QED BY <1>1 DEF LockType, Request

LEMMA RerequestType ==
  ASSUME LockType, NEW p \in Procs, Rerequest(p)
  PROVE  LockType'
<1>1. waiting \in Seq(Procs) /\ Append(waiting, p) \in Seq(Procs)
  BY DEF LockType
<1> QED BY <1>1 DEF LockType, Rerequest

\* Positions and the number of lines left are numbers.
LEMMA LineTypes ==
  ASSUME SdType
  PROVE  /\ sd.file_position + 1 \in Nat /\ sd.next_file_position \in Nat
         /\ sd.file_position \in Nat
         /\ Len(sd.file) \in Nat /\ Unread \in Int
BY PrintJobAssumption DEF SdType, Unread

LEMMA ZeroType == 0 \in Nat
OBVIOUS

LEMMA PauseFields ==
  ASSUME SdType
  PROVE  sd.work_timer \in BOOLEAN
BY DEF SdType

\* What print_stats does to its state.
LEMMA StartType ==
  ASSUME NoteStart
  PROVE  StatsType'
BY DEF NoteStart, StatsType, States

LEMMA PauseStatsType ==
  ASSUME StatsType, NotePause
  PROVE  StatsType'
BY DEF NotePause, StatsType, States

LEMMA FinishType ==
  ASSUME StatsType, NEW outcome \in {"error", "complete", "cancelled"},
         NoteFinish(outcome)
  PROVE  StatsType'
BY DEF NoteFinish, StatsType, States

LEMMA ResetType ==
  ASSUME StatsReset
  PROVE  StatsType'
BY DEF StatsReset, StatsType, States

LEMMA LeaveStats ==
  ASSUME StatsType, Leave
  PROVE  StatsType'
<1>1. CASE work.error
  BY <1>1, FinishType DEF Leave
<1>2. CASE ~work.error /\ sd.current_file
  BY <1>2, PauseStatsType DEF Leave
<1>3. CASE ~work.error /\ ~sd.current_file
  BY <1>3, FinishType DEF Leave
<1> QED BY <1>1, <1>2, <1>3

\* Every step of the worker keeps the types.
LEMMA WorkerTypes ==
  ASSUME TypeOK, WorkerNext
  PROVE  TypeOK'
<1>a. /\ SdType /\ WorkType /\ PauseType /\ StatsType /\ LockType /\ UserType
      /\ HistType /\ is_shutdown \in BOOLEAN
  BY DEF TypeOK
<1>b. Worker \in Procs
  BY DEF Procs, Worker
<1>1. CASE WorkStart
  <2>1. SdType'
    BY <1>a, <1>1 DEF WorkStart, SdType
  <2>2. WorkType'
    <3>1. CASE sd.current_file
      <4>1. work' = [at |-> "top", lines |-> 0, pending_feedrate |-> FALSE, error |-> FALSE]
        BY <1>1, <3>1 DEF WorkStart
      <4> QED BY <4>1, ZeroType DEF WorkType, WorkerPlaces
    <3>2. CASE ~sd.current_file
      BY <1>a, <1>1, <3>2 DEF WorkStart, WorkType, WorkerPlaces, Goes
    <3> QED BY <3>1, <3>2
  <2>3. StatsType'
    <3>1. CASE sd.current_file
      BY <1>1, <3>1, StartType DEF WorkStart
    <3>2. CASE ~sd.current_file
      BY <1>a, <1>1, <3>2 DEF WorkStart, StatsType
    <3> QED BY <3>1, <3>2
  <2>4. LockType'
    BY <1>a, <1>1, <1>b DEF WorkStart, LockType
  <2> QED BY <1>a, <1>1, <2>1, <2>2, <2>3, <2>4 DEF TypeOK, WorkStart, PauseType,
      UserType, HistType, userVars, lockVars
<1>2. CASE WorkAskedToStop
  <2>1. WorkType'
    BY <1>a, <1>2 DEF WorkAskedToStop, WorkType, Goes, WorkerPlaces
  <2>2. LockType'
    BY <1>a, <1>2, <1>b DEF WorkAskedToStop, LockType
  <2> QED BY <1>a, <1>2, <2>1, <2>2 DEF TypeOK, WorkAskedToStop, SdType, PauseType,
      StatsType, UserType, HistType, userVars, lockVars
<1>3. CASE WorkRead
  <2>1. WorkType'
    <3>1. (IF Unread < Chunk THEN Unread ELSE Chunk) \in Nat
      BY <1>a, <1>3, LineTypes, PrintJobAssumption DEF WorkRead
    <3> QED BY <1>a, <1>3, <3>1 DEF WorkRead, WorkType
  <2>2. LockType'
    BY <1>a, <1>3 DEF WorkRead, LockType
  <2> QED BY <1>a, <1>3, <2>1, <2>2 DEF TypeOK, WorkRead, SdType, PauseType, StatsType,
      UserType, HistType, userVars, lockVars
<1>4. CASE WorkReadFails
  <2>1. WorkType'
    BY <1>a, <1>4 DEF WorkReadFails, WorkType, Goes, WorkerPlaces
  <2>2. LockType'
    BY <1>a, <1>4, <1>b DEF WorkReadFails, LockType
  <2> QED BY <1>a, <1>4, <2>1, <2>2 DEF TypeOK, WorkReadFails, SdType, PauseType,
      StatsType, UserType, HistType, userVars, lockVars
<1>5. CASE WorkEndOfFile
  <2>1. SdType'
    BY <1>a, <1>5 DEF WorkEndOfFile, SdType
  <2>2. WorkType'
    BY <1>a, <1>5 DEF WorkEndOfFile, WorkType, Goes, WorkerPlaces
  <2>3. LockType'
    BY <1>a, <1>5, <1>b DEF WorkEndOfFile, LockType
  <2> QED BY <1>a, <1>5, <2>1, <2>2, <2>3 DEF TypeOK, WorkEndOfFile, PauseType,
      StatsType, UserType, HistType, userVars, lockVars
<1>6. CASE WorkComment
  <2>1. SdType'
    BY <1>a, <1>6, LineTypes DEF WorkComment, SdType
  <2>2. WorkType'
    <3>1. work.lines - 1 \in Nat
      BY <1>a, <1>6 DEF WorkComment, WorkType
    <3> QED BY <1>a, <1>6, <3>1 DEF WorkComment, WorkType, WorkerPlaces
  <2>3. LockType'
    BY <1>a, <1>6, <1>b DEF WorkComment, LockType
  <2>4. HistType'
    BY <1>a, <1>6, LineTypes DEF WorkComment, HistType, Dealt
  <2> QED BY <1>a, <1>6, <2>1, <2>2, <2>3, <2>4 DEF TypeOK, WorkComment, PauseType,
      StatsType, UserType, userVars, lockVars
<1>7. CASE WorkBusy
  <2>1. LockType'
    BY <1>a, <1>7 DEF WorkBusy, LockType
  <2> QED BY <1>a, <1>7, <2>1 DEF TypeOK, WorkBusy, SdType, WorkType, PauseType,
      StatsType, UserType, HistType, userVars, lockVars
<1>8. CASE WorkTakeLine
  <2>1. SdType'
    BY <1>a, <1>8, LineTypes DEF WorkTakeLine, SdType
  <2>2. WorkType'
    <3>1. work.lines - 1 \in Nat
      BY <1>a, <1>8 DEF WorkTakeLine, WorkType
    <3> QED BY <1>a, <1>8, <3>1 DEF WorkTakeLine, WorkType, WorkerPlaces
  <2>3. LockType'
    BY <1>a, <1>8, <1>b DEF WorkTakeLine, LockType
  <2> QED BY <1>a, <1>8, <2>1, <2>2, <2>3 DEF TypeOK, WorkTakeLine, PauseType,
      StatsType, UserType, HistType, userVars, lockVars
<1>9. CASE WorkDispatch
  <2>1. SdType'
    BY <1>a, <1>9 DEF WorkDispatch, SdType
  <2>2. WorkType'
    BY <1>a, <1>9 DEF WorkDispatch, WorkType, Goes, ScriptOf, WorkerScripts,
        FileScripts, WorkerPlaces
  <2>3. LockType'
    BY <1>a, <1>9, <1>b, RequestType DEF WorkDispatch
  <2> QED BY <1>a, <1>9, <2>1, <2>2, <2>3 DEF TypeOK, WorkDispatch, PauseType,
      StatsType, UserType, HistType, userVars, lockVars
<1>10. CASE WorkDefer
  <2>1. WorkType'
    BY <1>a, <1>10 DEF WorkDefer, WorkType, WorkerPlaces
  <2>2. HistType'
    BY <1>a, <1>10, LineTypes DEF WorkDefer, HistType, Dealt
  <2> QED BY <1>a, <1>10, <2>1, <2>2 DEF TypeOK, WorkDefer, SdType, PauseType,
      StatsType, LockType, UserType, userVars, lockVars
<1>11. CASE WorkRemember
  <2>1. SdType'
    BY <1>a, <1>11, LineTypes DEF WorkRemember, SdType, Continue
  <2>2. WorkType'
    BY <1>a, <1>11 DEF WorkRemember, WorkType, Continue, Goes, WorkerPlaces
  <2>3. LockType'
    BY <1>a, <1>11, <1>b DEF WorkRemember, LockType, Continue
  <2>4. HistType'
    BY <1>a, <1>11, LineTypes DEF WorkRemember, HistType, Continue, Dealt
  <2> QED BY <1>a, <1>11, <2>1, <2>2, <2>3, <2>4 DEF TypeOK, WorkRemember, PauseType,
      StatsType, UserType, userVars, lockVars, Continue
<1>12. CASE WorkSameTool
  <2>1. SdType'
    BY <1>a, <1>12, LineTypes DEF WorkSameTool, SdType, Continue, ToolIsLoaded, Tools
  <2>2. WorkType'
    BY <1>a, <1>12 DEF WorkSameTool, WorkType, Continue, Goes, WorkerPlaces
  <2>3. LockType'
    BY <1>a, <1>12, <1>b DEF WorkSameTool, LockType, Continue
  <2>4. HistType'
    BY <1>a, <1>12, LineTypes DEF WorkSameTool, HistType, Continue, Dealt
  <2> QED BY <1>a, <1>12, <2>1, <2>2, <2>3, <2>4 DEF TypeOK, WorkSameTool, PauseType,
      StatsType, UserType, userVars, lockVars, Continue
<1>13. CASE WorkPausesInScript
  <2>1. LockType'
    BY <1>a, <1>13 DEF WorkPausesInScript, LockType
  <2> QED BY <1>a, <1>13, <2>1 DEF TypeOK, WorkPausesInScript, SdType, WorkType,
      PauseType, StatsType, UserType, HistType, userVars, lockVars
<1>14. CASE WorkScriptEnds
  <2>1. SdType'
    BY <1>a, <1>14 DEF WorkScriptEnds, SdType, PauseFromFile
  <2>2. WorkType'
    BY <1>a, <1>14 DEF WorkScriptEnds, WorkType, WorkerPlaces
  <2>3. PauseType'
    <3>1. CASE PauseFromFile
      <4>1. PICK b \in BOOLEAN :
              pr' = [is_paused |-> TRUE, pause_command_sent |-> TRUE, sd_paused |-> b]
        BY <3>1 DEF PauseFromFile
      <4> QED BY <4>1 DEF PauseType
    <3>2. CASE pr' = pr
      BY <1>a, <3>2 DEF PauseType
    <3> QED BY <1>14, <3>1, <3>2 DEF WorkScriptEnds
  <2>4. LockType'
    BY <1>a, <1>14, <1>b DEF WorkScriptEnds, LockType, Release
  <2>5. HistType'
    BY <1>a, <1>14, LineTypes DEF WorkScriptEnds, HistType, Dealt
  <2> QED BY <1>a, <1>14, <2>1, <2>2, <2>3, <2>4, <2>5 DEF TypeOK, WorkScriptEnds,
      StatsType, UserType, userVars, lockVars, PauseFromFile
<1>15. CASE WorkScriptFails
  <2>1. WorkType'
    BY <1>a, <1>15 DEF WorkScriptFails, WorkType, WorkerScripts, WorkerPlaces
  <2>2. LockType'
    BY <1>a, <1>15, <1>b, RerequestType DEF WorkScriptFails
  <2> QED BY <1>a, <1>15, <2>1, <2>2 DEF TypeOK, WorkScriptFails, SdType, PauseType,
      StatsType, UserType, HistType, userVars, lockVars
<1>16. CASE WorkScriptCrashes
  <2>1. SdType'
    BY <1>a, <1>16 DEF WorkScriptCrashes, SdType
  <2>2. WorkType'
    BY <1>a, <1>16 DEF WorkScriptCrashes, WorkType, Goes, WorkerPlaces
  <2>3. LockType'
    BY <1>a, <1>16, <1>b DEF WorkScriptCrashes, LockType, Release
  <2> QED BY <1>a, <1>16, <2>1, <2>2, <2>3 DEF TypeOK, WorkScriptCrashes, PauseType,
      StatsType, UserType, HistType, userVars, lockVars
<1>17. CASE WorkOnError
  <2>1. WorkType'
    BY <1>a, <1>17 DEF WorkOnError, WorkType, Goes, WorkerPlaces
  <2>2. LockType'
    BY <1>a, <1>17, <1>b DEF WorkOnError, LockType, Release
  <2> QED BY <1>a, <1>17, <2>1, <2>2 DEF TypeOK, WorkOnError, SdType, PauseType,
      StatsType, UserType, HistType, userVars, lockVars
<1>18. CASE WorkBatchYield
  <2>1. LockType'
    BY <1>a, <1>18 DEF WorkBatchYield, LockType
  <2> QED BY <1>a, <1>18, <2>1 DEF TypeOK, WorkBatchYield, SdType, WorkType, PauseType,
      StatsType, UserType, HistType, userVars, lockVars
<1>19. CASE WorkLineDone
  <2>1. SdType'
    BY <1>a, <1>19, LineTypes DEF WorkLineDone, SdType
  <2>2. WorkType'
    BY <1>a, <1>19 DEF WorkLineDone, WorkType, Goes, WorkerPlaces
  <2>3. LockType'
    BY <1>a, <1>19, <1>b DEF WorkLineDone, LockType
  <2> QED BY <1>a, <1>19, <2>1, <2>2, <2>3 DEF TypeOK, WorkLineDone, PauseType,
      StatsType, UserType, HistType, userVars, lockVars
<1>20. CASE WorkReplacedEnds
  <2>1. SdType'
    BY <1>a, <1>20, LineTypes DEF WorkReplacedEnds, SdType, Continue
  <2>2. WorkType'
    BY <1>a, <1>20 DEF WorkReplacedEnds, WorkType, Continue, Goes, WorkerPlaces
  <2>3. LockType'
    BY <1>a, <1>20, <1>b DEF WorkReplacedEnds, LockType, Continue, Release
  <2>4. HistType'
    BY <1>a, <1>20, LineTypes DEF WorkReplacedEnds, HistType, Continue, Dealt
  <2> QED BY <1>a, <1>20, <2>1, <2>2, <2>3, <2>4 DEF TypeOK, WorkReplacedEnds,
      PauseType, StatsType, UserType, userVars, lockVars, Continue
<1>21. CASE WorkHijackXY
  <2>1. WorkType'
    BY <1>a, <1>21 DEF WorkHijackXY, WorkType, Goes, WorkerScripts, FileScripts,
        WorkerPlaces
  <2>2. LockType'
    BY <1>a, <1>21, <1>b, RerequestType DEF WorkHijackXY
  <2> QED BY <1>a, <1>21, <2>1, <2>2 DEF TypeOK, WorkHijackXY, SdType, PauseType,
      StatsType, UserType, HistType, userVars, lockVars
<1>22. CASE WorkHijackZ
  <2>1. SdType'
    BY <1>a, <1>22, LineTypes DEF WorkHijackZ, SdType, Continue
  <2>2. WorkType'
    BY <1>a, <1>22 DEF WorkHijackZ, WorkType, Continue, Goes, WorkerPlaces
  <2>3. LockType'
    BY <1>a, <1>22, <1>b DEF WorkHijackZ, LockType, Continue, Release
  <2>4. HistType'
    BY <1>a, <1>22, LineTypes DEF WorkHijackZ, HistType, Continue, Dealt
  <2> QED BY <1>a, <1>22, <2>1, <2>2, <2>3, <2>4 DEF TypeOK, WorkHijackZ, PauseType,
      StatsType, UserType, userVars, lockVars, Continue
<1>23. CASE WorkMovesFinished
  <2>1. SdType'
    BY <1>a, <1>23 DEF WorkMovesFinished, SdType
  <2>2. WorkType'
    BY <1>a, <1>23 DEF WorkMovesFinished, WorkType, Goes, WorkerPlaces
  <2>3. LockType'
    BY <1>a, <1>23 DEF WorkMovesFinished, LockType, Release
  <2> QED BY <1>a, <1>23, <2>1, <2>2, <2>3 DEF TypeOK, WorkMovesFinished, PauseType,
      StatsType, UserType, HistType, userVars, lockVars
<1>24. CASE WorkToolChanged
  <2>1. WorkType'
    BY <1>a, <1>24 DEF WorkToolChanged, WorkType, Goes, WorkerScripts, WorkerPlaces
  <2>2. LockType'
    BY <1>a, <1>24, <1>b, RequestType DEF WorkToolChanged
  <2> QED BY <1>a, <1>24, <2>1, <2>2 DEF TypeOK, WorkToolChanged, SdType, PauseType,
      StatsType, UserType, HistType, userVars, lockVars
<1>25. CASE WorkVelocityRestored
  <2>1. SdType'
    BY <1>a, <1>25, LineTypes DEF WorkVelocityRestored, SdType, Continue
  <2>2. WorkType'
    BY <1>a, <1>25 DEF WorkVelocityRestored, WorkType, Continue, Goes, WorkerPlaces
  <2>3. LockType'
    BY <1>a, <1>25, <1>b DEF WorkVelocityRestored, LockType, Continue, Release
  <2>4. HistType'
    BY <1>a, <1>25, LineTypes DEF WorkVelocityRestored, HistType, Continue, Dealt
  <2> QED BY <1>a, <1>25, <2>1, <2>2, <2>3, <2>4 DEF TypeOK, WorkVelocityRestored,
      PauseType, StatsType, UserType, userVars, lockVars, Continue
<1>26. CASE WorkDies
  <2>1. SdType'
    BY <1>a, <1>26 DEF WorkDies, SdType
  <2>2. WorkType'
    BY <1>a, <1>26 DEF WorkDies, WorkType, Goes, WorkerPlaces
  <2>3. LockType'
    BY <1>a, <1>26 DEF WorkDies, LockType, Release
  <2> QED BY <1>a, <1>26, <2>1, <2>2, <2>3 DEF TypeOK, WorkDies, PauseType, StatsType,
      UserType, HistType, userVars, lockVars
<1>27. CASE WorkLeave
  <2>1. SdType'
    BY <1>a, <1>27 DEF WorkLeave, SdType, Leave
  <2>2. WorkType'
    BY <1>a, <1>27 DEF WorkLeave, WorkType, Leave, WorkerPlaces
  <2>3. StatsType'
    BY <1>a, <1>27, LeaveStats DEF WorkLeave, StatsType
  <2>4. LockType'
    BY <1>a, <1>27 DEF WorkLeave, LockType, Leave
  <2> QED BY <1>a, <1>27, <2>1, <2>2, <2>3, <2>4 DEF TypeOK, WorkLeave, PauseType,
      UserType, HistType, userVars, lockVars, Leave
<1>28. CASE WorkLeaveFlush
  <2>1. WorkType'
    BY <1>a, <1>28 DEF WorkLeaveFlush, WorkType, Goes, WorkerScripts, WorkerPlaces
  <2>2. LockType'
    BY <1>a, <1>28, <1>b, RequestType DEF WorkLeaveFlush
  <2> QED BY <1>a, <1>28, <2>1, <2>2 DEF TypeOK, WorkLeaveFlush, SdType, PauseType,
      StatsType, UserType, HistType, userVars, lockVars
<1>29. CASE WorkFlushed
  <2>1. SdType'
    BY <1>a, <1>29 DEF WorkFlushed, SdType, Leave
  <2>2. WorkType'
    BY <1>a, <1>29 DEF WorkFlushed, WorkType, Leave, WorkerPlaces
  <2>3. StatsType'
    BY <1>a, <1>29, LeaveStats DEF WorkFlushed, StatsType
  <2>4. LockType'
    BY <1>a, <1>29 DEF WorkFlushed, LockType, Leave, Release
  <2> QED BY <1>a, <1>29, <2>1, <2>2, <2>3, <2>4 DEF TypeOK, WorkFlushed, PauseType,
      UserType, HistType, userVars, lockVars, Leave
<1> QED BY <1>1, <1>2, <1>3, <1>4, <1>5, <1>6, <1>7, <1>8, <1>9, <1>10, <1>11, <1>12,
    <1>13, <1>14, <1>15, <1>16, <1>17, <1>18, <1>19, <1>20, <1>21, <1>22, <1>23, <1>24,
    <1>25, <1>26, <1>27, <1>28, <1>29 DEF WorkerNext

\* Every step of a user keeps the types.
LEMMA UserTypes ==
  ASSUME TypeOK, NEW u \in Users, NEW k \in AllCommands,
         Issue(u, k) \/ Sense(u) \/ UserStep(u)
  PROVE  TypeOK'
<1>a. /\ SdType /\ WorkType /\ PauseType /\ StatsType /\ LockType /\ UserType
      /\ HistType /\ is_shutdown \in BOOLEAN
  BY DEF TypeOK
<1>b. u \in Procs /\ u \in Users /\ k \in AllCommands
  BY PrintJobAssumption DEF Procs
<1>1. CASE RunRefused(u)
  <2>1. LockType'
    BY <1>a, <1>1, <1>b DEF RunRefused, LockType, Return, Release
  <2>2. UserType'
    BY <1>a, <1>1, <1>b DEF RunRefused, UserType, Return, UserGoes, UserPlaces,
        AllCommands
  <2> QED BY <1>a, <1>1, <2>1, <2>2 DEF TypeOK, RunRefused, SdType, WorkType, PauseType,
      StatsType, HistType, userVars, lockVars, Return
<1>2. CASE RunPause(u)
  <2>1. SdType'
    BY <1>a, <1>2 DEF RunPause, SdType, SendPause, AskToStop
  <2>2. PauseType'
    BY <1>a, <1>2, PauseFields DEF RunPause, PauseType, SendPause
  <2>3. LockType'
    BY <1>a, <1>2, <1>b DEF RunPause, LockType, Proceed, lockVars
  <2>4. UserType'
    BY <1>a, <1>2, <1>b DEF RunPause, UserType, Proceed, UserGoes, UserPlaces,
        AllCommands
  <2> QED BY <1>a, <1>2, <2>1, <2>2, <2>3, <2>4 DEF TypeOK, RunPause, WorkType,
      StatsType, HistType, userVars, lockVars, Proceed
<1>3. CASE AwaitWorker(u)
  <2>1. LockType'
    BY <1>a, <1>3, <1>b DEF AwaitWorker, LockType
  <2> QED BY <1>a, <1>3, <2>1 DEF TypeOK, AwaitWorker, SdType, WorkType, PauseType,
      StatsType, UserType, HistType, userVars, lockVars
<1>4. CASE PauseDone(u)
  <2>1. PauseType'
    BY <1>a, <1>4 DEF PauseDone, PauseType
  <2>2. LockType'
    BY <1>a, <1>4, <1>b DEF PauseDone, LockType, Return, Release
  <2>3. UserType'
    BY <1>a, <1>4, <1>b DEF PauseDone, UserType, Return, UserGoes, UserPlaces,
        AllCommands
  <2>4. HistType'
    BY <1>a, <1>4 DEF PauseDone, HistType
  <2> QED BY <1>a, <1>4, <2>1, <2>2, <2>3, <2>4 DEF TypeOK, PauseDone, SdType, WorkType,
      StatsType, userVars, lockVars, Return
<1>5. CASE RunM25(u)
  <2>1. SdType'
    BY <1>a, <1>5 DEF RunM25, SdType, AskToStop
  <2>2. LockType'
    BY <1>a, <1>5, <1>b DEF RunM25, LockType, Proceed, lockVars
  <2>3. UserType'
    BY <1>a, <1>5, <1>b DEF RunM25, UserType, Proceed, UserGoes, UserPlaces, AllCommands
  <2> QED BY <1>a, <1>5, <2>1, <2>2, <2>3 DEF TypeOK, RunM25, WorkType, PauseType,
      StatsType, HistType, userVars, lockVars, Proceed
<1>6. CASE M25Done(u)
  <2>1. LockType'
    BY <1>a, <1>6, <1>b DEF M25Done, LockType, Return, Release
  <2>2. UserType'
    BY <1>a, <1>6, <1>b DEF M25Done, UserType, Return, UserGoes, UserPlaces, AllCommands
  <2>3. HistType'
    BY <1>a, <1>6 DEF M25Done, HistType
  <2> QED BY <1>a, <1>6, <2>1, <2>2, <2>3 DEF TypeOK, M25Done, SdType, WorkType,
      PauseType, StatsType, userVars, lockVars, Return
<1>7. CASE RunResume(u)
  <2>1. LockType'
    BY <1>a, <1>7, <1>b DEF RunResume, LockType
  <2>2. UserType'
    BY <1>a, <1>7, <1>b DEF RunResume, UserType, UserGoes, UserPlaces, AllCommands
  <2> QED BY <1>a, <1>7, <2>1, <2>2 DEF TypeOK, RunResume, SdType, WorkType, PauseType,
      StatsType, HistType, userVars, lockVars
<1>8. CASE ResumeDone(u)
  <2>1. SdType'
    BY <1>a, <1>8 DEF ResumeDone, SdType, DoResume
  <2>2. WorkType'
    BY <1>a, <1>8 DEF ResumeDone, WorkType, DoResume, Goes, WorkerPlaces
  <2>3. PauseType'
    BY <1>a, <1>8 DEF ResumeDone, PauseType
  <2>4. LockType'
    BY <1>a, <1>8, <1>b DEF ResumeDone, LockType, Return, Release
  <2>5. UserType'
    BY <1>a, <1>8, <1>b DEF ResumeDone, UserType, Return, UserGoes, UserPlaces,
        AllCommands
  <2>6. HistType'
    BY <1>a, <1>8 DEF ResumeDone, HistType, DoResume
  <2> QED BY <1>a, <1>8, <2>1, <2>2, <2>3, <2>4, <2>5, <2>6 DEF TypeOK, ResumeDone,
      StatsType, userVars, lockVars, Return, DoResume
<1>9. CASE ResumeFails(u)
  <2>1. LockType'
    BY <1>a, <1>9, <1>b DEF ResumeFails, LockType, Return, Release
  <2>2. UserType'
    BY <1>a, <1>9, <1>b DEF ResumeFails, UserType, Return, UserGoes, UserPlaces,
        AllCommands
  <2> QED BY <1>a, <1>9, <2>1, <2>2 DEF TypeOK, ResumeFails, SdType, WorkType,
      PauseType, StatsType, HistType, userVars, lockVars, Return
<1>10. CASE RunClearPause(u)
  <2>1. PauseType'
    BY <1>a, <1>10 DEF RunClearPause, PauseType, ClearPause
  <2>2. LockType'
    BY <1>a, <1>10, <1>b DEF RunClearPause, LockType, Return, Release
  <2>3. UserType'
    BY <1>a, <1>10, <1>b DEF RunClearPause, UserType, Return, UserGoes, UserPlaces,
        AllCommands
  <2> QED BY <1>a, <1>10, <2>1, <2>2, <2>3 DEF TypeOK, RunClearPause, SdType, WorkType,
      StatsType, HistType, userVars, lockVars, Return
<1>11. CASE RunCancel(u)
  <2>1. SdType'
    BY <1>a, <1>11 DEF RunCancel, SdType, AskToStop
  <2>2. LockType'
    BY <1>a, <1>11, <1>b DEF RunCancel, LockType, Proceed, lockVars
  <2>3. UserType'
    BY <1>a, <1>11, <1>b DEF RunCancel, UserType, Proceed, UserGoes, UserPlaces,
        AllCommands
  <2> QED BY <1>a, <1>11, <2>1, <2>2, <2>3 DEF TypeOK, RunCancel, WorkType, PauseType,
      StatsType, HistType, userVars, lockVars, Proceed
<1>12. CASE RunCancelNothing(u)
  <2>1. SdType'
    <3>1. (IF CancelsFile THEN 0 ELSE sd.file_position) \in Nat
      BY <1>a, LineTypes
    <3> QED BY <1>a, <1>12, <3>1 DEF RunCancelNothing, SdType
  <2>2. PauseType'
    BY <1>a, <1>12 DEF RunCancelNothing, PauseType, ClearPause
  <2>3. LockType'
    BY <1>a, <1>12, <1>b DEF RunCancelNothing, LockType, Return, Release
  <2>4. UserType'
    BY <1>a, <1>12, <1>b DEF RunCancelNothing, UserType, Return, UserGoes, UserPlaces,
        AllCommands
  <2> QED BY <1>a, <1>12, <2>1, <2>2, <2>3, <2>4 DEF TypeOK, RunCancelNothing, WorkType,
      StatsType, HistType, userVars, lockVars, Return
<1>13. CASE CancelDone(u)
  <2>1. SdType'
    BY <1>a, <1>13, ZeroType DEF CancelDone, SdType
  <2>2. PauseType'
    BY <1>a, <1>13 DEF CancelDone, PauseType, ClearPause
  <2>3. StatsType'
    BY <1>a, <1>13, FinishType DEF CancelDone, StatsType
  <2>4. LockType'
    BY <1>a, <1>13, <1>b DEF CancelDone, LockType, Return, Release
  <2>5. UserType'
    BY <1>a, <1>13, <1>b DEF CancelDone, UserType, Return, UserGoes, UserPlaces,
        AllCommands
  <2>6. HistType'
    BY <1>a, <1>13 DEF CancelDone, HistType
  <2> QED BY <1>a, <1>13, <2>1, <2>2, <2>3, <2>4, <2>5, <2>6 DEF TypeOK, CancelDone,
      WorkType, userVars, lockVars, Return
<1>14. CASE RunReset(u)
  <2>1. SdType'
    BY <1>a, <1>14 DEF RunReset, SdType, AskToStop
  <2>2. LockType'
    BY <1>a, <1>14, <1>b DEF RunReset, LockType, Proceed, lockVars
  <2>3. UserType'
    BY <1>a, <1>14, <1>b DEF RunReset, UserType, Proceed, UserGoes, UserPlaces,
        AllCommands
  <2> QED BY <1>a, <1>14, <2>1, <2>2, <2>3 DEF TypeOK, RunReset, WorkType, PauseType,
      StatsType, HistType, userVars, lockVars, Proceed
<1>15. CASE RunResetNothing(u)
  <2>1. SdType'
    BY <1>a, <1>15, ZeroType DEF RunResetNothing, SdType
  <2>2. StatsType'
    BY <1>a, <1>15, ResetType DEF RunResetNothing, StatsType
  <2>3. LockType'
    BY <1>a, <1>15, <1>b DEF RunResetNothing, LockType, Return, Release
  <2>4. UserType'
    BY <1>a, <1>15, <1>b DEF RunResetNothing, UserType, Return, UserGoes, UserPlaces,
        AllCommands
  <2> QED BY <1>a, <1>15, <2>1, <2>2, <2>3, <2>4 DEF TypeOK, RunResetNothing, WorkType,
      PauseType, HistType, userVars, lockVars, Return
<1>16. CASE ResetDone(u)
  <2>1. SdType'
    BY <1>a, <1>16, ZeroType DEF ResetDone, SdType
  <2>2. StatsType'
    BY <1>a, <1>16, ResetType DEF ResetDone, StatsType
  <2>3. LockType'
    BY <1>a, <1>16, <1>b DEF ResetDone, LockType, Return, Release
  <2>4. UserType'
    BY <1>a, <1>16, <1>b DEF ResetDone, UserType, Return, UserGoes, UserPlaces,
        AllCommands
  <2> QED BY <1>a, <1>16, <2>1, <2>2, <2>3, <2>4 DEF TypeOK, ResetDone, WorkType,
      PauseType, HistType, userVars, lockVars, Return
<1>17. CASE RunSelect(u)
  <2>1. SdType'
    <3>1. PICK f \in Files, opened \in BOOLEAN :
            sd' = [Loaded(f, opened) EXCEPT !.change_filament = FALSE]
      BY <1>17, PrintJobAssumption DEF RunSelect
    <3> QED BY <1>a, <3>1, ZeroType DEF Loaded, SdType
  <2>2. StatsType'
    BY <1>a, <1>17, ResetType DEF RunSelect, StatsType
  <2>3. LockType'
    BY <1>a, <1>17, <1>b DEF RunSelect, LockType, Return, Release
  <2>4. UserType'
    BY <1>a, <1>17, <1>b DEF RunSelect, UserType, Return, UserGoes, UserPlaces,
        AllCommands
  <2>5. HistType'
    BY <1>a, <1>17, ZeroType DEF RunSelect, HistType
  <2> QED BY <1>a, <1>17, <2>1, <2>2, <2>3, <2>4, <2>5 DEF TypeOK, RunSelect, WorkType,
      PauseType, userVars, lockVars, Return
<1>18. CASE RunPrintFile(u)
  <2>1. SdType'
    <3>1. PICK f \in Files, opened \in BOOLEAN :
            sd' = [Loaded(f, opened) EXCEPT !.work_timer = opened,
                                            !.must_pause_work = @ /\ ~opened]
      BY <1>18, PrintJobAssumption DEF RunPrintFile
    <3> QED BY <1>a, <3>1, ZeroType DEF Loaded, SdType
  <2>2. WorkType'
    <3>1. PICK opened \in BOOLEAN : Goes(IF opened THEN "armed" ELSE "off")
      BY <1>18, PrintJobAssumption DEF RunPrintFile
    <3> QED BY <1>a, <3>1 DEF Goes, WorkType, WorkerPlaces
  <2>3. StatsType'
    BY <1>a, <1>18, ResetType DEF RunPrintFile, StatsType
  <2>4. LockType'
    BY <1>a, <1>18, <1>b DEF RunPrintFile, LockType, Return, Release
  <2>5. UserType'
    BY <1>a, <1>18, <1>b DEF RunPrintFile, UserType, Return, UserGoes, UserPlaces,
        AllCommands
  <2>6. HistType'
    <3>1. PICK opened \in BOOLEAN :
            hist' = [hist EXCEPT !.dealt = 0, !.in_order = TRUE, !.stopped = @ /\ ~opened]
      BY <1>a, <1>18, PrintJobAssumption DEF RunPrintFile, HistType
    <3> QED BY <1>a, <3>1, ZeroType DEF HistType
  <2> QED BY <1>a, <1>18, <2>1, <2>2, <2>3, <2>4, <2>5, <2>6 DEF TypeOK, RunPrintFile,
      PauseType, userVars, lockVars, Return
<1>19. CASE RunM24(u)
  <2>1. SdType'
    BY <1>a, <1>19 DEF RunM24, SdType, DoResume
  <2>2. WorkType'
    BY <1>a, <1>19 DEF RunM24, WorkType, DoResume, Goes, WorkerPlaces
  <2>3. LockType'
    BY <1>a, <1>19, <1>b DEF RunM24, LockType, Return, Release
  <2>4. UserType'
    BY <1>a, <1>19, <1>b DEF RunM24, UserType, Return, UserGoes, UserPlaces, AllCommands
  <2>5. HistType'
    BY <1>a, <1>19 DEF RunM24, HistType, DoResume
  <2> QED BY <1>a, <1>19, <2>1, <2>2, <2>3, <2>4, <2>5 DEF TypeOK, RunM24, PauseType,
      StatsType, userVars, lockVars, Return, DoResume
<1>20. CASE RunM26(u)
  <2>1. SdType'
    <3>1. PICK p \in 0..Len(sd.file) : sd' = [sd EXCEPT !.file_position = p]
      BY <1>20 DEF RunM26
    <3>2. p \in Nat
      BY <1>a, <3>1, LineTypes
    <3> QED BY <1>a, <3>1, <3>2 DEF SdType
  <2>2. LockType'
    BY <1>a, <1>20, <1>b DEF RunM26, LockType, Return, Release
  <2>3. UserType'
    BY <1>a, <1>20, <1>b DEF RunM26, UserType, Return, UserGoes, UserPlaces, AllCommands
  <2>4. HistType'
    <3>1. PICK p \in 0..Len(sd.file) :
            hist' = [hist EXCEPT !.dealt = p, !.in_order = TRUE, !.sure = FALSE]
      BY <1>20 DEF RunM26
    <3>2. p \in Nat
      BY <1>a, <3>1, LineTypes
    <3> QED BY <1>a, <3>1, <3>2 DEF HistType
  <2> QED BY <1>a, <1>20, <2>1, <2>2, <2>3, <2>4 DEF TypeOK, RunM26, WorkType,
      PauseType, StatsType, userVars, lockVars, Return
<1>21. CASE RunToolReport(u)
  <2>1. SdType'
    BY <1>a, <1>21 DEF RunToolReport, SdType
  <2>2. LockType'
    BY <1>a, <1>21, <1>b DEF RunToolReport, LockType, Return, Release
  <2>3. UserType'
    BY <1>a, <1>21, <1>b DEF RunToolReport, UserType, Return, UserGoes, UserPlaces,
        AllCommands
  <2>4. HistType'
    BY <1>a, <1>21 DEF RunToolReport, HistType, SdType
  <2> QED BY <1>a, <1>21, <2>1, <2>2, <2>3, <2>4 DEF TypeOK, RunToolReport, WorkType,
      PauseType, StatsType, userVars, lockVars, Return
<1>26. CASE RunSetChannel(u)
  <2>1. SdType'
    BY <1>a, <1>26 DEF RunSetChannel, SdType, HistType
  <2>2. LockType'
    BY <1>a, <1>26, <1>b DEF RunSetChannel, LockType, Return, Release
  <2>3. UserType'
    BY <1>a, <1>26, <1>b DEF RunSetChannel, UserType, Return, UserGoes, UserPlaces,
        AllCommands
  <2>4. HistType'
    BY <1>a, <1>26 DEF RunSetChannel, HistType, SdType
  <2> QED BY <1>a, <1>26, <2>1, <2>2, <2>3, <2>4 DEF TypeOK, RunSetChannel, WorkType,
      PauseType, StatsType, userVars, lockVars, Return
<1>27. CASE RunSetPauseState(u)
  <2>1. SdType'
    BY <1>a, <1>27 DEF RunSetPauseState, SdType
  <2>2. LockType'
    BY <1>a, <1>27, <1>b DEF RunSetPauseState, LockType, Return, Release
  <2>3. UserType'
    BY <1>a, <1>27, <1>b DEF RunSetPauseState, UserType, Return, UserGoes, UserPlaces,
        AllCommands
  <2> QED BY <1>a, <1>27, <2>1, <2>2, <2>3 DEF TypeOK, RunSetPauseState, WorkType,
      PauseType, StatsType, HistType, userVars, lockVars, Return
<1>22. CASE SensePaused(u)
  <2>1. PauseType'
    BY <1>a, <1>22 DEF SensePaused, PauseType
  <2>2. LockType'
    BY <1>a, <1>22, <1>b DEF SensePaused, LockType
  <2>3. UserType'
    BY <1>a, <1>22, <1>b DEF SensePaused, UserType, UserGoes, UserPlaces, AllCommands
  <2> QED BY <1>a, <1>22, <2>1, <2>2, <2>3 DEF TypeOK, SensePaused, SdType, WorkType,
      StatsType, HistType, userVars, lockVars
<1>23. CASE SenseDelayOver(u)
  <2>1. LockType'
    BY <1>a, <1>23, <1>b, RequestType DEF SenseDelayOver
  <2>2. UserType'
    BY <1>a, <1>23, <1>b DEF SenseDelayOver, UserType, UserGoes, UserPlaces, AllCommands
  <2> QED BY <1>a, <1>23, <2>1, <2>2 DEF TypeOK, SenseDelayOver, SdType, WorkType,
      PauseType, StatsType, HistType, userVars, lockVars
<1>24. CASE Issue(u, k)
  <2>1. LockType'
    BY <1>a, <1>24, <1>b, RequestType DEF Issue
  <2>2. UserType'
    BY <1>a, <1>24, <1>b DEF Issue, UserType, UserGoes, UserPlaces, AllCommands
  <2> QED BY <1>a, <1>24, <2>1, <2>2 DEF TypeOK, Issue, SdType, WorkType, PauseType,
      StatsType, HistType, userVars, lockVars
<1>25. CASE Sense(u)
  <2>1. SdType'
    BY <1>a, <1>25 DEF Sense, SdType, SendPause, AskToStop
  <2>2. PauseType'
    BY <1>a, <1>25, PauseFields DEF Sense, PauseType, SendPause
  <2>3. LockType'
    BY <1>a, <1>25, <1>b DEF Sense, LockType
  <2>4. UserType'
    BY <1>a, <1>25, <1>b DEF Sense, UserType, UserGoes, UserPlaces, AllCommands
  <2> QED BY <1>a, <1>25, <2>1, <2>2, <2>3, <2>4 DEF TypeOK, Sense, WorkType, StatsType,
      HistType, userVars, lockVars
<1> QED BY <1>1, <1>2, <1>3, <1>4, <1>5, <1>6, <1>7, <1>8, <1>9, <1>10, <1>11, <1>12,
    <1>13, <1>14, <1>15, <1>16, <1>17, <1>18, <1>19, <1>20, <1>21, <1>22, <1>23, <1>24,
    <1>25, <1>26, <1>27 DEF UserStep

\* The types hold at first, and a step that changes nothing keeps them.
LEMMA InitTypes == Init => TypeOK
<1> SUFFICES ASSUME Init PROVE TypeOK
  OBVIOUS
<1>1. SdType
  BY ZeroType DEF Init, SdType, Tools
<1>2. WorkType /\ PauseType /\ StatsType
  BY ZeroType DEF Init, WorkType, PauseType, StatsType, WorkerPlaces, States
<1>3. LockType /\ UserType
  BY DEF Init, LockType, UserType, UserPlaces, AllCommands
<1>4. HistType
  BY ZeroType DEF Init, HistType, Tools
<1> QED BY <1>1, <1>2, <1>3, <1>4 DEF TypeOK, Init

LEMMA NextTypes ==
  ASSUME TypeOK, [Next]_vars
  PROVE  TypeOK'
<1>a. /\ SdType /\ WorkType /\ PauseType /\ StatsType /\ LockType /\ UserType
      /\ HistType /\ is_shutdown \in BOOLEAN
  BY DEF TypeOK
<1>1. CASE Grant
  <2>1. Head(waiting) \in Procs /\ Tail(waiting) \in Seq(Procs)
    BY <1>a, <1>1 DEF Grant, LockType
  <2>2. LockType'
    BY <1>1, <2>1 DEF Grant, LockType
  <2> QED BY <1>a, <1>1, <2>2 DEF TypeOK, Grant, SdType, WorkType, PauseType,
             StatsType, UserType, HistType, userVars
<1>2. CASE WorkerNext
  BY <1>2, WorkerTypes
<1>3. CASE UserNext
  <2>0. "PAUSE" \in AllCommands
    BY DEF AllCommands
  <2>1. ASSUME NEW c \in Clients, NEW k \in Commands, Issue(c, k)
        PROVE  TypeOK'
    BY <2>1, UserTypes, PrintJobAssumption DEF Users
  <2>2. ASSUME NEW s \in Sensors, Sense(s)
        PROVE  TypeOK'
    BY <2>2, <2>0, UserTypes DEF Users
  <2>3. ASSUME NEW u \in Users, UserStep(u)
        PROVE  TypeOK'
    BY <2>3, <2>0, UserTypes
  <2> QED BY <1>3, <2>1, <2>2, <2>3 DEF UserNext
<1>4. CASE Shutdown
  <2>1. SdType'
    BY <1>a, <1>4 DEF Shutdown, AskToStop, SdType
  <2> QED BY <1>a, <1>4, <2>1 DEF TypeOK, Shutdown, WorkType, PauseType,
             StatsType, LockType, UserType, HistType, userVars, lockVars
<1>5. CASE UNCHANGED vars
  BY <1>a, <1>5 DEF TypeOK, SdType, WorkType, PauseType, StatsType, LockType,
     UserType, HistType, vars, userVars, lockVars
<1> QED BY <1>1, <1>2, <1>3, <1>4, <1>5 DEF Next

\* The state of a print job keeps its types, for any files and clients.
THEOREM PrintJobTypes == Spec => []TypeOK
<1>1. Init => TypeOK
  BY InitTypes
<1>2. TypeOK /\ [Next]_vars => TypeOK'
  BY NextTypes
<1> QED BY <1>1, <1>2, PTL DEF Spec

-----------------------------------------------------------------------------
(* The position in the file. *)

\* Who is inside a command, past the mutex, holds it.
UsersHold ==
  \A u \in Users :
    /\ upc[u] \in {"pausing", "closing", "gcodeState"} => holder = u
    /\ upc[u] = "body" /\ cpu = u => holder = u

\* Where the worker has taken a line and not dealt with it.
InLine == {"dispatch", "move", "script", "replacedScript", "hijackXY", "hijackZ",
           "finishMoves", "toolWait", "restoreVelocity"}

\* The file is closed under a worker only when that worker has been asked to
\* stop, and who is about to close it has asked.
FileStaysOpen ==
  /\ InLoop /\ ~sd.must_pause_work => sd.current_file
  /\ \A u \in Users :
       upc[u] = "closing" => sd.current_file /\ (sd.work_timer => sd.must_pause_work)

\* The line at hand is the one after the last that was dealt with, and the
\* position, where it counts, is behind that one.
PositionInStep ==
  /\ work.at \in InLine => sd.next_file_position = hist.dealt + 1
  /\ work.at = "lineDone" => sd.next_file_position = hist.dealt
  /\ sd.current_file /\ work.at # "lineDone" => sd.file_position = hist.dealt

PositionInv ==
  TypeOK /\ OneWorker /\ UsersHold /\ FileStaysOpen /\ PositionInStep /\ hist.in_order

\* work_timer follows the worker: it is set where the worker is armed, and
\* cleared where it leaves or finds no file.
LEMMA OneWorkerStep ==
  ASSUME TypeOK, OneWorker, [Next]_vars
  PROVE  OneWorker'
<1>a. SdType /\ WorkType /\ (sd.work_timer <=> work.at # "off")
  BY DEF TypeOK, OneWorker
<1> USE DEF OneWorker, SdType, WorkType
<1>1. CASE WorkStart
  BY <1>a, <1>1 DEF WorkStart, Goes
<1>2. CASE WorkAskedToStop \/ WorkRead \/ WorkReadFails \/ WorkEndOfFile
  BY <1>a, <1>2 DEF WorkAskedToStop, WorkRead, WorkReadFails, WorkEndOfFile, AtTop, Goes
<1>3. CASE WorkComment \/ WorkBusy \/ WorkTakeLine
  BY <1>a, <1>3 DEF WorkComment, WorkBusy, WorkTakeLine, AtTop
<1>4. CASE WorkDispatch
  BY <1>a, <1>4 DEF WorkDispatch, ScriptOf, Goes
<1>5. CASE WorkDefer \/ WorkRemember \/ WorkSameTool
  BY <1>a, <1>5 DEF WorkDefer, WorkRemember, WorkSameTool, Continue, Goes
<1>6. CASE WorkPausesInScript \/ WorkBatchYield \/ WorkLineDone
  BY <1>a, <1>6 DEF WorkPausesInScript, WorkBatchYield, WorkLineDone, Goes
<1>7. CASE WorkScriptEnds \/ WorkScriptFails \/ WorkOnError
  BY <1>a, <1>7 DEF WorkScriptEnds, WorkScriptFails, WorkOnError, InScript, PauseFromFile, Goes
<1>8. CASE WorkReplacedEnds \/ WorkHijackXY \/ WorkHijackZ
  BY <1>a, <1>8 DEF WorkReplacedEnds, WorkHijackXY, WorkHijackZ, InScript, Continue, Goes
<1>9. CASE WorkMovesFinished \/ WorkToolChanged \/ WorkVelocityRestored
  BY <1>a, <1>9 DEF WorkMovesFinished, WorkToolChanged, WorkVelocityRestored, InScript,
     Continue, Goes
<1>10. CASE WorkDies \/ WorkScriptCrashes \/ WorkLeaveFlush
  BY <1>a, <1>10 DEF WorkDies, WorkScriptCrashes, WorkLeaveFlush, InScript, Goes
<1>11. CASE WorkLeave \/ WorkFlushed
  BY <1>a, <1>11 DEF WorkLeave, WorkFlushed, Leave
<1>12. CASE Grant \/ Shutdown \/ UNCHANGED vars
  BY <1>a, <1>12 DEF Grant, Shutdown, AskToStop, vars
<1>13. ASSUME NEW u \in Users, NEW k, Issue(u, k) \/ Sense(u)
       PROVE  OneWorker'
  BY <1>a, <1>13 DEF Issue, Sense, SendPause, AskToStop
<1>14. ASSUME NEW u \in Users,
              \/ RunRefused(u) \/ AwaitWorker(u) \/ PauseDone(u) \/ M25Done(u)
              \/ RunResume(u) \/ ResumeFails(u) \/ RunClearPause(u)
              \/ SensePaused(u) \/ SenseDelayOver(u)
       PROVE  OneWorker'
  BY <1>a, <1>14 DEF RunRefused, AwaitWorker, PauseDone, M25Done, RunResume, ResumeFails,
     RunClearPause, SensePaused, SenseDelayOver
<1>15. ASSUME NEW u \in Users, RunPause(u) \/ RunM25(u) \/ RunCancel(u) \/ RunReset(u)
       PROVE  OneWorker'
  BY <1>a, <1>15 DEF RunPause, RunM25, RunCancel, RunReset, SendPause, AskToStop
<1>16. ASSUME NEW u \in Users, ResumeDone(u) \/ RunM24(u)
       PROVE  OneWorker'
  BY <1>a, <1>16 DEF ResumeDone, RunM24, DoResume, Goes
<1>17. ASSUME NEW u \in Users,
              \/ RunCancelNothing(u) \/ CancelDone(u) \/ RunResetNothing(u)
              \/ ResetDone(u) \/ RunSelect(u) \/ RunM26(u) \/ RunToolReport(u)
              \/ RunSetChannel(u) \/ RunSetPauseState(u)
       PROVE  OneWorker'
  BY <1>a, <1>17 DEF RunCancelNothing, CancelDone, RunResetNothing, ResetDone, RunSelect, RunM26,
     RunToolReport, RunSetChannel, RunSetPauseState, Loaded
<1>18. ASSUME NEW u \in Users, RunPrintFile(u)
       PROVE  OneWorker'
  <2>1. PICK f \in Files, opened \in BOOLEAN :
          /\ sd' = [Loaded(f, opened) EXCEPT !.work_timer = opened,
                                            !.must_pause_work = @ /\ ~opened]
          /\ Goes(IF opened THEN "armed" ELSE "off")
    BY <1>18, PrintJobAssumption DEF RunPrintFile
  <2> QED BY <1>a, <2>1 DEF Loaded, Goes
<1> QED
  BY <1>1, <1>2, <1>3, <1>4, <1>5, <1>6, <1>7, <1>8, <1>9, <1>10, <1>11, <1>12, <1>13,
     <1>14, <1>15, <1>16, <1>17, <1>18
     DEF Next, WorkerNext, UserNext, UserStep, Users

\* The worker takes the mutex from nobody and runs nobody else.
LEMMA WorkerFrame ==
  ASSUME TypeOK, WorkerNext
  PROVE  /\ UNCHANGED userVars
         /\ cpu' \in {Worker, Nobody}
         /\ holder' = holder \/ holder \in {Worker, Nobody}
<1>1. CASE \/ WorkStart \/ WorkAskedToStop \/ WorkRead \/ WorkReadFails
           \/ WorkEndOfFile \/ WorkComment \/ WorkBusy \/ WorkTakeLine
           \/ WorkDefer \/ WorkBatchYield \/ WorkLineDone \/ WorkPausesInScript
  BY <1>1 DEF WorkStart, WorkAskedToStop, WorkRead, WorkReadFails, WorkEndOfFile,
     WorkComment, WorkBusy, WorkTakeLine, WorkDefer, WorkBatchYield, WorkLineDone,
     WorkPausesInScript, lockVars, userVars, AtTop
<1>2. CASE \/ WorkDispatch \/ WorkToolChanged \/ WorkLeaveFlush
  BY <1>2 DEF WorkDispatch, WorkToolChanged, WorkLeaveFlush, Request, Locked, userVars
<1>3. CASE \/ WorkScriptFails \/ WorkHijackXY
  BY <1>3 DEF WorkScriptFails, WorkHijackXY, InScript, Rerequest, userVars
<1>4. CASE \/ WorkRemember \/ WorkSameTool \/ WorkReplacedEnds \/ WorkHijackZ
           \/ WorkVelocityRestored
  BY <1>4 DEF WorkRemember, WorkSameTool, WorkReplacedEnds, WorkHijackZ,
     WorkVelocityRestored, InScript, Continue, userVars
<1>5. CASE \/ WorkScriptEnds \/ WorkScriptCrashes \/ WorkOnError \/ WorkMovesFinished \/ WorkDies
           \/ WorkLeave \/ WorkFlushed
  BY <1>5 DEF WorkScriptEnds, WorkScriptCrashes, WorkOnError, WorkMovesFinished, WorkDies,
     WorkLeave, WorkFlushed, InScript, Leave, userVars
<1> QED BY <1>1, <1>2, <1>3, <1>4, <1>5 DEF WorkerNext

\* A user changes its own place only, takes the mutex from nobody, and holds it
\* where UsersHold says so.
LEMMA UserFrame ==
  ASSUME TypeOK, UsersHold, NEW u \in Users, NEW k,
         Issue(u, k) \/ Sense(u) \/ UserStep(u)
  PROVE  /\ \A v \in Users \ {u} : upc'[v] = upc[v] /\ cmd'[v] = cmd[v]
         /\ cpu' \in {u, Nobody}
         /\ holder' = holder \/ holder \in {u, Nobody}
         /\ upc'[u] \in {"pausing", "closing", "gcodeState"} => holder' = u
         /\ upc'[u] = "body" /\ cpu' = u => holder' = u
<1>a. /\ UserType
      /\ upc[u] \in {"pausing", "closing", "gcodeState"} => holder = u
      /\ upc[u] = "body" /\ cpu = u => holder = u
      /\ u # Nobody
  BY PrintJobAssumption DEF TypeOK, UsersHold, Procs
<1> USE DEF UserType
<1>1. CASE Issue(u, k) \/ SenseDelayOver(u)
  BY <1>a, <1>1 DEF Issue, SenseDelayOver, UserGoes, Request, Locked
<1>2. CASE Sense(u) \/ SensePaused(u) \/ AwaitWorker(u)
  BY <1>a, <1>2 DEF Sense, SensePaused, AwaitWorker, UserGoes, userVars
<1>3. CASE RunRefused(u) \/ PauseDone(u) \/ M25Done(u)
  BY <1>a, <1>3 DEF RunRefused, PauseDone, M25Done, Continues, Return, Release, UserGoes
<1>4. CASE RunPause(u) \/ RunM25(u) \/ RunCancel(u) \/ RunReset(u)
  BY <1>a, <1>4 DEF RunPause, RunM25, RunCancel, RunReset, Starts, Runs, Proceed,
     UserGoes, lockVars
<1>5. CASE RunResume(u) \/ ResumeDone(u) \/ ResumeFails(u)
  BY <1>a, <1>5 DEF RunResume, ResumeDone, ResumeFails, Starts, Runs, Continues, Return,
     Release, UserGoes
<1>6. CASE CancelDone(u) \/ ResetDone(u)
  BY <1>a, <1>6 DEF CancelDone, ResetDone, Continues, Return, Release, UserGoes
<1>7. CASE RunClearPause(u) \/ RunCancelNothing(u) \/ RunSelect(u) \/ RunPrintFile(u)
  BY <1>a, <1>7 DEF RunClearPause, RunCancelNothing, RunSelect, RunPrintFile, Starts, Runs,
     Return, Release, UserGoes
<1>8. CASE \/ RunM24(u) \/ RunM26(u) \/ RunToolReport(u) \/ RunSetChannel(u)
           \/ RunSetPauseState(u) \/ RunResetNothing(u)
  BY <1>a, <1>8 DEF RunM24, RunM26, RunToolReport, RunSetChannel, RunSetPauseState,
     RunResetNothing, Starts, Runs, Return, Release, UserGoes
<1> QED
  BY <1>1, <1>2, <1>3, <1>4, <1>5, <1>6, <1>7, <1>8 DEF UserStep

\* Inside a command, past the mutex, a user holds it.
LEMMA UsersHoldStep ==
  ASSUME TypeOK, UsersHold, [Next]_vars
  PROVE  UsersHold'
<1>a. \A u \in Users : u # Worker /\ u # Nobody
  BY PrintJobAssumption DEF Procs
<1>1. CASE Grant
  BY <1>a, <1>1 DEF Grant, UsersHold, userVars
<1>2. CASE WorkerNext
  BY <1>a, <1>2, WorkerFrame DEF UsersHold, userVars
<1>3. ASSUME NEW u \in Users, NEW k, Issue(u, k) \/ Sense(u) \/ UserStep(u)
      PROVE  UsersHold'
  BY <1>a, <1>3, UserFrame DEF UsersHold
<1>4. CASE Shutdown \/ UNCHANGED vars
  BY <1>4 DEF Shutdown, UsersHold, userVars, lockVars, vars
<1> QED BY <1>1, <1>2, <1>3, <1>4 DEF Next, UserNext, Users

\* The worker opens no file, withdraws no request to stop, and closes the file
\* only as it leaves.
LEMMA WorkerKeepsFile ==
  ASSUME TypeOK, OneWorker, FileStaysOpen, WorkerNext
  PROVE  /\ sd'.current_file => sd.current_file
         /\ sd'.work_timer => sd.work_timer
         /\ sd.must_pause_work => sd'.must_pause_work
         /\ InLoop' /\ ~sd'.must_pause_work => sd'.current_file
         /\ sd.current_file /\ (sd.work_timer => sd.must_pause_work) => sd'.current_file
<1>a. /\ SdType /\ WorkType /\ (InLoop /\ ~sd.must_pause_work => sd.current_file)
      /\ sd.work_timer <=> work.at # "off"
  BY DEF TypeOK, FileStaysOpen, OneWorker
<1> USE DEF SdType, WorkType, InLoop
<1>1. CASE WorkStart \/ WorkAskedToStop \/ WorkRead \/ WorkReadFails
  BY <1>a, <1>1 DEF WorkStart, WorkAskedToStop, WorkRead, WorkReadFails, AtTop, Goes
<1>2. CASE WorkEndOfFile
  BY <1>a, <1>2 DEF WorkEndOfFile, AtTop, Goes
<1>3. CASE WorkComment \/ WorkBusy \/ WorkTakeLine
  BY <1>a, <1>3 DEF WorkComment, WorkBusy, WorkTakeLine, AtTop
<1>4. CASE WorkDispatch \/ WorkDefer
  BY <1>a, <1>4 DEF WorkDispatch, WorkDefer, ScriptOf, Goes
<1>5. CASE WorkRemember \/ WorkSameTool
  BY <1>a, <1>5 DEF WorkRemember, WorkSameTool, Continue, Goes
<1>6. CASE WorkPausesInScript \/ WorkBatchYield \/ WorkLineDone
  BY <1>a, <1>6 DEF WorkPausesInScript, WorkBatchYield, WorkLineDone, Goes
<1>7. CASE WorkScriptEnds
  BY <1>a, <1>7 DEF WorkScriptEnds, InScript, PauseFromFile, Goes
<1>8. CASE WorkScriptFails \/ WorkOnError
  BY <1>a, <1>8 DEF WorkScriptFails, WorkOnError, InScript, Goes
<1>9. CASE WorkReplacedEnds \/ WorkHijackXY \/ WorkHijackZ
  BY <1>a, <1>9 DEF WorkReplacedEnds, WorkHijackXY, WorkHijackZ, InScript, Continue, Goes
<1>10. CASE WorkMovesFinished \/ WorkToolChanged \/ WorkVelocityRestored
  BY <1>a, <1>10 DEF WorkMovesFinished, WorkToolChanged, WorkVelocityRestored, InScript,
     Continue, Goes
<1>11. CASE WorkDies \/ WorkScriptCrashes \/ WorkLeaveFlush
  BY <1>a, <1>11 DEF WorkDies, WorkScriptCrashes, WorkLeaveFlush, InScript, Goes
<1>12. CASE WorkLeave \/ WorkFlushed
  BY <1>a, <1>12 DEF WorkLeave, WorkFlushed, Leave
<1> QED
  BY <1>1, <1>2, <1>3, <1>4, <1>5, <1>6, <1>7, <1>8, <1>9, <1>10, <1>11, <1>12
     DEF WorkerNext

\* A user that loads a file or starts the worker finds no worker and returns.
LEMMA UserKeepsFile ==
  ASSUME TypeOK, OneWorker, UsersHold, FileStaysOpen, NEW u \in Users, NEW k,
         Issue(u, k) \/ Sense(u) \/ UserStep(u)
  PROVE  FileStaysOpen'
<1>a. /\ SdType /\ WorkType /\ UserType
      /\ (InLoop /\ ~sd.must_pause_work => sd.current_file)
      /\ upc[u] = "closing" => sd.current_file /\ (sd.work_timer => sd.must_pause_work)
      /\ sd.work_timer <=> work.at # "off"
  BY DEF TypeOK, FileStaysOpen, OneWorker
<1>b. \A v \in Users \ {u} :
        /\ upc'[v] = upc[v]
        /\ upc[v] = "closing" => holder = v
        /\ upc[v] = "closing" => sd.current_file /\ (sd.work_timer => sd.must_pause_work)
  BY UserFrame DEF UsersHold, FileStaysOpen
<1>c. upc[u] = "body" /\ cpu = u => holder = u
  BY DEF UsersHold
<1>d. upc[u] \in {"closing", "gcodeState"} => holder = u
  BY DEF UsersHold
<1>1. CASE \/ Issue(u, k) \/ SenseDelayOver(u) \/ SensePaused(u) \/ AwaitWorker(u)
           \/ RunRefused(u) \/ PauseDone(u) \/ M25Done(u) \/ RunClearPause(u)
  <2>1. UNCHANGED <<sd, work>> /\ (upc'[u] = "closing" => upc[u] = "closing")
    BY <1>a, <1>1 DEF Issue, SenseDelayOver, SensePaused, AwaitWorker, RunRefused, PauseDone,
       M25Done, RunClearPause, Return, UserGoes, userVars, UserType
  <2> QED BY <1>a, <1>b, <2>1 DEF FileStaysOpen, InLoop
<1>2. CASE RunResume(u) \/ ResumeFails(u)
  <2>1. UNCHANGED <<sd, work>> /\ upc'[u] # "closing"
    BY <1>a, <1>2 DEF RunResume, ResumeFails, Return, UserGoes, UserType
  <2> QED BY <1>a, <1>b, <2>1 DEF FileStaysOpen, InLoop
<1>3. CASE Sense(u) \/ RunPause(u) \/ RunM25(u) \/ RunCancel(u) \/ RunReset(u)
  <2>1. /\ UNCHANGED work /\ sd'.work_timer = sd.work_timer
        /\ sd'.current_file = sd.current_file
        /\ sd.must_pause_work => sd'.must_pause_work
        /\ upc'[u] = "closing" => sd.current_file /\ (sd.work_timer => sd'.must_pause_work)
    BY <1>a, <1>3 DEF Sense, RunPause, RunM25, RunCancel, RunReset, SendPause, AskToStop,
       Proceed, UserGoes, UserType, SdType
  <2> QED BY <1>a, <1>b, <2>1 DEF FileStaysOpen, InLoop
<1>4. CASE ResumeDone(u) \/ RunM24(u)
  <2>1. holder = u /\ upc'[u] = "idle"
    BY <1>a, <1>c, <1>d, <1>4 DEF ResumeDone, RunM24, Starts, Runs, Continues, Return,
       UserGoes, UserType
  <2>2. ~InLoop' \/ UNCHANGED <<sd, work>>
    BY <1>a, <1>4 DEF ResumeDone, RunM24, DoResume, Goes, InLoop, WorkType
  <2> QED BY <1>a, <1>b, <2>1, <2>2 DEF FileStaysOpen, InLoop
<1>5. CASE \/ RunCancelNothing(u) \/ RunResetNothing(u) \/ RunM26(u) \/ RunToolReport(u)
           \/ RunSetChannel(u) \/ RunSetPauseState(u)
  <2>1. /\ UNCHANGED work /\ sd'.work_timer = sd.work_timer
        /\ sd'.current_file = sd.current_file
        /\ sd'.must_pause_work = sd.must_pause_work
        /\ upc'[u] = "idle"
    BY <1>a, <1>5 DEF RunCancelNothing, RunResetNothing, RunM26, RunToolReport,
       RunSetChannel, RunSetPauseState, Return,
       UserGoes, UserType, SdType
  <2> QED BY <1>a, <1>b, <2>1 DEF FileStaysOpen, InLoop
<1>6. CASE CancelDone(u) \/ ResetDone(u)
  <2>1. /\ UNCHANGED work /\ sd'.work_timer = sd.work_timer
        /\ ~sd'.current_file
        /\ sd'.must_pause_work = sd.must_pause_work
        /\ upc[u] = "closing" /\ holder = u
        /\ upc'[u] = "idle"
    BY <1>a, <1>d, <1>6 DEF CancelDone, ResetDone, Continues, Return, UserGoes, UserType, SdType
  <2>2. InLoop => sd.must_pause_work
    BY <1>a, <2>1 DEF InLoop
  <2> QED BY <1>a, <1>b, <2>1, <2>2 DEF FileStaysOpen, InLoop
<1>7. CASE RunSelect(u) \/ RunPrintFile(u)
  <2>1. holder = u /\ upc'[u] = "idle" /\ work.at = "off"
    BY <1>a, <1>c, <1>7 DEF RunSelect, RunPrintFile, Starts, Runs, Refused, Return,
       UserGoes, UserType
  <2>2. ~InLoop'
    BY <1>a, <2>1, <1>7 DEF RunSelect, RunPrintFile, Goes, InLoop, WorkType
  <2> QED BY <1>b, <2>1, <2>2 DEF FileStaysOpen
<1> QED
  BY <1>1, <1>2, <1>3, <1>4, <1>5, <1>6, <1>7 DEF UserStep

LEMMA FileStaysOpenStep ==
  ASSUME TypeOK, OneWorker, UsersHold, FileStaysOpen, [Next]_vars
  PROVE  FileStaysOpen'
<1>1. CASE Grant \/ UNCHANGED vars
  BY <1>1 DEF Grant, FileStaysOpen, InLoop, userVars, vars
<1>2. CASE WorkerNext
  BY <1>2, WorkerKeepsFile, WorkerFrame DEF FileStaysOpen, userVars
<1>3. ASSUME NEW u \in Users, NEW k, Issue(u, k) \/ Sense(u) \/ UserStep(u)
      PROVE  FileStaysOpen'
  BY <1>3, UserKeepsFile
<1>4. CASE Shutdown
  BY <1>4 DEF Shutdown, AskToStop, TypeOK, SdType, FileStaysOpen, InLoop, userVars
<1> QED BY <1>1, <1>2, <1>3, <1>4 DEF Next, UserNext, Users

\* The worker takes the line after the last one, deals with it once, and moves
\* the position behind it.
LEMMA WorkerKeepsPosition ==
  ASSUME TypeOK, FileStaysOpen, PositionInStep, hist.in_order, WorkerNext
  PROVE  PositionInStep' /\ hist'.in_order
<1>a. /\ SdType /\ WorkType /\ HistType
      /\ InLoop /\ ~sd.must_pause_work => sd.current_file
      /\ work.at \in InLine => sd.next_file_position = hist.dealt + 1
      /\ work.at = "lineDone" => sd.next_file_position = hist.dealt
      /\ sd.current_file /\ work.at # "lineDone" => sd.file_position = hist.dealt
  BY DEF TypeOK, FileStaysOpen, PositionInStep
<1> USE DEF SdType, WorkType, HistType, InLine
<1>1. CASE \/ WorkStart \/ WorkAskedToStop \/ WorkRead \/ WorkReadFails
           \/ WorkEndOfFile
  BY <1>a, <1>1 DEF WorkStart, WorkAskedToStop, WorkRead, WorkReadFails, WorkEndOfFile,
     AtTop, Goes, PositionInStep
<1>2. CASE WorkComment
  <2>1. work.at = "top" /\ sd.file_position = hist.dealt
    BY <1>a, <1>2 DEF WorkComment, AtTop, InLoop
  <2>2. sd.file_position + 1 \in Nat
    BY <1>a
  <2>3. /\ work'.at = "top" /\ sd'.file_position = sd.file_position + 1
        /\ hist'.dealt = sd.file_position + 1
    BY <1>a, <1>2, <2>1, <2>2 DEF WorkComment, Dealt
  <2>4. hist'.in_order
    BY <1>a, <1>2, <2>1 DEF WorkComment, Dealt
  <2> QED BY <2>3, <2>4 DEF PositionInStep
<1>3. CASE WorkTakeLine
  <2>1. sd.current_file /\ sd.file_position = hist.dealt
    BY <1>a, <1>3 DEF WorkTakeLine, AtTop, InLoop
  <2>2. sd.file_position + 1 \in Nat
    BY <1>a
  <2>3. /\ work'.at = "dispatch" /\ sd'.file_position = sd.file_position
        /\ sd'.next_file_position = sd.file_position + 1 /\ UNCHANGED hist
    BY <1>a, <1>3, <2>2 DEF WorkTakeLine
  <2> QED BY <2>1, <2>3 DEF PositionInStep
<1>4. CASE WorkDispatch
  BY <1>a, <1>4 DEF WorkDispatch, ScriptOf, Goes, PositionInStep
<1>5. CASE WorkDefer \/ WorkScriptEnds
  <2>1. work.at \in InLine /\ work'.at = "lineDone"
    BY <1>a, <1>5 DEF WorkDefer, WorkScriptEnds, InScript
  <2>2. sd'.next_file_position = sd.next_file_position
    BY <1>a, <1>5 DEF WorkDefer, WorkScriptEnds, PauseFromFile
  <2>3. hist'.dealt = sd.next_file_position /\ hist'.in_order
    BY <1>a, <1>5, <2>1 DEF WorkDefer, WorkScriptEnds, Dealt
  <2> QED BY <2>1, <2>2, <2>3 DEF PositionInStep
<1>6. CASE \/ WorkRemember \/ WorkSameTool \/ WorkReplacedEnds \/ WorkHijackZ
           \/ WorkVelocityRestored
  <2>1. work.at \in InLine /\ work'.at = "top"
    BY <1>a, <1>6 DEF WorkRemember, WorkSameTool, WorkReplacedEnds, WorkHijackZ,
       WorkVelocityRestored, InScript, Continue, Goes
  <2>2. sd'.file_position = sd.next_file_position
    BY <1>a, <1>6 DEF WorkRemember, WorkSameTool, WorkReplacedEnds, WorkHijackZ,
       WorkVelocityRestored, Continue
  <2>3. hist'.dealt = sd.next_file_position /\ hist'.in_order
    BY <1>a, <1>6, <2>1 DEF WorkRemember, WorkSameTool, WorkReplacedEnds, WorkHijackZ,
       WorkVelocityRestored, Continue, Dealt
  <2> QED BY <2>1, <2>2, <2>3 DEF PositionInStep
<1>7. CASE WorkLineDone
  BY <1>a, <1>7 DEF WorkLineDone, Goes, PositionInStep
<1>8. CASE \/ WorkBusy \/ WorkPausesInScript \/ WorkBatchYield \/ WorkScriptFails
           \/ WorkOnError \/ WorkHijackXY
  BY <1>a, <1>8 DEF WorkBusy, WorkPausesInScript, WorkBatchYield, WorkScriptFails,
     WorkOnError, WorkHijackXY, InScript, Goes, PositionInStep
<1>9. CASE WorkMovesFinished \/ WorkToolChanged \/ WorkDies \/ WorkScriptCrashes
  BY <1>a, <1>9 DEF WorkMovesFinished, WorkToolChanged, WorkDies, WorkScriptCrashes, InScript, Goes,
     PositionInStep
<1>10. CASE WorkLeave \/ WorkLeaveFlush \/ WorkFlushed
  <2>1. /\ work'.at \in {"off", "flush"} /\ work.at # "lineDone"
        /\ UNCHANGED <<hist, sd.file_position, sd.next_file_position, sd.current_file>>
    BY <1>a, <1>10 DEF WorkLeave, WorkLeaveFlush, WorkFlushed, Leave, Goes
  <2> QED BY <1>a, <2>1 DEF PositionInStep
<1> QED
  BY <1>1, <1>2, <1>3, <1>4, <1>5, <1>6, <1>7, <1>8, <1>9, <1>10 DEF WorkerNext

\* A user moves the position only while there is no worker, or as it closes the
\* file.
LEMMA UserKeepsPosition ==
  ASSUME TypeOK, OneWorker, PositionInStep, hist.in_order, NEW u \in Users, NEW k,
         Issue(u, k) \/ Sense(u) \/ UserStep(u)
  PROVE  PositionInStep' /\ hist'.in_order
<1>a. /\ SdType /\ WorkType /\ HistType
      /\ sd.work_timer <=> work.at # "off"
      /\ work.at \in InLine => sd.next_file_position = hist.dealt + 1
      /\ work.at = "lineDone" => sd.next_file_position = hist.dealt
      /\ sd.current_file /\ work.at # "lineDone" => sd.file_position = hist.dealt
  BY DEF TypeOK, OneWorker, PositionInStep
<1> USE DEF SdType, WorkType, HistType, InLine
<1>1. CASE \/ Issue(u, k) \/ SenseDelayOver(u) \/ SensePaused(u) \/ AwaitWorker(u)
           \/ RunRefused(u) \/ RunClearPause(u) \/ RunResume(u) \/ ResumeFails(u)
  <2>1. UNCHANGED <<sd, work, hist>>
    BY <1>1 DEF Issue, SenseDelayOver, SensePaused, AwaitWorker, RunRefused,
       RunClearPause, RunResume, ResumeFails
  <2> QED BY <2>1 DEF PositionInStep
<1>2. CASE PauseDone(u) \/ M25Done(u)
  <2>1. UNCHANGED <<sd, work, hist.dealt, hist.in_order>>
    BY <1>a, <1>2 DEF PauseDone, M25Done
  <2> QED BY <2>1 DEF PositionInStep
<1>3. CASE \/ Sense(u) \/ RunPause(u) \/ RunM25(u) \/ RunCancel(u) \/ RunReset(u)
           \/ RunToolReport(u) \/ RunSetChannel(u) \/ RunSetPauseState(u)
  <2>1. UNCHANGED <<work, hist.dealt, hist.in_order, sd.file_position,
                    sd.next_file_position, sd.current_file>>
    BY <1>a, <1>3 DEF Sense, RunPause, RunM25, RunCancel, RunReset, RunToolReport,
       RunSetChannel, RunSetPauseState,
       SendPause, AskToStop
  <2> QED BY <2>1 DEF PositionInStep
<1>4. CASE ResumeDone(u) \/ RunM24(u)
  <2>1. UNCHANGED <<sd, work, hist>> \/ (DoResume /\ work.at = "off")
    BY <1>a, <1>4 DEF ResumeDone, RunM24, Starts, Runs, Refused
  <2>2. CASE DoResume /\ work.at = "off"
    <3>1. /\ work'.at = "armed"
          /\ UNCHANGED <<hist.dealt, hist.in_order, sd.file_position, sd.current_file>>
      BY <1>a, <2>2 DEF DoResume, Goes
    <3> QED BY <1>a, <2>2, <3>1 DEF PositionInStep
  <2> QED BY <2>1, <2>2 DEF PositionInStep
<1>5. CASE RunCancelNothing(u) \/ CancelDone(u) \/ RunResetNothing(u) \/ ResetDone(u)
  <2>1. /\ UNCHANGED <<work, hist.dealt, hist.in_order, sd.next_file_position>>
        /\ ~sd'.current_file \/ UNCHANGED <<sd.file_position, sd.current_file>>
    BY <1>a, <1>5 DEF RunCancelNothing, CancelDone, RunResetNothing, ResetDone
  <2> QED BY <2>1 DEF PositionInStep
<1>6. CASE RunSelect(u)
  <2>1. work.at = "off" /\ UNCHANGED work
    BY <1>a, <1>6 DEF RunSelect, Starts, Runs, Refused
  <2>2. sd'.file_position = 0
    BY <1>a, <1>6 DEF RunSelect, Loaded
  <2>3. hist'.dealt = 0 /\ hist'.in_order
    BY <1>a, <1>6 DEF RunSelect
  <2> QED BY <2>1, <2>2, <2>3 DEF PositionInStep
<1>7. CASE RunPrintFile(u)
  <2>1. work'.at \in {"armed", "off"}
    BY <1>a, <1>7 DEF RunPrintFile, Goes
  <2>2. sd'.file_position = 0
    BY <1>a, <1>7 DEF RunPrintFile, Loaded
  <2>3. hist'.dealt = 0 /\ hist'.in_order
    BY <1>a, <1>7 DEF RunPrintFile
  <2> QED BY <2>1, <2>2, <2>3 DEF PositionInStep
<1>8. CASE RunM26(u)
  <2>1. work.at = "off" /\ UNCHANGED work
    BY <1>a, <1>8 DEF RunM26, Starts, Runs, Refused
  <2>2. PICK p \in 0..Len(sd.file) :
          /\ sd' = [sd EXCEPT !.file_position = p]
          /\ hist' = [hist EXCEPT !.dealt = p, !.in_order = TRUE, !.sure = FALSE]
    BY <1>8 DEF RunM26
  <2>3. sd'.file_position = p /\ hist'.dealt = p /\ hist'.in_order
    BY <1>a, <2>2
  <2> QED BY <2>1, <2>3 DEF PositionInStep
<1> QED
  BY <1>1, <1>2, <1>3, <1>4, <1>5, <1>6, <1>7, <1>8 DEF UserStep

LEMMA PositionStep ==
  ASSUME TypeOK, OneWorker, FileStaysOpen, PositionInStep, hist.in_order, [Next]_vars
  PROVE  PositionInStep' /\ hist'.in_order
<1>1. CASE Grant \/ UNCHANGED vars
  BY <1>1 DEF Grant, PositionInStep, vars
<1>2. CASE WorkerNext
  BY <1>2, WorkerKeepsPosition
<1>3. ASSUME NEW u \in Users, NEW k, Issue(u, k) \/ Sense(u) \/ UserStep(u)
      PROVE  PositionInStep' /\ hist'.in_order
  BY <1>3, UserKeepsPosition
<1>4. CASE Shutdown
  BY <1>4 DEF Shutdown, AskToStop, TypeOK, SdType, PositionInStep
<1> QED BY <1>1, <1>2, <1>3, <1>4 DEF Next, UserNext, Users

\* The invariant of a print job, for any files, clients and commands.
THEOREM PrintJobPosition == Spec => []PositionInv
<1>1. Init => PositionInv
  <2> SUFFICES ASSUME Init PROVE PositionInv
    OBVIOUS
  <2>1. TypeOK
    BY InitTypes
  <2>2. OneWorker /\ FileStaysOpen /\ PositionInStep /\ hist.in_order
    BY DEF Init, OneWorker, FileStaysOpen, PositionInStep, InLoop, InLine
  <2>3. UsersHold
    BY DEF Init, UsersHold
  <2> QED BY <2>1, <2>2, <2>3 DEF PositionInv
<1>2. PositionInv /\ [Next]_vars => PositionInv'
  BY NextTypes, OneWorkerStep, UsersHoldStep, FileStaysOpenStep, PositionStep
     DEF PositionInv
<1> QED BY <1>1, <1>2, PTL DEF Spec

\* There is never more than one worker, so none is started over another.
THEOREM PrintJobOneWorker == Spec => []OneWorker
<1>1. PositionInv => OneWorker
  BY DEF PositionInv
<1> QED BY <1>1, PrintJobPosition, PTL

\* Each line is dealt with once and in order, and a stopped print goes on at
\* the line after the last it dealt with.
THEOREM PrintJobResumes == Spec => []ResumesWhereItStopped
<1>1. PositionInv => ResumesWhereItStopped
  BY DEF PositionInv, OneWorker, PositionInStep, ResumesWhereItStopped
<1> QED BY <1>1, PrintJobPosition, PTL

\* Whoever waits to close the file finds it open.
THEOREM PrintJobClosesOpenFile == Spec => []ClosesOpenFile
<1>1. PositionInv => ClosesOpenFile
  BY DEF PositionInv, FileStaysOpen, ClosesOpenFile
<1> QED BY <1>1, PrintJobPosition, PTL

-----------------------------------------------------------------------------
(* What print_stats reports. *)

\* A print is reported as printing from the start of a worker to its end, and
\* not before the timer of a new worker fires.
Reported ==
  /\ ReportsPrinting
  /\ stats.state = "printing" => stats.started
  /\ work.at = "armed" => stats.state # "printing"

\* After an outcome, a pause or a reset nothing is reported as printing.
LEMMA NotPrinting ==
  ASSUME StatsType, stats.state = "printing" => stats.started,
         \/ \E outcome \in {"error", "complete", "cancelled"} : NoteFinish(outcome)
         \/ NotePause \/ StatsReset
  PROVE  stats'.state # "printing"
<1>1. CASE \E outcome \in {"error", "complete", "cancelled"} : NoteFinish(outcome)
  BY <1>1 DEF NoteFinish
<1>2. CASE NotePause
  BY <1>2 DEF NotePause, StatsType
<1>3. CASE StatsReset
  BY <1>3 DEF StatsReset
<1> QED BY <1>1, <1>2, <1>3

\* The worker notes the start when it goes into its loop, and an outcome when
\* it returns.
LEMMA WorkerReports ==
  ASSUME TypeOK, OneWorker, Reported, WorkerNext
  PROVE  Reported'
<1>a. /\ SdType /\ WorkType /\ StatsType /\ (sd.work_timer <=> work.at # "off")
      /\ stats.state = "printing" => sd.work_timer /\ stats.started
      /\ InLoop /\ ~sd.must_pause_work => stats.state = "printing" /\ stats.started
      /\ work.at = "armed" => stats.state # "printing"
  BY DEF TypeOK, OneWorker, Reported, ReportsPrinting
<1> USE DEF SdType, WorkType, StatsType, InLoop, Reported, ReportsPrinting
<1>1. CASE WorkStart
  BY <1>a, <1>1 DEF WorkStart, NoteStart, Goes
<1>2. CASE WorkAskedToStop \/ WorkRead \/ WorkReadFails \/ WorkEndOfFile
  BY <1>a, <1>2 DEF WorkAskedToStop, WorkRead, WorkReadFails, WorkEndOfFile, AtTop, Goes
<1>3. CASE WorkComment \/ WorkBusy \/ WorkTakeLine
  BY <1>a, <1>3 DEF WorkComment, WorkBusy, WorkTakeLine, AtTop
<1>4. CASE WorkDispatch \/ WorkDefer
  BY <1>a, <1>4 DEF WorkDispatch, WorkDefer, ScriptOf, Goes
<1>5. CASE WorkRemember \/ WorkSameTool
  BY <1>a, <1>5 DEF WorkRemember, WorkSameTool, Continue, Goes
<1>6. CASE WorkPausesInScript \/ WorkBatchYield \/ WorkLineDone
  BY <1>a, <1>6 DEF WorkPausesInScript, WorkBatchYield, WorkLineDone, Goes
<1>7. CASE WorkScriptEnds
  BY <1>a, <1>7 DEF WorkScriptEnds, InScript, PauseFromFile, Goes
<1>8. CASE WorkScriptFails \/ WorkOnError
  BY <1>a, <1>8 DEF WorkScriptFails, WorkOnError, InScript, Goes
<1>9. CASE WorkReplacedEnds \/ WorkHijackXY \/ WorkHijackZ
  BY <1>a, <1>9 DEF WorkReplacedEnds, WorkHijackXY, WorkHijackZ, InScript, Continue, Goes
<1>10. CASE WorkMovesFinished \/ WorkToolChanged \/ WorkVelocityRestored
  BY <1>a, <1>10 DEF WorkMovesFinished, WorkToolChanged, WorkVelocityRestored, InScript,
     Continue, Goes
<1>11. CASE WorkDies \/ WorkScriptCrashes \/ WorkLeaveFlush
  BY <1>a, <1>11 DEF WorkDies, WorkScriptCrashes, WorkLeaveFlush, InScript, Goes
<1>12. CASE WorkLeave \/ WorkFlushed
  <2>1. stats'.state # "printing"
    BY <1>a, <1>12, NotPrinting DEF WorkLeave, WorkFlushed, Leave
  <2>2. work'.at = "off"
    BY <1>a, <1>12 DEF WorkLeave, WorkFlushed, Leave
  <2> QED BY <2>1, <2>2
<1> QED
  BY <1>1, <1>2, <1>3, <1>4, <1>5, <1>6, <1>7, <1>8, <1>9, <1>10, <1>11, <1>12
     DEF WorkerNext

\* A user that takes a print off the report has closed its file, and its worker
\* has been asked to stop.
LEMMA UserReports ==
  ASSUME TypeOK, OneWorker, FileStaysOpen, Reported, NEW u \in Users, NEW k,
         Issue(u, k) \/ Sense(u) \/ UserStep(u)
  PROVE  Reported'
<1>a. /\ SdType /\ WorkType /\ StatsType /\ (sd.work_timer <=> work.at # "off")
      /\ stats.state = "printing" => sd.work_timer /\ stats.started
      /\ InLoop /\ ~sd.must_pause_work => stats.state = "printing" /\ stats.started
      /\ InLoop /\ ~sd.must_pause_work => sd.current_file
      /\ work.at = "armed" => stats.state # "printing"
      /\ upc[u] = "closing" => (sd.work_timer => sd.must_pause_work)
  BY DEF TypeOK, OneWorker, FileStaysOpen, Reported, ReportsPrinting
<1> USE DEF SdType, WorkType, StatsType, InLoop, Reported, ReportsPrinting
<1>1. CASE \/ Issue(u, k) \/ SenseDelayOver(u) \/ SensePaused(u) \/ AwaitWorker(u)
           \/ RunRefused(u) \/ PauseDone(u) \/ M25Done(u) \/ RunClearPause(u)
           \/ RunResume(u) \/ ResumeFails(u)
  <2>1. UNCHANGED <<sd, work, stats>>
    BY <1>1 DEF Issue, SenseDelayOver, SensePaused, AwaitWorker, RunRefused, PauseDone, M25Done,
       RunClearPause, RunResume, ResumeFails
  <2> QED BY <1>a, <2>1
<1>2. CASE Sense(u) \/ RunPause(u) \/ RunM25(u) \/ RunCancel(u) \/ RunReset(u)
  <2>1. /\ UNCHANGED <<work, stats>> /\ sd'.work_timer = sd.work_timer
        /\ sd.must_pause_work => sd'.must_pause_work
    BY <1>a, <1>2 DEF Sense, RunPause, RunM25, RunCancel, RunReset, SendPause, AskToStop
  <2> QED BY <1>a, <2>1
<1>3. CASE ResumeDone(u) \/ RunM24(u)
  <2>1. UNCHANGED stats /\ (UNCHANGED <<sd, work>> \/ (DoResume /\ work.at = "off"))
    BY <1>a, <1>3 DEF ResumeDone, RunM24, Starts, Runs, Refused
  <2>2. CASE DoResume /\ work.at = "off"
    BY <1>a, <2>1, <2>2 DEF DoResume, Goes
  <2> QED BY <1>a, <2>1, <2>2
<1>4. CASE \/ RunCancelNothing(u) \/ RunM26(u) \/ RunToolReport(u) \/ RunSetChannel(u)
           \/ RunSetPauseState(u)
  <2>1. /\ UNCHANGED <<work, stats>> /\ sd'.work_timer = sd.work_timer
        /\ sd'.must_pause_work = sd.must_pause_work
    BY <1>a, <1>4 DEF RunCancelNothing, RunM26, RunToolReport, RunSetChannel,
       RunSetPauseState
  <2> QED BY <1>a, <2>1
<1>5. CASE CancelDone(u) \/ ResetDone(u) \/ RunResetNothing(u)
  <2>1. /\ UNCHANGED work /\ sd'.work_timer = sd.work_timer
        /\ sd'.must_pause_work = sd.must_pause_work
        /\ InLoop => sd.must_pause_work
    BY <1>a, <1>5 DEF CancelDone, ResetDone, RunResetNothing, Starts, Continues
  <2>2. stats'.state # "printing"
    BY <1>a, <1>5, NotPrinting DEF CancelDone, ResetDone, RunResetNothing
  <2> QED BY <1>a, <2>1, <2>2
<1>6. CASE RunSelect(u) \/ RunPrintFile(u)
  <2>1. work.at = "off"
    BY <1>a, <1>6 DEF RunSelect, RunPrintFile, Starts, Runs, Refused
  <2>2. work'.at \in {"off", "armed"}
    BY <1>a, <1>6, <2>1 DEF RunSelect, RunPrintFile, Goes
  <2>3. stats'.state # "printing"
    BY <1>a, <1>6, NotPrinting DEF RunSelect, RunPrintFile
  <2> QED BY <2>2, <2>3
<1> QED
  BY <1>1, <1>2, <1>3, <1>4, <1>5, <1>6 DEF UserStep

LEMMA ReportedStep ==
  ASSUME TypeOK, OneWorker, FileStaysOpen, Reported, [Next]_vars
  PROVE  Reported'
<1>1. CASE Grant \/ UNCHANGED vars
  BY <1>1 DEF Grant, Reported, ReportsPrinting, InLoop, vars
<1>2. CASE WorkerNext
  BY <1>2, WorkerReports
<1>3. ASSUME NEW u \in Users, NEW k, Issue(u, k) \/ Sense(u) \/ UserStep(u)
      PROVE  Reported'
  BY <1>3, UserReports
<1>4. CASE Shutdown
  BY <1>4 DEF Shutdown, AskToStop, TypeOK, SdType, Reported, ReportsPrinting, InLoop
<1> QED BY <1>1, <1>2, <1>3, <1>4 DEF Next, UserNext, Users

-----------------------------------------------------------------------------
(* What complete means. *)

\* The worker never reads past the end of the file.
Within ==
  /\ sd.file_position <= Len(sd.file)
  /\ work.at = "top" /\ sd.current_file => sd.file_position + work.lines <= Len(sd.file)
  /\ work.at \in InLine \cup {"lineDone"} => sd.next_file_position + work.lines <= Len(sd.file)

\* A worker whose file is closed under it has had its outcome noted; one that
\* leaves without a file, an error or an outcome is at the end.
Ended ==
  /\ InLoop /\ ~sd.current_file => ~stats.started
  /\ work.at \in {"leave", "flush"} /\ ~sd.current_file /\ stats.started /\ ~work.error
       => hist.dealt = Len(sd.file)

\* The worker takes as many lines as it has read, and reads no more than there
\* are.
LEMMA WorkerWithin ==
  ASSUME TypeOK, FileStaysOpen, Within, WorkerNext
  PROVE  Within' /\ sd'.file = sd.file
<1>a. /\ SdType /\ WorkType /\ Len(sd.file) \in Nat
      /\ InLoop /\ ~sd.must_pause_work => sd.current_file
      /\ sd.file_position <= Len(sd.file)
      /\ work.at = "top" /\ sd.current_file => sd.file_position + work.lines <= Len(sd.file)
      /\ work.at \in InLine \cup {"lineDone"} =>
           sd.next_file_position + work.lines <= Len(sd.file)
  BY LineTypes DEF TypeOK, FileStaysOpen, Within
<1> USE DEF SdType, WorkType, InLine, Within
<1>1. CASE WorkStart
  BY <1>a, <1>1 DEF WorkStart, Goes
<1>2. CASE WorkAskedToStop \/ WorkReadFails \/ WorkEndOfFile
  BY <1>a, <1>2 DEF WorkAskedToStop, WorkReadFails, WorkEndOfFile, AtTop, Goes
<1>3. CASE WorkRead
  <2>1. Unread = Len(sd.file) - sd.file_position
    BY DEF Unread
  <2>2. work'.lines <= Unread /\ work'.at = "top" /\ UNCHANGED sd
    BY <1>a, <1>3, <2>1, PrintJobAssumption DEF WorkRead, AtTop
  <2>3. work'.lines \in Int
    BY <1>a, <1>3, <2>1, PrintJobAssumption DEF WorkRead
  <2> QED BY <1>a, <2>1, <2>2, <2>3
<1>4. CASE WorkComment \/ WorkTakeLine
  <2>1. sd.current_file /\ work.at = "top" /\ work.lines > 0
    BY <1>a, <1>4 DEF WorkComment, WorkTakeLine, AtTop, InLoop
  <2>2. /\ work'.lines = work.lines - 1 /\ sd'.file = sd.file
        /\ sd'.next_file_position = sd.file_position + 1
        /\ \/ work'.at = "top" /\ sd'.file_position = sd.file_position + 1
           \/ work'.at = "dispatch" /\ sd'.file_position = sd.file_position
    BY <1>a, <1>4, <2>1 DEF WorkComment, WorkTakeLine
  <2>3. sd.file_position \in Nat /\ work.lines \in Nat
    BY <1>a
  <2> QED BY <1>a, <2>1, <2>2, <2>3
<1>5. CASE WorkBusy \/ WorkPausesInScript \/ WorkBatchYield
  BY <1>a, <1>5 DEF WorkBusy, WorkPausesInScript, WorkBatchYield
<1>6. CASE WorkDispatch
  BY <1>a, <1>6 DEF WorkDispatch, ScriptOf, Goes
<1>7. CASE WorkDefer \/ WorkScriptEnds
  <2>1. work.at \in InLine /\ work'.at = "lineDone" /\ work'.lines = work.lines
    BY <1>a, <1>7 DEF WorkDefer, WorkScriptEnds, InScript
  <2>2. /\ sd'.file = sd.file /\ sd'.file_position = sd.file_position
        /\ sd'.next_file_position = sd.next_file_position
    BY <1>a, <1>7 DEF WorkDefer, WorkScriptEnds, PauseFromFile
  <2> QED BY <1>a, <2>1, <2>2
<1>8. CASE \/ WorkRemember \/ WorkSameTool \/ WorkReplacedEnds \/ WorkHijackZ
           \/ WorkVelocityRestored \/ WorkLineDone
  <2>1. work.at \in InLine \cup {"lineDone"} /\ work'.at = "top" /\ work'.lines = work.lines
    BY <1>a, <1>8 DEF WorkRemember, WorkSameTool, WorkReplacedEnds, WorkHijackZ,
       WorkVelocityRestored, WorkLineDone, InScript, Continue, Goes
  <2>2. sd'.file = sd.file /\ sd'.file_position = sd.next_file_position
    BY <1>a, <1>8 DEF WorkRemember, WorkSameTool, WorkReplacedEnds, WorkHijackZ,
       WorkVelocityRestored, WorkLineDone, Continue
  <2>3. sd.next_file_position \in Nat /\ work.lines \in Nat
    BY <1>a
  <2> QED BY <1>a, <2>1, <2>2, <2>3
<1>9. CASE \/ WorkScriptFails \/ WorkOnError \/ WorkHijackXY \/ WorkMovesFinished
           \/ WorkToolChanged \/ WorkDies \/ WorkScriptCrashes \/ WorkLeaveFlush
  <2>1. /\ work'.at \in InLine => work.at \in InLine
        /\ work'.at \notin {"top", "lineDone"} /\ work'.lines = work.lines
    BY <1>a, <1>9 DEF WorkScriptFails, WorkOnError, WorkHijackXY, WorkMovesFinished,
       WorkToolChanged, WorkDies, WorkScriptCrashes, WorkLeaveFlush, InScript, Goes
  <2>2. UNCHANGED <<sd.file, sd.file_position, sd.next_file_position>>
    BY <1>a, <1>9 DEF WorkScriptFails, WorkOnError, WorkHijackXY, WorkMovesFinished,
       WorkToolChanged, WorkDies, WorkScriptCrashes, WorkLeaveFlush
  <2> QED BY <1>a, <2>1, <2>2
<1>10. CASE WorkLeave \/ WorkFlushed
  BY <1>a, <1>10 DEF WorkLeave, WorkFlushed, Leave
<1> QED
  BY <1>1, <1>2, <1>3, <1>4, <1>5, <1>6, <1>7, <1>8, <1>9, <1>10 DEF WorkerNext

\* A file is opened at its beginning and without a worker; M26 stays inside it.
LEMMA UserWithin ==
  ASSUME TypeOK, OneWorker, Within, NEW u \in Users, NEW k,
         Issue(u, k) \/ Sense(u) \/ UserStep(u)
  PROVE  Within'
<1>a. /\ SdType /\ WorkType /\ Len(sd.file) \in Nat /\ (sd.work_timer <=> work.at # "off")
      /\ sd.file_position <= Len(sd.file)
      /\ work.at = "top" /\ sd.current_file => sd.file_position + work.lines <= Len(sd.file)
      /\ work.at \in InLine \cup {"lineDone"} =>
           sd.next_file_position + work.lines <= Len(sd.file)
  BY LineTypes DEF TypeOK, OneWorker, Within
<1> USE DEF SdType, WorkType, InLine, Within
<1>1. CASE \/ Issue(u, k) \/ SenseDelayOver(u) \/ SensePaused(u) \/ AwaitWorker(u)
           \/ RunRefused(u) \/ PauseDone(u) \/ M25Done(u) \/ RunClearPause(u)
           \/ RunResume(u) \/ ResumeFails(u)
  BY <1>a, <1>1 DEF Issue, SenseDelayOver, SensePaused, AwaitWorker, RunRefused, PauseDone, M25Done,
       RunClearPause, RunResume, ResumeFails
<1>2. CASE \/ Sense(u) \/ RunPause(u) \/ RunM25(u) \/ RunCancel(u) \/ RunReset(u)
           \/ RunToolReport(u) \/ RunSetChannel(u) \/ RunSetPauseState(u)
  <2>1. UNCHANGED <<work, sd.file, sd.current_file, sd.file_position, sd.next_file_position>>
    BY <1>a, <1>2 DEF Sense, RunPause, RunM25, RunCancel, RunReset, RunToolReport,
       RunSetChannel, RunSetPauseState, SendPause,
       AskToStop
  <2> QED BY <1>a, <2>1
<1>3. CASE ResumeDone(u) \/ RunM24(u)
  <2>1. UNCHANGED <<sd, work>> \/ DoResume
    BY <1>3 DEF ResumeDone, RunM24
  <2>2. CASE DoResume
    BY <1>a, <2>2 DEF DoResume, Goes
  <2> QED BY <1>a, <2>1, <2>2
<1>4. CASE RunCancelNothing(u) \/ CancelDone(u) \/ RunResetNothing(u) \/ ResetDone(u)
  <2>1. /\ UNCHANGED <<work, sd.file, sd.next_file_position>>
        /\ \/ UNCHANGED <<sd.file_position, sd.current_file>>
           \/ ~sd'.current_file /\ sd'.file_position = 0
    BY <1>a, <1>4 DEF RunCancelNothing, CancelDone, RunResetNothing, ResetDone
  <2> QED BY <1>a, <2>1
<1>5. CASE RunSelect(u) \/ RunPrintFile(u)
  <2>1. work.at = "off"
    BY <1>a, <1>5 DEF RunSelect, RunPrintFile, Starts, Runs, Refused
  <2>2. work'.at \in {"off", "armed"}
    BY <1>a, <1>5, <2>1 DEF RunSelect, RunPrintFile, Goes
  <2>3. sd'.file_position = 0 /\ sd'.file \in Files
    BY <1>a, <1>5 DEF RunSelect, RunPrintFile, Loaded
  <2>4. Len(sd'.file) \in Nat
    BY <2>3, PrintJobAssumption
  <2> QED BY <2>2, <2>3, <2>4
<1>6. CASE RunM26(u)
  <2>1. work.at = "off" /\ UNCHANGED work
    BY <1>a, <1>6 DEF RunM26, Starts, Runs, Refused
  <2>2. PICK p \in 0..Len(sd.file) : sd' = [sd EXCEPT !.file_position = p]
    BY <1>6 DEF RunM26
  <2>3. sd'.file_position = p /\ sd'.file = sd.file
    BY <1>a, <2>2
  <2> QED BY <1>a, <2>1, <2>2, <2>3
<1> QED
  BY <1>1, <1>2, <1>3, <1>4, <1>5, <1>6 DEF UserStep

LEMMA WithinStep ==
  ASSUME TypeOK, OneWorker, FileStaysOpen, Within, [Next]_vars
  PROVE  Within'
<1>1. CASE Grant \/ UNCHANGED vars
  BY <1>1 DEF Grant, Within, vars
<1>2. CASE WorkerNext
  BY <1>2, WorkerWithin
<1>3. ASSUME NEW u \in Users, NEW k, Issue(u, k) \/ Sense(u) \/ UserStep(u)
      PROVE  Within'
  BY <1>3, UserWithin
<1>4. CASE Shutdown
  BY <1>4 DEF Shutdown, AskToStop, TypeOK, SdType, Within
<1> QED BY <1>1, <1>2, <1>3, <1>4 DEF Next, UserNext, Users

\* The worker leaves without its file only at the end of it.
LEMMA WorkerEnds ==
  ASSUME TypeOK, FileStaysOpen, PositionInStep, Within, Ended, WorkerNext
  PROVE  Ended'
<1>a. /\ SdType /\ WorkType /\ StatsType /\ HistType /\ Len(sd.file) \in Nat
      /\ InLoop /\ ~sd.must_pause_work => sd.current_file
      /\ InLoop /\ ~sd.current_file => ~stats.started
      /\ work.at \in {"leave", "flush"} /\ ~sd.current_file /\ stats.started /\ ~work.error
           => hist.dealt = Len(sd.file)
  BY LineTypes DEF TypeOK, FileStaysOpen, Ended
<1>b. sd'.file = sd.file
  BY WorkerWithin
<1> USE DEF SdType, WorkType, StatsType, HistType, InLoop, Ended
<1>1. CASE WorkStart
  <2>1. work'.at = "off" \/ (sd.current_file /\ sd' = sd /\ work'.at = "top")
    BY <1>a, <1>1 DEF WorkStart, Goes
  <2> QED BY <1>a, <2>1
<1>2. CASE WorkEndOfFile
  <2>1. sd.current_file /\ work.at = "top" /\ Len(sd.file) - sd.file_position <= 0
    BY <1>a, <1>2 DEF WorkEndOfFile, AtTop, Unread
  <2>2. sd.file_position = hist.dealt /\ sd.file_position <= Len(sd.file)
    BY <2>1 DEF PositionInStep, Within
  <2>3. hist.dealt = Len(sd.file)
    BY <1>a, <2>1, <2>2
  <2>4. work'.at = "leave" /\ UNCHANGED <<hist, stats>>
    BY <1>a, <1>2 DEF WorkEndOfFile, Goes
  <2> QED BY <1>b, <2>3, <2>4
<1>3. CASE \/ WorkAskedToStop \/ WorkReadFails \/ WorkOnError \/ WorkScriptCrashes
  <2>1. /\ InLoop /\ work'.at = "leave" /\ UNCHANGED <<hist, stats>>
        /\ sd'.current_file = sd.current_file
    BY <1>a, <1>3 DEF WorkAskedToStop, WorkReadFails, WorkOnError, WorkScriptCrashes, AtTop,
       InScript, Goes
  <2> QED BY <1>a, <2>1
<1>4. CASE \/ WorkRead \/ WorkComment \/ WorkBusy \/ WorkTakeLine \/ WorkDispatch \/ WorkDefer
           \/ WorkRemember \/ WorkSameTool
  <2>1. InLoop /\ work'.at \notin {"leave", "flush"} /\ UNCHANGED stats
    <3>1. CASE WorkRead \/ WorkComment \/ WorkBusy \/ WorkTakeLine
      BY <1>a, <3>1 DEF WorkRead, WorkComment, WorkBusy, WorkTakeLine, AtTop
    <3>2. CASE WorkDispatch
      BY <1>a, <3>2 DEF WorkDispatch, ScriptOf, Goes
    <3>3. CASE WorkDefer \/ WorkRemember \/ WorkSameTool
      BY <1>a, <3>3 DEF WorkDefer, WorkRemember, WorkSameTool, Continue, Goes
    <3> QED BY <1>4, <3>1, <3>2, <3>3
  <2>2. sd'.current_file = sd.current_file
    BY <1>a, <1>4 DEF WorkRead, WorkComment, WorkBusy, WorkTakeLine, WorkDispatch, WorkDefer,
       WorkRemember, WorkSameTool, Continue
  <2> QED BY <1>a, <2>1, <2>2
<1>5. CASE \/ WorkScriptEnds \/ WorkScriptFails \/ WorkBatchYield
           \/ WorkLineDone \/ WorkReplacedEnds
  <2>1. InLoop /\ work'.at \notin {"leave", "flush"} /\ UNCHANGED stats
    BY <1>a, <1>5 DEF WorkScriptEnds, WorkScriptFails, WorkBatchYield,
       WorkLineDone, WorkReplacedEnds, InScript, Continue, Goes
  <2>2. sd'.current_file = sd.current_file
    BY <1>a, <1>5 DEF WorkScriptEnds, WorkScriptFails, WorkBatchYield,
       WorkLineDone, WorkReplacedEnds, Continue, PauseFromFile
  <2> QED BY <1>a, <2>1, <2>2
<1>6. CASE \/ WorkHijackXY \/ WorkHijackZ \/ WorkMovesFinished \/ WorkToolChanged
           \/ WorkVelocityRestored \/ WorkDies
  <2>1. InLoop /\ work'.at \notin {"leave", "flush"} /\ UNCHANGED stats
    BY <1>a, <1>6 DEF WorkHijackXY, WorkHijackZ, WorkMovesFinished, WorkToolChanged,
       WorkVelocityRestored, WorkDies, InScript, Continue, Goes
  <2>2. sd'.current_file = sd.current_file
    BY <1>a, <1>6 DEF WorkHijackXY, WorkHijackZ, WorkMovesFinished, WorkToolChanged,
       WorkVelocityRestored, WorkDies, Continue
  <2> QED BY <1>a, <2>1, <2>2
<1>7. CASE WorkLeaveFlush
  BY <1>a, <1>7 DEF WorkLeaveFlush, Goes
<1>8. CASE WorkPausesInScript
  BY <1>a, <1>8 DEF WorkPausesInScript
<1>9. CASE WorkLeave \/ WorkFlushed
  BY <1>a, <1>9 DEF WorkLeave, WorkFlushed, Leave
<1> QED
  BY <1>1, <1>2, <1>3, <1>4, <1>5, <1>6, <1>7, <1>8, <1>9 DEF WorkerNext

\* A user that closes the file under a worker notes the outcome itself.
LEMMA UserEnds ==
  ASSUME TypeOK, OneWorker, Ended, NEW u \in Users, NEW k,
         Issue(u, k) \/ Sense(u) \/ UserStep(u)
  PROVE  Ended'
<1>a. /\ SdType /\ WorkType /\ StatsType /\ HistType /\ (sd.work_timer <=> work.at # "off")
      /\ InLoop /\ ~sd.current_file => ~stats.started
      /\ work.at \in {"leave", "flush"} /\ ~sd.current_file /\ stats.started /\ ~work.error
           => hist.dealt = Len(sd.file)
  BY DEF TypeOK, OneWorker, Ended
<1> USE DEF SdType, WorkType, StatsType, HistType, InLoop, Ended
<1>1. CASE \/ Issue(u, k) \/ SenseDelayOver(u) \/ SensePaused(u) \/ AwaitWorker(u)
           \/ RunRefused(u) \/ RunClearPause(u) \/ RunResume(u) \/ ResumeFails(u)
           \/ PauseDone(u) \/ M25Done(u)
  <2>1. UNCHANGED <<sd, work, stats, hist.dealt>>
    BY <1>a, <1>1 DEF Issue, SenseDelayOver, SensePaused, AwaitWorker, RunRefused, RunClearPause,
       RunResume, ResumeFails, PauseDone, M25Done
  <2> QED BY <1>a, <2>1
<1>2. CASE \/ Sense(u) \/ RunPause(u) \/ RunM25(u) \/ RunCancel(u) \/ RunReset(u)
           \/ RunToolReport(u) \/ RunSetChannel(u) \/ RunSetPauseState(u)
           \/ RunCancelNothing(u)
  <2>1. UNCHANGED <<work, stats, hist.dealt, sd.file, sd.current_file>>
    BY <1>a, <1>2 DEF Sense, RunPause, RunM25, RunCancel, RunReset, RunToolReport,
       RunSetChannel, RunSetPauseState,
       RunCancelNothing, SendPause, AskToStop
  <2> QED BY <1>a, <2>1
<1>3. CASE ResumeDone(u) \/ RunM24(u)
  <2>1. UNCHANGED <<sd, work, stats, hist>> \/ DoResume
    BY <1>3 DEF ResumeDone, RunM24
  <2>2. CASE DoResume
    BY <1>a, <2>2 DEF DoResume, Goes
  <2> QED BY <1>a, <2>1, <2>2
<1>4. CASE CancelDone(u) \/ RunResetNothing(u) \/ ResetDone(u)
  <2>1. stats'.started = FALSE
    BY <1>a, <1>4 DEF CancelDone, RunResetNothing, ResetDone, NoteFinish, StatsReset
  <2> QED BY <2>1
<1>5. CASE RunSelect(u) \/ RunPrintFile(u) \/ RunM26(u)
  <2>1. work.at = "off"
    BY <1>a, <1>5 DEF RunSelect, RunPrintFile, RunM26, Starts, Runs, Refused
  <2>2. work'.at \in {"off", "armed"}
    BY <1>a, <1>5, <2>1 DEF RunSelect, RunPrintFile, RunM26, Goes
  <2> QED BY <2>2
<1> QED
  BY <1>1, <1>2, <1>3, <1>4, <1>5 DEF UserStep

LEMMA EndedStep ==
  ASSUME TypeOK, OneWorker, FileStaysOpen, PositionInStep, Within, Ended, [Next]_vars
  PROVE  Ended'
<1>1. CASE Grant \/ UNCHANGED vars
  BY <1>1 DEF Grant, Ended, InLoop, vars
<1>2. CASE WorkerNext
  BY <1>2, WorkerEnds
<1>3. ASSUME NEW u \in Users, NEW k, Issue(u, k) \/ Sense(u) \/ UserStep(u)
      PROVE  Ended'
  BY <1>3, UserEnds
<1>4. CASE Shutdown
  BY <1>4 DEF Shutdown, AskToStop, TypeOK, SdType, Ended, InLoop
<1> QED BY <1>1, <1>2, <1>3, <1>4 DEF Next, UserNext, Users

\* Only a worker that returns reports a print complete.
LEMMA UserCompletesNothing ==
  ASSUME StatsType, NEW u \in Users, NEW k, Issue(u, k) \/ Sense(u) \/ UserStep(u)
  PROVE  stats' = stats \/ stats'.state # "complete"
<1>1. CASE \/ Issue(u, k) \/ SenseDelayOver(u) \/ SensePaused(u) \/ AwaitWorker(u)
           \/ RunRefused(u) \/ RunClearPause(u) \/ RunResume(u) \/ ResumeFails(u)
           \/ PauseDone(u) \/ M25Done(u) \/ ResumeDone(u) \/ RunM24(u)
  BY <1>1 DEF Issue, SenseDelayOver, SensePaused, AwaitWorker, RunRefused, RunClearPause,
     RunResume, ResumeFails, PauseDone, M25Done, ResumeDone, RunM24
<1>2. CASE \/ Sense(u) \/ RunPause(u) \/ RunM25(u) \/ RunCancel(u) \/ RunReset(u)
           \/ RunToolReport(u) \/ RunSetChannel(u) \/ RunSetPauseState(u)
           \/ RunCancelNothing(u) \/ RunM26(u)
  BY <1>2 DEF Sense, RunPause, RunM25, RunCancel, RunReset, RunToolReport, RunSetChannel,
     RunSetPauseState, RunCancelNothing, RunM26
<1>3. CASE CancelDone(u)
  <2>1. NoteFinish("cancelled")
    BY <1>3 DEF CancelDone
  <2> QED BY <2>1 DEF NoteFinish
<1>4. CASE RunResetNothing(u) \/ ResetDone(u) \/ RunSelect(u) \/ RunPrintFile(u)
  <2>1. StatsReset
    BY <1>4 DEF RunResetNothing, ResetDone, RunSelect, RunPrintFile
  <2> QED BY <2>1 DEF StatsReset
<1> QED BY <1>1, <1>2, <1>3, <1>4 DEF UserStep

\* The step that reports a print complete is the worker's return at the end of
\* the file.
LEMMA CompleteStep ==
  ASSUME PositionInv, Ended, [Next]_vars, stats'.state = "complete", stats.state # "complete"
  PROVE  hist.in_order /\ hist.dealt = Len(sd.file)
<1>a. StatsType /\ hist.in_order
  BY DEF PositionInv, TypeOK
<1>1. ~(stats' = stats)
  OBVIOUS
<1>2. WorkerNext
  BY <1>a, <1>1, UserCompletesNothing DEF Next, UserNext, Users, Grant, Shutdown, vars
<1>3. WorkLeave \/ WorkFlushed \/ WorkStart
  BY <1>1, <1>2 DEF WorkerNext, WorkAskedToStop, WorkRead, WorkReadFails, WorkEndOfFile, WorkComment,
     WorkBusy, WorkTakeLine, WorkDispatch, WorkDefer, WorkRemember, WorkSameTool, WorkPausesInScript,
     WorkScriptEnds, WorkScriptFails, WorkScriptCrashes, WorkOnError, WorkBatchYield, WorkLineDone,
     WorkReplacedEnds, WorkHijackXY, WorkHijackZ, WorkMovesFinished, WorkToolChanged,
     WorkVelocityRestored, WorkDies, WorkLeaveFlush, Continue
<1>4. CASE WorkStart
  BY <1>1, <1>4 DEF WorkStart, NoteStart
<1>5. CASE WorkLeave \/ WorkFlushed
  <2>1. Leave /\ work.at \in {"leave", "flush"}
    BY <1>5 DEF WorkLeave, WorkFlushed
  <2>2. ~work.error /\ ~sd.current_file /\ stats.started
    BY <1>a, <1>1, <2>1 DEF Leave, NoteFinish, NotePause, StatsType
  <2> QED BY <1>a, <2>1, <2>2 DEF Ended
<1> QED BY <1>3, <1>4, <1>5

\* What is reported, together with what it rests on.
ReportInv == PositionInv /\ Reported /\ Within /\ Ended

THEOREM PrintJobReport == Spec => []ReportInv
<1>1. Init => ReportInv
  <2> SUFFICES ASSUME Init PROVE ReportInv
    OBVIOUS
  <2>1. PositionInv
    <3>1. TypeOK
      BY InitTypes
    <3> QED BY <3>1 DEF Init, PositionInv, OneWorker, FileStaysOpen, PositionInStep, InLoop,
                       InLine, UsersHold
  <2>2. Len(sd.file) \in Nat
    BY <2>1, LineTypes DEF PositionInv, TypeOK
  <2>3. Within /\ Reported /\ Ended
    BY <2>2 DEF Init, Within, Reported, ReportsPrinting, Ended, InLoop, InLine
  <2> QED BY <2>1, <2>3 DEF ReportInv
<1>2. ReportInv /\ [Next]_vars => ReportInv'
  BY NextTypes, OneWorkerStep, UsersHoldStep, FileStaysOpenStep, PositionStep, ReportedStep,
     WithinStep, EndedStep
     DEF PositionInv, ReportInv
<1> QED BY <1>1, <1>2, PTL DEF Spec

\* Nothing is reported as printing without a worker, and a worker that goes on
\* is reported, for any files, clients and sensors (print_stats.py against
\* work_handler).
THEOREM PrintJobReports == Spec => []ReportsPrinting
<1>1. ReportInv => ReportsPrinting
  BY DEF ReportInv, Reported
<1> QED BY <1>1, PrintJobReport, PTL

\* A print is reported complete only when every line of its file was dealt with
\* in order, for any files, clients and sensors (the end of work_handler).
THEOREM PrintJobCompleteMeansWhole == Spec => CompleteMeansWhole
<1>1. ReportInv /\ [Next]_vars =>
        [stats.state' = "complete" /\ stats.state # "complete"
           => hist.in_order /\ hist.dealt = Len(sd.file)]_vars
  BY CompleteStep DEF ReportInv
<1> QED BY <1>1, PrintJobReport, PTL DEF Spec, CompleteMeansWhole

-----------------------------------------------------------------------------
(* Stops and shutdowns: no new line.                                        *)

\* The scripts that a line starts; the Z part of a move after a tool change and
\* the velocity limit after it are further scripts of a line under way.
LineScripts == {"move", "script", "replacedScript", "hijackXY", "finishMoves"}
LaterScripts == {"hijackZ", "restoreVelocity", "onError", "flush"}

\* The worker is in the line for the mutex once, and only with a script that is
\* not the first of a line; it holds the mutex only inside scripts.
InTheLine ==
  /\ \A i, j \in 1..Len(waiting) : waiting[i] = Worker /\ waiting[j] = Worker => i = j
  /\ \A i \in 1..Len(waiting) : waiting[i] = Worker =>
       holder # Worker /\ work.at \in LaterScripts
  /\ holder = Worker => work.at \in WorkerScripts

\* Between the test of the mutex and the dispatch of a line nothing else runs:
\* the worker that dispatches has not been asked to stop.
Undisturbed ==
  work.at = "dispatch" => cpu = Worker /\ ~Locked /\ ~sd.must_pause_work

\* A worker that is there after a shutdown has been asked to stop, unless a RESUME
\* has started it since.
ShutdownHeard == is_shutdown /\ ~hist.revived /\ sd.work_timer => sd.must_pause_work

\* Where a user's step finds the processor, and what it leaves of the mutex and
\* of the worker.
LEMMA UserActs ==
  ASSUME TypeOK, OneWorker, NEW u \in Users, NEW k, Issue(u, k) \/ Sense(u) \/ UserStep(u)
  PROVE  /\ cpu \in {u, Nobody} /\ is_shutdown' = is_shutdown
         /\ holder' \in {holder, u, Nobody}
         /\ waiting' = waiting \/ waiting' = Append(waiting, u)
         /\ work' = work \/ (work.at = "off" /\ work'.at \in {"off", "armed"})
<1>a. WorkType /\ SdType /\ (sd.work_timer <=> work.at # "off")
  BY DEF TypeOK, OneWorker
<1>1. CASE Issue(u, k) \/ SenseDelayOver(u)
  BY <1>1 DEF Issue, SenseDelayOver, Request
<1>2. CASE Sense(u) \/ SensePaused(u) \/ AwaitWorker(u) \/ RunResume(u)
  BY <1>2 DEF Sense, SensePaused, AwaitWorker, RunResume, Resumes, Starts, Runs
<1>3. CASE \/ RunRefused(u) \/ PauseDone(u) \/ M25Done(u) \/ ResumeFails(u) \/ CancelDone(u)
           \/ ResetDone(u)
  BY <1>3 DEF RunRefused, PauseDone, M25Done, ResumeFails, CancelDone, ResetDone, Continues,
     Resumes, Return, Release
<1>4. CASE RunPause(u) \/ RunM25(u) \/ RunCancel(u) \/ RunReset(u)
  BY <1>4 DEF RunPause, RunM25, RunCancel, RunReset, Starts, Runs, Proceed, lockVars
<1>5. CASE ResumeDone(u) \/ RunM24(u)
  <2>1. /\ cpu \in {u, Nobody} /\ is_shutdown' = is_shutdown
        /\ holder' = Nobody /\ waiting' = waiting
    BY <1>5 DEF ResumeDone, RunM24, Starts, Runs, Continues, Resumes, Return, Release
  <2>2. work' = work \/ (DoResume /\ work.at = "off")
    BY <1>a, <1>5 DEF ResumeDone, RunM24, Starts, Refused, Runs, SdType
  <2>3. DoResume => work'.at = "armed"
    BY <1>a DEF DoResume, Goes, WorkType
  <2> QED BY <2>1, <2>2, <2>3
<1>6. CASE \/ RunClearPause(u) \/ RunCancelNothing(u) \/ RunResetNothing(u) \/ RunM26(u)
           \/ RunToolReport(u) \/ RunSetChannel(u) \/ RunSetPauseState(u) \/ RunSelect(u)
  BY <1>6 DEF RunClearPause, RunCancelNothing, RunResetNothing, RunM26, RunToolReport,
     RunSetChannel, RunSetPauseState, RunSelect,
     Starts, Runs, Return, Release
<1>7. CASE RunPrintFile(u)
  <2>1. /\ cpu \in {u, Nobody} /\ is_shutdown' = is_shutdown
        /\ holder' = Nobody /\ waiting' = waiting /\ work.at = "off"
    BY <1>a, <1>7 DEF RunPrintFile, Starts, Runs, Refused, Return, Release, SdType
  <2>2. work'.at \in {"off", "armed"}
    BY <1>a, <1>7 DEF RunPrintFile, Goes, WorkType
  <2> QED BY <2>1, <2>2
<1> QED BY <1>1, <1>2, <1>3, <1>4, <1>5, <1>6, <1>7 DEF UserStep

\* What the worker's steps do with the mutex.
LEMMA WorkerLocks ==
  ASSUME TypeOK, InTheLine, Undisturbed, WorkerNext
  PROVE  \/ WorkDispatch /\ holder' = Worker /\ waiting' = waiting /\ work'.at \in LineScripts
         \/ /\ holder' = holder \/ (holder = Nobody /\ holder' = Worker)
            /\ waiting' = waiting /\ work'.at \in {"restoreVelocity", "flush"}
            /\ work.at \in {"toolWait", "leave"}
         \/ /\ waiting' = Append(waiting, Worker) /\ work'.at \in LaterScripts
            /\ work.at \in {"toolWait", "leave"} \cup WorkerScripts
            /\ holder' # Worker /\ \A i \in 1..Len(waiting) : waiting[i] # Worker
         \/ /\ holder' \in {holder, Nobody} /\ waiting' = waiting
            /\ \/ work' = work /\ holder' = holder
               \/ \A i \in 1..Len(waiting) : waiting[i] # Worker
            /\ holder' = Worker => work'.at \in WorkerScripts
            /\ work'.at \in LineScripts => work' = work
<1>a. /\ WorkType /\ LockType /\ Worker # Nobody
      /\ holder = Worker => work.at \in WorkerScripts
      /\ work.at \notin LaterScripts \/ holder = Worker =>
           \A i \in 1..Len(waiting) : waiting[i] # Worker
  BY PrintJobAssumption DEF TypeOK, InTheLine, Procs
<1> USE DEF WorkType, LockType, LineScripts, LaterScripts, WorkerScripts, FileScripts
<1>1. CASE WorkDispatch
  <2>1. holder' = Worker /\ waiting' = waiting
    BY <1>1 DEF WorkDispatch, Request, Undisturbed
  <2>2. work'.at = ScriptOf /\ ScriptOf \in LineScripts
    BY <1>a, <1>1 DEF WorkDispatch, Goes, ScriptOf
  <2> QED BY <1>1, <2>1, <2>2
<1>2. CASE WorkToolChanged \/ WorkLeaveFlush
  BY <1>a, <1>2 DEF WorkToolChanged, WorkLeaveFlush, Request, Locked, Goes
<1>3. CASE WorkScriptFails \/ WorkHijackXY
  BY <1>a, <1>3 DEF WorkScriptFails, WorkHijackXY, InScript, Rerequest, Goes
<1>4. CASE WorkBusy \/ WorkPausesInScript \/ WorkBatchYield
  BY <1>a, <1>4 DEF WorkBusy, WorkPausesInScript, WorkBatchYield
<1>5. CASE \/ WorkStart \/ WorkAskedToStop \/ WorkRead \/ WorkReadFails \/ WorkEndOfFile
           \/ WorkComment \/ WorkTakeLine \/ WorkDefer \/ WorkLineDone
  <2>1. UNCHANGED <<holder, waiting>>
    BY <1>5 DEF WorkStart, WorkAskedToStop, WorkRead, WorkReadFails, WorkEndOfFile,
       WorkComment, WorkTakeLine, WorkDefer, WorkLineDone, lockVars
  <2>2. work.at \in {"armed", "top", "dispatch", "lineDone"}
    BY <1>5 DEF WorkStart, WorkAskedToStop, WorkRead, WorkReadFails, WorkEndOfFile,
       WorkComment, WorkTakeLine, WorkDefer, WorkLineDone, AtTop
  <2>3. work'.at \in {"off", "top", "dispatch", "lineDone", "leave"}
    <3>1. CASE WorkStart
      BY <1>a, <3>1 DEF WorkStart, Goes
    <3>2. CASE WorkRead \/ WorkComment
      BY <1>a, <3>2 DEF WorkRead, WorkComment, AtTop
    <3>3. CASE \/ WorkAskedToStop \/ WorkReadFails \/ WorkEndOfFile \/ WorkTakeLine
               \/ WorkDefer \/ WorkLineDone
      BY <1>a, <3>3 DEF WorkAskedToStop, WorkReadFails, WorkEndOfFile, WorkTakeLine, WorkDefer,
         WorkLineDone, Goes
    <3> QED BY <1>5, <3>1, <3>2, <3>3
  <2> QED BY <1>a, <2>1, <2>2, <2>3
<1>6. CASE WorkRemember \/ WorkSameTool
  BY <1>a, <1>6 DEF WorkRemember, WorkSameTool, Continue, Goes
<1>7. CASE WorkReplacedEnds \/ WorkHijackZ \/ WorkVelocityRestored
  BY <1>a, <1>7 DEF WorkReplacedEnds, WorkHijackZ, WorkVelocityRestored, InScript, Continue,
     Goes, Release
<1>8. CASE WorkScriptEnds \/ WorkScriptCrashes \/ WorkOnError \/ WorkMovesFinished \/ WorkDies
  BY <1>a, <1>8 DEF WorkScriptEnds, WorkScriptCrashes, WorkOnError, WorkMovesFinished, WorkDies,
     InScript, Goes, Release
<1>9. CASE WorkLeave \/ WorkFlushed
  BY <1>a, <1>9 DEF WorkLeave, WorkFlushed, Leave, Release
<1> QED
  BY <1>1, <1>2, <1>3, <1>4, <1>5, <1>6, <1>7, <1>8, <1>9 DEF WorkerNext

\* A line of greenlets with one more at its end.
LEMMA OneMore ==
  ASSUME LockType, NEW p
  PROVE  /\ Len(Append(waiting, p)) = Len(waiting) + 1 /\ Len(waiting) \in Nat
         /\ \A i \in 1..Len(Append(waiting, p)) :
              (i \in 1..Len(waiting) /\ Append(waiting, p)[i] = waiting[i])
              \/ (i = Len(waiting) + 1 /\ Append(waiting, p)[i] = p)
BY DEF LockType

\* The worker is in the line once, whoever acts.
LEMMA InTheLineStep ==
  ASSUME TypeOK, OneWorker, InTheLine, Undisturbed, [Next]_vars
  PROVE  InTheLine'
<1>a. LockType /\ Worker # Nobody /\ Worker \notin Users
  BY PrintJobAssumption DEF TypeOK, Procs
<1>1. CASE Grant
  <2>1. /\ holder' = Head(waiting) /\ waiting' = Tail(waiting) /\ waiting # <<>> /\ work' = work
    BY <1>1 DEF Grant
  <2>2. /\ Len(waiting) \in Nat \ {0} /\ Len(waiting') = Len(waiting) - 1 /\ holder' = waiting[1]
        /\ \A i \in 1..Len(waiting') : waiting'[i] = waiting[i + 1]
    BY <1>a, <2>1 DEF LockType
  <2>3. /\ 1 \in 1..Len(waiting)
        /\ \A i \in 1..Len(waiting') : i + 1 \in 1..Len(waiting) /\ i + 1 # 1
        /\ \A i, j \in 1..Len(waiting') : i + 1 = j + 1 => i = j
    BY <2>2
  <2>4. LaterScripts \subseteq WorkerScripts
    BY DEF LaterScripts, WorkerScripts, FileScripts
  <2> QED BY <2>1, <2>2, <2>3, <2>4 DEF InTheLine
<1>2. CASE WorkerNext
  <2>1. CASE WorkDispatch /\ holder' = Worker /\ waiting' = waiting /\ work'.at \in LineScripts
    <3>1. \A i \in 1..Len(waiting) : waiting[i] # Worker
      BY <2>1 DEF WorkDispatch, InTheLine, LaterScripts
    <3>2. LineScripts \subseteq WorkerScripts
      BY DEF LineScripts, WorkerScripts, FileScripts
    <3> QED BY <2>1, <3>1, <3>2 DEF InTheLine
  <2>2. CASE /\ waiting' = waiting /\ work'.at \in {"restoreVelocity", "flush"}
             /\ work.at \in {"toolWait", "leave"}
    BY <2>2 DEF InTheLine, LaterScripts, WorkerScripts
  <2>3. CASE /\ waiting' = Append(waiting, Worker) /\ work'.at \in LaterScripts
             /\ holder' # Worker /\ \A i \in 1..Len(waiting) : waiting[i] # Worker
    BY <1>a, <2>3, OneMore DEF InTheLine
  <2>4. CASE /\ waiting' = waiting
             /\ \/ work' = work /\ holder' = holder
                \/ \A i \in 1..Len(waiting) : waiting[i] # Worker
             /\ holder' = Worker => work'.at \in WorkerScripts
    BY <2>4 DEF InTheLine
  <2> QED BY <1>2, <2>1, <2>2, <2>3, <2>4, WorkerLocks
<1>3. ASSUME NEW u \in Users, NEW k, Issue(u, k) \/ Sense(u) \/ UserStep(u)
      PROVE  InTheLine'
  <2>1. /\ holder' \in {holder, u, Nobody} /\ u # Worker
        /\ waiting' = waiting \/ waiting' = Append(waiting, u)
        /\ work' = work \/ (work.at = "off" /\ work'.at \in {"off", "armed"})
    BY <1>3, <1>a, UserActs
  <2>2. \A i \in 1..Len(waiting') : waiting'[i] = Worker =>
          i \in 1..Len(waiting) /\ waiting[i] = Worker
    BY <1>a, <2>1, OneMore
  <2>3. work.at = "off" => holder # Worker /\ \A i \in 1..Len(waiting) : waiting[i] # Worker
    BY DEF InTheLine, LaterScripts, WorkerScripts, FileScripts
  <2> QED BY <1>a, <2>1, <2>2, <2>3 DEF InTheLine
<1>4. CASE Shutdown \/ UNCHANGED vars
  BY <1>4 DEF Shutdown, InTheLine, lockVars, vars
<1> QED BY <1>1, <1>2, <1>3, <1>4 DEF Next, UserNext, Users

\* Nobody else runs while the worker dispatches.
LEMMA UndisturbedStep ==
  ASSUME TypeOK, OneWorker, Undisturbed, [Next]_vars
  PROVE  Undisturbed'
<1>a. WorkType /\ SdType /\ Worker # Nobody /\ Worker \notin Users
  BY PrintJobAssumption DEF TypeOK, Procs
<1> USE DEF Undisturbed
<1>1. CASE Grant \/ Shutdown \/ UNCHANGED vars
  BY <1>a, <1>1 DEF Grant, Shutdown, vars, lockVars, Locked
<1>2. CASE WorkerNext
  <2>1. CASE WorkTakeLine
    BY <1>a, <2>1 DEF WorkTakeLine, AtTop, Locked, SdType
  <2>2. CASE \/ WorkAskedToStop \/ WorkReadFails \/ WorkEndOfFile \/ WorkLineDone \/ WorkDefer
             \/ WorkDispatch \/ WorkRemember \/ WorkSameTool \/ WorkReplacedEnds
    BY <1>a, <2>2 DEF WorkAskedToStop, WorkReadFails, WorkEndOfFile, WorkLineDone, WorkDefer,
       WorkDispatch, ScriptOf, WorkRemember, WorkSameTool, WorkReplacedEnds, Continue, Goes, WorkType
  <2>3. CASE \/ WorkStart \/ WorkRead \/ WorkComment \/ WorkBusy \/ WorkPausesInScript
             \/ WorkBatchYield
    BY <1>a, <2>3 DEF WorkStart, WorkRead, WorkComment, WorkBusy, WorkPausesInScript,
       WorkBatchYield, AtTop, Goes, WorkType, WorkerScripts, FileScripts
  <2>4. CASE \/ WorkScriptEnds \/ WorkScriptFails \/ WorkScriptCrashes \/ WorkOnError
             \/ WorkHijackXY \/ WorkHijackZ \/ WorkMovesFinished \/ WorkToolChanged
             \/ WorkVelocityRestored
    <3>1. CASE WorkScriptEnds
      <4>1. work' = [work EXCEPT !.at = "lineDone", !.pending_feedrate = FALSE]
        BY <3>1 DEF WorkScriptEnds
      <4> QED BY <1>a, <4>1 DEF WorkType
    <3>2. CASE WorkScriptFails
      <4>1. work' = [work EXCEPT !.at = "onError", !.error = TRUE]
        BY <3>2 DEF WorkScriptFails
      <4> QED BY <1>a, <4>1 DEF WorkType
    <3>3. CASE ~(WorkScriptEnds \/ WorkScriptFails)
      <4>1. \E place \in {"leave", "hijackZ", "top", "toolWait", "restoreVelocity"} : Goes(place)
        BY <2>4, <3>3 DEF WorkScriptCrashes, WorkOnError, WorkHijackXY, WorkHijackZ,
           WorkMovesFinished, WorkToolChanged, WorkVelocityRestored, Continue
      <4> QED BY <1>a, <4>1 DEF Goes, WorkType
    <3> QED BY <3>1, <3>2, <3>3
  <2>5. CASE WorkDies \/ WorkLeave \/ WorkLeaveFlush \/ WorkFlushed
    BY <1>a, <2>5 DEF WorkDies, WorkLeave, WorkLeaveFlush, WorkFlushed, Leave, Goes, WorkType
  <2> QED BY <1>2, <2>1, <2>2, <2>3, <2>4, <2>5 DEF WorkerNext
<1>3. ASSUME NEW u \in Users, NEW k, Issue(u, k) \/ Sense(u) \/ UserStep(u)
      PROVE  Undisturbed'
  <2>1. /\ cpu \in {u, Nobody} /\ u # Worker
        /\ work' = work \/ work'.at \in {"off", "armed"}
    BY <1>3, <1>a, UserActs
  <2> QED BY <1>a, <2>1
<1> QED BY <1>1, <1>2, <1>3 DEF Next, UserNext, Users

\* The worker writes down what it has dealt with, and nothing else.
LEMMA WorkerNotes ==
  ASSUME TypeOK, WorkerNext
  PROVE  UNCHANGED <<hist.revived, hist.tool, hist.sure>>
<1>a. HistType
  BY DEF TypeOK
<1>1. CASE \/ WorkComment \/ WorkDefer \/ WorkScriptEnds \/ WorkRemember \/ WorkSameTool
           \/ WorkReplacedEnds \/ WorkHijackZ \/ WorkVelocityRestored
  <2>1. \E n : Dealt(n)
    BY <1>1 DEF WorkComment, WorkDefer, WorkScriptEnds, WorkRemember, WorkSameTool,
       WorkReplacedEnds, WorkHijackZ, WorkVelocityRestored, Continue
  <2> QED BY <1>a, <2>1 DEF Dealt, HistType
<1>2. CASE WorkLeave \/ WorkFlushed
  BY <1>2 DEF WorkLeave, WorkFlushed, Leave
<1>3. CASE ~(\/ WorkComment \/ WorkDefer \/ WorkScriptEnds \/ WorkRemember \/ WorkSameTool
             \/ WorkReplacedEnds \/ WorkHijackZ \/ WorkVelocityRestored \/ WorkLeave
             \/ WorkFlushed)
  BY <1>3 DEF WorkerNext, WorkStart, WorkAskedToStop, WorkRead, WorkReadFails, WorkEndOfFile,
     WorkBusy, WorkTakeLine, WorkDispatch, WorkPausesInScript, WorkScriptFails, WorkScriptCrashes,
     WorkOnError, WorkBatchYield, WorkLineDone, WorkHijackXY, WorkMovesFinished, WorkToolChanged, WorkDies,
     WorkLeaveFlush
<1> QED BY <1>1, <1>2, <1>3

\* What a user's step does with the request to stop, and with the history.
LEMMA UserRevives ==
  ASSUME TypeOK, NEW u \in Users, NEW k, Issue(u, k) \/ Sense(u) \/ UserStep(u), is_shutdown
  PROVE  \/ hist'.revived
         \/ /\ sd'.work_timer = sd.work_timer
            /\ sd.must_pause_work => sd'.must_pause_work
            /\ hist'.revived = hist.revived
<1>a. SdType /\ HistType
  BY DEF TypeOK
<1>1. CASE \/ Issue(u, k) \/ SenseDelayOver(u) \/ SensePaused(u) \/ AwaitWorker(u)
           \/ RunRefused(u) \/ ResumeFails(u)
  BY <1>1 DEF Issue, SenseDelayOver, SensePaused, AwaitWorker, RunRefused, ResumeFails
<1>2. CASE \/ Sense(u) \/ CancelDone(u) \/ ResetDone(u) \/ PauseDone(u) \/ M25Done(u)
  BY <1>a, <1>2 DEF Sense, CancelDone, ResetDone, PauseDone, M25Done, SendPause, AskToStop, SdType,
     HistType
<1>3. CASE ResumeDone(u)
  <2>1. DoResume \/ UNCHANGED <<sd, hist>>
    BY <1>3 DEF ResumeDone
  <2> QED BY <1>a, <2>1 DEF DoResume, HistType
<1>4. CASE ~(\/ Issue(u, k) \/ SenseDelayOver(u) \/ SensePaused(u) \/ AwaitWorker(u)
             \/ RunRefused(u) \/ ResumeFails(u) \/ Sense(u) \/ CancelDone(u) \/ ResetDone(u)
             \/ PauseDone(u) \/ M25Done(u) \/ ResumeDone(u))
  BY <1>4 DEF UserStep, RunPause, RunM25, RunCancel, RunReset, RunResume, RunClearPause,
     RunCancelNothing, RunResetNothing, RunM26, RunToolReport, RunSetChannel,
     RunSetPauseState,
     RunSelect, RunPrintFile, RunM24, Starts, Runs
<1> QED BY <1>1, <1>2, <1>3, <1>4

\* Nothing but a RESUME withdraws the request to stop after a shutdown.
LEMMA ShutdownHeardStep ==
  ASSUME TypeOK, OneWorker, FileStaysOpen, ShutdownHeard, [Next]_vars
  PROVE  ShutdownHeard'
<1>a. SdType
  BY DEF TypeOK
<1> USE DEF ShutdownHeard
<1>1. CASE Grant \/ UNCHANGED vars
  BY <1>1 DEF Grant, vars
<1>2. CASE Shutdown
  BY <1>a, <1>2 DEF Shutdown, AskToStop, SdType
<1>3. CASE WorkerNext
  <2>1. /\ sd'.work_timer => sd.work_timer
        /\ sd.must_pause_work => sd'.must_pause_work
    BY <1>3, WorkerKeepsFile
  <2>2. is_shutdown' = is_shutdown \/ sd'.must_pause_work
    <3>1. CASE WorkDies \/ WorkScriptCrashes
      BY <1>a, <3>1 DEF WorkDies, WorkScriptCrashes, SdType
    <3>2. CASE WorkLeave \/ WorkFlushed
      BY <3>2 DEF WorkLeave, WorkFlushed, Leave
    <3>3. CASE ~(WorkDies \/ WorkScriptCrashes \/ WorkLeave \/ WorkFlushed)
      BY <1>3, <3>3 DEF WorkerNext, WorkStart, WorkAskedToStop, WorkRead, WorkReadFails,
         WorkEndOfFile, WorkComment, WorkBusy, WorkTakeLine, WorkDispatch, WorkDefer, WorkRemember,
         WorkSameTool, WorkPausesInScript, WorkScriptEnds, WorkScriptFails, WorkOnError,
         WorkBatchYield, WorkLineDone, WorkReplacedEnds, WorkHijackXY, WorkHijackZ,
         WorkMovesFinished, WorkToolChanged, WorkVelocityRestored, WorkLeaveFlush, Continue
    <3> QED BY <3>1, <3>2, <3>3
  <2>3. hist'.revived = hist.revived
    BY <1>3, WorkerNotes
  <2> QED BY <2>1, <2>2, <2>3
<1>4. ASSUME NEW u \in Users, NEW k, Issue(u, k) \/ Sense(u) \/ UserStep(u)
      PROVE  ShutdownHeard'
  <2>1. is_shutdown' = is_shutdown
    BY <1>4, UserActs
  <2>2. CASE is_shutdown
    BY <1>4, <2>1, <2>2, UserRevives
  <2> QED BY <2>1, <2>2
<1> QED BY <1>1, <1>2, <1>3, <1>4 DEF Next, UserNext, Users

\* The only step that starts a line is a dispatch.
LEMMA LineStarts ==
  ASSUME TypeOK, OneWorker, InTheLine, Undisturbed, [Next]_vars,
         work'.at \in LineScripts, holder' = Worker, holder # Worker
  PROVE  work.at = "dispatch" /\ sd.work_timer /\ ~sd.must_pause_work
<1>a. LockType /\ Worker # Nobody /\ Worker \notin Users
  BY PrintJobAssumption DEF TypeOK, Procs
<1>1. WorkDispatch
  <2>1. CASE Grant
    <3>1. Len(waiting) \in Nat \ {0} /\ Head(waiting) = waiting[1] /\ holder' = Head(waiting)
          /\ work' = work
      BY <1>a, <2>1 DEF Grant, LockType
    <3>2. 1 \in 1..Len(waiting)
      BY <3>1
    <3>3. work.at \in LaterScripts
      BY <3>1, <3>2 DEF InTheLine
    <3> QED BY <3>1, <3>3 DEF LineScripts, LaterScripts
  <2>2. CASE WorkerNext
    <3>1. "restoreVelocity" \notin LineScripts /\ "flush" \notin LineScripts
          /\ LineScripts \cap LaterScripts = {}
      BY DEF LineScripts, LaterScripts
    <3> QED BY <1>a, <2>2, <3>1, WorkerLocks
  <2>3. ASSUME NEW u \in Users, NEW k, Issue(u, k) \/ Sense(u) \/ UserStep(u)
        PROVE  FALSE
    BY <1>a, <2>3, UserActs
  <2>4. CASE Shutdown \/ UNCHANGED vars
    BY <2>4 DEF Shutdown, lockVars, vars
  <2> QED BY <2>1, <2>2, <2>3, <2>4 DEF Next, UserNext, Users
<1> QED BY <1>1 DEF WorkDispatch, Undisturbed, OneWorker

\* Where the worker stands with the mutex, and what it knows of a shutdown.
HeardInv == ReportInv /\ InTheLine /\ Undisturbed /\ ShutdownHeard

THEOREM PrintJobHeard == Spec => []HeardInv
<1>1. Init => InTheLine /\ Undisturbed /\ ShutdownHeard
  <2> SUFFICES ASSUME Init PROVE InTheLine /\ Undisturbed /\ ShutdownHeard
    OBVIOUS
  <2>1. waiting = <<>> /\ holder = Nobody /\ work.at = "off" /\ ~is_shutdown
    BY DEF Init
  <2>2. Worker # Nobody
    BY PrintJobAssumption DEF Procs
  <2> QED BY <2>1, <2>2 DEF InTheLine, Undisturbed, ShutdownHeard
<1>2. HeardInv /\ [Next]_vars => InTheLine' /\ Undisturbed' /\ ShutdownHeard'
  BY InTheLineStep, UndisturbedStep, ShutdownHeardStep DEF HeardInv, ReportInv, PositionInv
<1> DEFINE Heard == InTheLine /\ Undisturbed /\ ShutdownHeard
<1>3. Init => Heard
  BY <1>1
<1>4. HeardInv <=> ReportInv /\ Heard
  BY DEF HeardInv
<1>5. ReportInv /\ Heard /\ [Next]_vars => Heard'
  BY <1>2, <1>4
<1> HIDE DEF Heard
<1> QED BY <1>3, <1>4, <1>5, PrintJobReport, PTL DEF Spec

\* Once the printer is shut down the worker starts no line of the file, for any
\* files, clients and sensors (the test of must_pause_work at the head of
\* work_handler's loop, and the shutdown handler of virtual_sdcard.py), unless a
\* RESUME that the shutdown found in its move has started it again (do_resume of
\* virtual_sdcard.py does not ask for the printer's state).
NoLineAfterShutdown ==
  [][is_shutdown /\ ~hist.revived /\ work.at' \in LineScripts
     => ~(holder' = Worker /\ holder # Worker)]_vars

THEOREM PrintJobNoLineAfterShutdown == Spec => NoLineAfterShutdown
<1>1. HeardInv /\ [Next]_vars =>
        [is_shutdown /\ ~hist.revived /\ work.at' \in LineScripts
           => ~(holder' = Worker /\ holder # Worker)]_vars
  BY LineStarts DEF HeardInv, ReportInv, PositionInv, ShutdownHeard
<1> QED BY <1>1, PrintJobHeard, PTL DEF Spec, NoLineAfterShutdown

\* No file that may be printed changes the tool.
NoToolChanges == \A f \in Files : \A i \in 1..Len(f) : f[i] \notin Tools

\* Without tool changes no line has a second script.
OneScriptALine ==
  /\ ~sd.after_channel_g1
  /\ work.at \notin {"hijackXY", "hijackZ", "finishMoves", "toolWait", "restoreVelocity"}

LEMMA OneScriptInit == Init => OneScriptALine
<1> SUFFICES ASSUME Init PROVE OneScriptALine
  OBVIOUS
<1>1. work.at = "off"
  BY DEF Init
<1>2. sd.after_channel_g1 \in {FALSE}
  BY DEF Init
<1> QED BY <1>1, <1>2 DEF OneScriptALine

\* The line that is dispatched is a line of the file.
LEMMA LineOfFile ==
  ASSUME TypeOK, PositionInStep, Within, work.at \in InLine
  PROVE  sd.file \in Files /\ sd.next_file_position \in 1..Len(sd.file)
<1>1. /\ sd.file \in Files /\ sd.next_file_position = hist.dealt + 1
      /\ hist.dealt \in Nat /\ work.lines \in Nat /\ Len(sd.file) \in Nat
      /\ sd.next_file_position + work.lines <= Len(sd.file)
  BY LineTypes DEF TypeOK, SdType, WorkType, HistType, PositionInStep, Within
<1> QED BY <1>1

LEMMA OneScriptStep ==
  ASSUME NoToolChanges, TypeOK, OneWorker, PositionInStep, Within, OneScriptALine, [Next]_vars
  PROVE  OneScriptALine'
<1>a. SdType /\ WorkType
  BY DEF TypeOK
<1> USE DEF OneScriptALine, SdType, WorkType
<1>1. CASE Grant \/ UNCHANGED vars
  BY <1>1 DEF Grant, vars
<1>2. CASE Shutdown
  BY <1>a, <1>2 DEF Shutdown, AskToStop
<1>3. CASE WorkerNext
  <2>1. CASE WorkDispatch
    <3>1. Line \notin Tools
      BY <2>1, LineOfFile DEF WorkDispatch, InLine, Line, NoToolChanges
    <3>2. ScriptOf \in {"move", "replacedScript", "script"}
      BY <3>1 DEF ScriptOf, Hijacked
    <3> QED BY <1>a, <2>1, <3>2 DEF WorkDispatch, Goes
  <2>2. CASE WorkStart \/ WorkAskedToStop \/ WorkRead \/ WorkReadFails \/ WorkEndOfFile
    BY <1>a, <2>2 DEF WorkStart, WorkAskedToStop, WorkRead, WorkReadFails, WorkEndOfFile, AtTop,
       Goes
  <2>3. CASE WorkComment \/ WorkBusy \/ WorkTakeLine \/ WorkDefer
    BY <1>a, <2>3 DEF WorkComment, WorkBusy, WorkTakeLine, WorkDefer, AtTop
  <2>4. CASE WorkRemember \/ WorkSameTool \/ WorkReplacedEnds
    BY <1>a, <2>4 DEF WorkRemember, WorkSameTool, WorkReplacedEnds, Continue, Goes
  <2>5. CASE WorkPausesInScript \/ WorkBatchYield \/ WorkLineDone
    BY <1>a, <2>5 DEF WorkPausesInScript, WorkBatchYield, WorkLineDone, Goes
  <2>6. CASE WorkScriptEnds
    BY <1>a, <2>6 DEF WorkScriptEnds, PauseFromFile
  <2>7. CASE WorkScriptFails \/ WorkScriptCrashes \/ WorkOnError
    BY <1>a, <2>7 DEF WorkScriptFails, WorkScriptCrashes, WorkOnError, Goes
  <2>8. CASE WorkHijackXY \/ WorkHijackZ \/ WorkMovesFinished \/ WorkToolChanged
    BY <2>8 DEF WorkHijackXY, WorkHijackZ, WorkMovesFinished, WorkToolChanged, InScript
  <2>9. CASE WorkVelocityRestored \/ WorkDies
    BY <1>a, <2>9 DEF WorkVelocityRestored, WorkDies, InScript, Goes
  <2>10. CASE WorkLeave \/ WorkLeaveFlush \/ WorkFlushed
    BY <1>a, <2>10 DEF WorkLeave, WorkLeaveFlush, WorkFlushed, Leave, Goes
  <2> QED
    BY <1>3, <2>1, <2>2, <2>3, <2>4, <2>5, <2>6, <2>7, <2>8, <2>9, <2>10 DEF WorkerNext
<1>4. ASSUME NEW u \in Users, NEW k, Issue(u, k) \/ Sense(u) \/ UserStep(u)
      PROVE  OneScriptALine'
  <2>1. work' = work \/ work'.at \in {"off", "armed"}
    BY <1>4, UserActs
  <2>2. sd'.after_channel_g1 => sd.after_channel_g1
    <3>1. CASE \/ Issue(u, k) \/ SenseDelayOver(u) \/ SensePaused(u) \/ AwaitWorker(u)
               \/ RunRefused(u) \/ PauseDone(u) \/ M25Done(u) \/ ResumeFails(u)
               \/ RunClearPause(u) \/ RunResume(u)
      BY <3>1 DEF Issue, SenseDelayOver, SensePaused, AwaitWorker, RunRefused, PauseDone, M25Done,
         ResumeFails, RunClearPause, RunResume
    <3>2. CASE Sense(u) \/ RunPause(u) \/ RunM25(u) \/ RunCancel(u) \/ RunReset(u)
      BY <1>a, <3>2 DEF Sense, RunPause, RunM25, RunCancel, RunReset, SendPause, AskToStop
    <3>3. CASE ResumeDone(u) \/ RunM24(u)
      BY <1>a, <3>3 DEF ResumeDone, RunM24, DoResume
    <3>4. CASE \/ RunCancelNothing(u) \/ CancelDone(u) \/ RunResetNothing(u) \/ ResetDone(u)
               \/ RunM26(u) \/ RunToolReport(u) \/ RunSetChannel(u) \/ RunSetPauseState(u)
      BY <1>a, <3>4 DEF RunCancelNothing, CancelDone, RunResetNothing, ResetDone, RunM26,
         RunToolReport, RunSetChannel, RunSetPauseState
    <3>5. CASE RunSelect(u) \/ RunPrintFile(u)
      BY <1>a, <3>5 DEF RunSelect, RunPrintFile, Loaded
    <3> QED BY <1>4, <3>1, <3>2, <3>3, <3>4, <3>5 DEF UserStep
  <2> QED BY <2>1, <2>2
<1> QED BY <1>1, <1>2, <1>3, <1>4 DEF Next, UserNext, Users

\* Without tool changes, a printer that is shut down starts no script of the
\* file at all, with the same exception.  (After a tool change the Z part of a
\* move that was under way may still follow its X/Y part.)
THEOREM PrintJobShutdownIsFinal == ASSUME NoToolChanges PROVE Spec => ShutdownIsFinal
<1>1. Init => OneScriptALine
  BY OneScriptInit
<1>2. HeardInv /\ OneScriptALine /\ [Next]_vars => OneScriptALine'
  BY OneScriptStep DEF HeardInv, ReportInv, PositionInv
<1>3. HeardInv /\ OneScriptALine' /\ [Next]_vars =>
        [is_shutdown /\ ~hist.revived /\ work.at' \in FileScripts
           => ~(holder' = Worker /\ holder # Worker)]_vars
  <2> SUFFICES ASSUME HeardInv, OneScriptALine', [Next]_vars, is_shutdown,
                      ~hist.revived, work.at' \in FileScripts, holder' = Worker, holder # Worker
               PROVE  FALSE
    OBVIOUS
  <2>1. work'.at \in LineScripts
    BY DEF OneScriptALine, FileScripts, LineScripts
  <2> QED BY <2>1, LineStarts DEF HeardInv, ReportInv, PositionInv, ShutdownHeard
<1> QED BY <1>1, <1>2, <1>3, PrintJobHeard, PTL DEF Spec, ShutdownIsFinal

-----------------------------------------------------------------------------
(* Once a command that stops the print has returned.                        *)

\* Without filament sensors: a worker that is there after the print was stopped,
\* or while somebody waits to stop it, has been asked to stop; a pause that was
\* sent is one the printer counts, except after a shutdown.
Stopped ==
  /\ hist.stopped /\ sd.work_timer => sd.must_pause_work
  /\ \A u \in Users :
       /\ upc[u] \in {"pausing", "closing"} /\ sd.work_timer => sd.must_pause_work
       /\ upc[u] = "gcodeState" => cmd[u] = "RESUME"
       /\ upc[u] \notin {"sensed", "delay"}
  /\ pr.pause_command_sent => pr.is_paused \/ is_shutdown

\* The worker withdraws no request to stop, and a pause from the file counts.
LEMMA WorkerStopped ==
  ASSUME TypeOK, OneWorker, FileStaysOpen, Stopped, WorkerNext
  PROVE  Stopped'
<1>a. /\ SdType /\ WorkType /\ HistType /\ PauseType
      /\ hist.stopped /\ sd.work_timer => sd.must_pause_work
      /\ pr.pause_command_sent => pr.is_paused \/ is_shutdown
  BY DEF TypeOK, Stopped
<1>1. /\ sd'.work_timer => sd.work_timer
      /\ sd.must_pause_work => sd'.must_pause_work
      /\ UNCHANGED userVars
  BY WorkerKeepsFile, WorkerFrame
<1>2. hist'.stopped = hist.stopped
  <2>1. hist' = hist \/ \E n : Dealt(n)
    BY DEF WorkerNext, WorkStart, WorkAskedToStop, WorkRead, WorkReadFails,
         WorkEndOfFile, WorkComment, WorkBusy, WorkTakeLine, WorkDispatch, WorkDefer, WorkRemember,
         WorkSameTool, WorkPausesInScript, WorkScriptEnds, WorkScriptFails, WorkOnError,
         WorkBatchYield, WorkLineDone, WorkReplacedEnds, WorkHijackXY, WorkHijackZ,
         WorkMovesFinished, WorkToolChanged, WorkVelocityRestored, WorkLeaveFlush, Continue,
         WorkDies, WorkScriptCrashes, WorkLeave, WorkFlushed, Leave
  <2> QED BY <1>a, <2>1 DEF Dealt, HistType
<1>3. /\ is_shutdown => is_shutdown'
      /\ pr' = pr \/ pr'.is_paused
  <2>1. CASE WorkDies \/ WorkScriptCrashes
    BY <2>1 DEF WorkDies, WorkScriptCrashes
  <2>2. CASE WorkScriptEnds
    BY <2>2 DEF WorkScriptEnds, PauseFromFile
  <2>3. CASE WorkLeave \/ WorkFlushed
    BY <2>3 DEF WorkLeave, WorkFlushed, Leave
  <2>4. CASE ~(WorkDies \/ WorkScriptCrashes \/ WorkScriptEnds \/ WorkLeave \/ WorkFlushed)
    BY <2>4 DEF WorkerNext, WorkStart, WorkAskedToStop, WorkRead, WorkReadFails,
         WorkEndOfFile, WorkComment, WorkBusy, WorkTakeLine, WorkDispatch, WorkDefer, WorkRemember,
         WorkSameTool, WorkPausesInScript, WorkScriptFails, WorkOnError,
         WorkBatchYield, WorkLineDone, WorkReplacedEnds, WorkHijackXY, WorkHijackZ,
         WorkMovesFinished, WorkToolChanged, WorkVelocityRestored, WorkLeaveFlush, Continue
  <2> QED BY <2>1, <2>2, <2>3, <2>4
<1> QED BY <1>a, <1>1, <1>2, <1>3 DEF Stopped, userVars

\* A client that starts the worker holds the mutex, so nobody waits to stop it.
LEMMA UserStopped ==
  ASSUME Sensors = {}, TypeOK, OneWorker, UsersHold, Stopped, NEW u \in Users, NEW k,
         Issue(u, k) \/ Sense(u) \/ UserStep(u)
  PROVE  Stopped'
<1>a. /\ SdType /\ WorkType /\ HistType /\ PauseType /\ UserType
      /\ hist.stopped /\ sd.work_timer => sd.must_pause_work
      /\ pr.pause_command_sent => pr.is_paused \/ is_shutdown
      /\ \A v \in Users :
           /\ upc[v] \in {"pausing", "closing"} /\ sd.work_timer => sd.must_pause_work
           /\ upc[v] = "gcodeState" => cmd[v] = "RESUME"
           /\ upc[v] \notin {"sensed", "delay"}
  BY DEF TypeOK, Stopped
<1>b. \A v \in Users \ {u} : upc'[v] = upc[v] /\ cmd'[v] = cmd[v]
  BY UserFrame
<1>c. is_shutdown' = is_shutdown
  BY UserActs
\* What is to be shown of the one that acts.
<1> DEFINE Acts == /\ upc'[u] \in {"pausing", "closing"} /\ sd'.work_timer => sd'.must_pause_work
                   /\ upc'[u] = "gcodeState" => cmd'[u] = "RESUME"
                   /\ upc'[u] \notin {"sensed", "delay"}
           Sent == pr'.pause_command_sent => pr'.is_paused \/ is_shutdown
           Keeps == /\ sd'.work_timer = sd.work_timer
                    /\ sd.must_pause_work => sd'.must_pause_work
           Free == \A v \in Users \ {u} : upc[v] \notin {"pausing", "closing"}
<1>1. ASSUME Acts, Sent, Keeps, hist'.stopped /\ sd.work_timer => sd'.must_pause_work
      PROVE  Stopped'
  BY <1>a, <1>b, <1>c, <1>1 DEF Stopped
<1>2. ASSUME Acts, Sent, Free, hist'.stopped /\ sd'.work_timer => sd'.must_pause_work
      PROVE  Stopped'
  BY <1>a, <1>b, <1>c, <1>2 DEF Stopped
<1>3. ASSUME upc[u] = "body", cpu = u
      PROVE  Free
  BY <1>3 DEF UsersHold
<1> USE DEF SdType, HistType, PauseType, UserType
<1>4. CASE Issue(u, k) \/ RunRefused(u) \/ RunResume(u) \/ ResumeFails(u) \/ AwaitWorker(u)
  <2>1. UNCHANGED <<sd, pr, hist>>
    BY <1>4 DEF Issue, RunRefused, RunResume, ResumeFails, AwaitWorker
  <2>2. Acts
    BY <1>a, <1>4, <2>1 DEF Issue, RunRefused, RunResume, ResumeFails, AwaitWorker, Starts, Runs,
       Return, UserGoes, userVars
  <2> HIDE DEF Acts
  <2> QED BY <1>a, <1>1, <2>1, <2>2
<1>5. CASE SensePaused(u) \/ SenseDelayOver(u) \/ Sense(u)
  BY <1>a, <1>5 DEF SensePaused, SenseDelayOver, Sense
<1>6. CASE RunPause(u) \/ RunM25(u) \/ RunCancel(u) \/ RunReset(u)
  <2>1. Keeps /\ UNCHANGED <<hist, cmd>> /\ (sd'.work_timer => sd'.must_pause_work)
    BY <1>a, <1>6 DEF RunPause, RunM25, RunCancel, RunReset, SendPause, AskToStop, Proceed, Starts,
       Runs, Refused
  <2>2. pr'.pause_command_sent = pr.pause_command_sent /\ pr'.is_paused = pr.is_paused
    BY <1>a, <1>6 DEF RunPause, RunM25, RunCancel, RunReset, SendPause
  <2>3. upc'[u] \in {"pausing", "closing"}
    BY <1>a, <1>6 DEF RunPause, RunM25, RunCancel, RunReset, Proceed, UserGoes, Starts, Runs, Refused
  <2> QED BY <1>a, <1>1, <2>1, <2>2, <2>3
<1>7. CASE PauseDone(u) \/ M25Done(u) \/ CancelDone(u) \/ ResetDone(u)
  <2>1. upc[u] \in {"pausing", "closing"}
    BY <1>a, <1>7 DEF PauseDone, M25Done, CancelDone, ResetDone, Continues
  <2>2. Keeps /\ (sd.work_timer => sd'.must_pause_work)
    BY <1>a, <1>7, <2>1 DEF PauseDone, M25Done, CancelDone, ResetDone
  <2>3. Sent
    BY <1>a, <1>7 DEF PauseDone, M25Done, CancelDone, ResetDone, ClearPause
  <2>4. upc'[u] = "idle"
    BY <1>a, <1>7 DEF PauseDone, M25Done, CancelDone, ResetDone, Return, UserGoes
  <2> QED BY <1>1, <2>2, <2>3, <2>4
<1>8. CASE \/ RunClearPause(u) \/ RunCancelNothing(u) \/ RunResetNothing(u) \/ RunM26(u)
           \/ RunToolReport(u) \/ RunSetChannel(u) \/ RunSetPauseState(u)
  <2>1. Keeps /\ hist'.stopped = hist.stopped
    BY <1>a, <1>8 DEF RunClearPause, RunCancelNothing, RunResetNothing, RunM26,
       RunToolReport, RunSetChannel, RunSetPauseState
  <2>2. Sent
    BY <1>a, <1>8 DEF RunClearPause, RunCancelNothing, RunResetNothing, RunM26,
       RunToolReport, RunSetChannel, RunSetPauseState,
       ClearPause
  <2>3. upc'[u] = "idle"
    BY <1>a, <1>8 DEF RunClearPause, RunCancelNothing, RunResetNothing, RunM26,
       RunToolReport, RunSetChannel, RunSetPauseState,
       Return, UserGoes
  <2> QED BY <1>a, <1>1, <2>1, <2>2, <2>3
<1>9. CASE \/ RunSelect(u) \/ RunPrintFile(u) \/ RunM24(u)
  <2>1. Free /\ ~sd.work_timer
    BY <1>3, <1>9 DEF RunSelect, RunPrintFile, RunM24, Starts, Runs, Refused
  <2>2. UNCHANGED pr
    BY <1>9 DEF RunSelect, RunPrintFile, RunM24
  <2>3. upc'[u] = "idle"
    BY <1>a, <1>9 DEF RunSelect, RunPrintFile, RunM24, Return, UserGoes
  <2>4. hist'.stopped => ~sd'.work_timer
    <3>1. CASE RunSelect(u)
      BY <1>a, <2>1, <3>1 DEF RunSelect, Loaded
    <3>2. CASE RunPrintFile(u)
      <4>1. PICK f \in Files, opened \in {TRUE, ~MayFail} :
              /\ sd' = [Loaded(f, opened) EXCEPT !.work_timer = opened,
                                                 !.must_pause_work = @ /\ ~opened]
              /\ hist' = [hist EXCEPT !.dealt = 0, !.in_order = TRUE,
                                      !.stopped = @ /\ ~opened]
        BY <3>2 DEF RunPrintFile
      <4>2. hist'.stopped = (hist.stopped /\ ~opened) /\ sd'.work_timer = opened
        BY <1>a, <4>1 DEF Loaded
      <4> QED BY <4>2
    <3>3. CASE RunM24(u)
      BY <1>a, <3>3 DEF RunM24, DoResume
    <3> QED BY <1>9, <3>1, <3>2, <3>3
  <2> QED BY <1>a, <1>2, <2>1, <2>2, <2>3, <2>4
<1>10. CASE ResumeDone(u)
  <2>1. Free
    BY <1>a, <1>10 DEF ResumeDone, Continues, UsersHold
  <2>2. upc'[u] = "idle" /\ ~pr'.pause_command_sent
    BY <1>a, <1>10 DEF ResumeDone, Return, UserGoes
  <2>3. hist'.stopped /\ sd'.work_timer => sd'.must_pause_work
    BY <1>a, <1>10 DEF ResumeDone, DoResume
  <2> QED BY <1>2, <2>1, <2>2, <2>3
<1> QED BY <1>4, <1>5, <1>6, <1>7, <1>8, <1>9, <1>10 DEF UserStep

LEMMA StoppedStep ==
  ASSUME Sensors = {}, TypeOK, OneWorker, UsersHold, FileStaysOpen, Stopped, [Next]_vars
  PROVE  Stopped'
<1>1. CASE Grant \/ UNCHANGED vars
  BY <1>1 DEF Grant, Stopped, vars, userVars
<1>2. CASE Shutdown
  BY <1>2 DEF Shutdown, AskToStop, TypeOK, SdType, Stopped, userVars
<1>3. CASE WorkerNext
  BY <1>3, WorkerStopped
<1>4. ASSUME NEW u \in Users, NEW k, Issue(u, k) \/ Sense(u) \/ UserStep(u)
      PROVE  Stopped'
  BY <1>4, UserStopped
<1> QED BY <1>1, <1>2, <1>3, <1>4 DEF Next, UserNext, Users

\* Where a stop holds, with what it rests on.
StopInv == HeardInv /\ Stopped

\* Once PAUSE, M25 or CANCEL_PRINT has returned, the worker starts no line of
\* the file until the print is resumed or another one is started.
NoLineAfterStop ==
  [][hist.stopped /\ hist.stopped' /\ work.at' \in LineScripts
     => ~(holder' = Worker /\ holder # Worker)]_vars

THEOREM PrintJobStops == ASSUME Sensors = {} PROVE Spec => []StopInv
<1>1. Init => Stopped
  BY DEF Init, Stopped
<1>2. HeardInv /\ Stopped /\ [Next]_vars => Stopped'
  BY StoppedStep DEF HeardInv, ReportInv, PositionInv
<1> QED BY <1>1, <1>2, PrintJobHeard, PTL DEF Spec, StopInv

\* For any clients and files, without filament sensors: a stopped print starts
\* no line (do_pause and the head of work_handler's loop).
THEOREM PrintJobNoLineAfterStop == ASSUME Sensors = {} PROVE Spec => NoLineAfterStop
<1>1. StopInv /\ [Next]_vars =>
        [hist.stopped /\ hist.stopped' /\ work.at' \in LineScripts
           => ~(holder' = Worker /\ holder # Worker)]_vars
  BY LineStarts DEF StopInv, HeardInv, ReportInv, PositionInv, Stopped
<1> QED BY <1>1, PrintJobStops, PTL DEF Spec, NoLineAfterStop

\* Without tool changes either, a stopped print starts no script of the file at
\* all.
THEOREM PrintJobStopIsFinal == ASSUME Sensors = {}, NoToolChanges PROVE Spec => StopIsFinal
<1>1. Init => OneScriptALine
  BY OneScriptInit
<1>2. StopInv /\ OneScriptALine /\ [Next]_vars => OneScriptALine'
  BY OneScriptStep DEF StopInv, HeardInv, ReportInv, PositionInv
<1>3. StopInv /\ OneScriptALine' /\ [Next]_vars =>
        [hist.stopped /\ hist.stopped' /\ work.at' \in FileScripts
           => ~(holder' = Worker /\ holder # Worker)]_vars
  <2> SUFFICES ASSUME StopInv, OneScriptALine', [Next]_vars, hist.stopped,
                      work.at' \in FileScripts, holder' = Worker, holder # Worker
               PROVE  FALSE
    OBVIOUS
  <2>1. work'.at \in LineScripts
    BY DEF OneScriptALine, FileScripts, LineScripts
  <2> QED BY <2>1, LineStarts DEF StopInv, HeardInv, ReportInv, PositionInv, Stopped
<1> QED BY <1>1, <1>2, <1>3, PrintJobStops, PTL DEF Spec, StopIsFinal

-----------------------------------------------------------------------------
(* The tool that is loaded.                                                 *)

\* ToolAt for a file and a tool that is loaded.
ToolOf(file, loaded, n) ==
  LET changes == {i \in 1..(n - 1) : file[i] \in Tools}
  IN  IF changes = {} THEN loaded
      ELSE file[CHOOSE i \in changes : \A j \in changes : j <= i]

\* At the first line it is the tool that is loaded; after a tool change it is
\* that tool; after any other line it is what it was.
LEMMA ToolFirst == ASSUME NEW file, NEW loaded PROVE ToolOf(file, loaded, 1) = loaded
<1>1. {i \in 1..(1 - 1) : file[i] \in Tools} = {}
  OBVIOUS
<1> QED BY <1>1 DEF ToolOf

LEMMA ToolAfterChange ==
  ASSUME NEW file, NEW loaded, NEW n \in Nat \ {0}, file[n] \in Tools
  PROVE  ToolOf(file, loaded, n + 1) = file[n]
<1> DEFINE changes == {i \in 1..((n + 1) - 1) : file[i] \in Tools}
<1>1. n \in changes /\ \A j \in changes : j <= n /\ j \in Int
  OBVIOUS
<1>2. \A i \in changes : (\A j \in changes : j <= i) => i = n
  BY <1>1
<1>3. (CHOOSE i \in changes : \A j \in changes : j <= i) = n
  <2> HIDE DEF changes
  <2> QED BY <1>1, <1>2
<1> QED BY <1>1, <1>3 DEF ToolOf

LEMMA ToolAfterOther ==
  ASSUME NEW file, NEW loaded, NEW n \in Nat \ {0}, file[n] \notin Tools
  PROVE  ToolOf(file, loaded, n + 1) = ToolOf(file, loaded, n)
<1> DEFINE changes(m) == {i \in 1..(m - 1) : file[i] \in Tools}
           last(S) == IF S = {} THEN loaded ELSE file[CHOOSE i \in S : \A j \in S : j <= i]
<1>1. changes(n + 1) = changes(n)
  OBVIOUS
<1>2. \A m : ToolOf(file, loaded, m) = last(changes(m))
  BY DEF ToolOf
<1> HIDE DEF changes, last
<1> QED BY <1>1, <1>2

Expected(n) == ToolOf(sd.file, sd.load_channel, n)

\* Where the worker is with the line of a tool change, and with another.
ChangePlaces == {"finishMoves", "toolWait", "restoreVelocity"}
PlainPlaces == {"move", "script", "replacedScript", "hijackXY", "hijackZ"}

\* The screen has reported the new tool, and the worker has yet to record it.
Unrecorded == ~sd.change_filament /\ work.at \in {"toolWait", "restoreVelocity"}

\* As long as the screen keeps to its part, the tool on record is the one the file
\* asks for at the position and at the line at hand, and the one in the head, but
\* for a tool that has been reported and not yet recorded.
ToolKnown ==
  /\ sd.current_file /\ work.at # "lineDone" =>
       sd.load_channel = Expected(sd.file_position + 1)
  /\ work.at \in InLine => sd.load_channel = Expected(sd.next_file_position)
  /\ work.at = "lineDone" => sd.load_channel = Expected(sd.next_file_position + 1)
  /\ work.at \in ChangePlaces => sd.print_channel = Line
  /\ work.at # "dead" =>
       hist.tool = IF Unrecorded THEN sd.print_channel ELSE sd.load_channel

\* Only the line of a tool change waits for one, and only it may have one under way.
ToolInv ==
  /\ work.at \in PlainPlaces => Line \notin Tools
  /\ work.at \in ChangePlaces => Line \in Tools
  /\ sd.change_filament => work.at = "toolWait"
  /\ hist.sure => ToolKnown

\* A line is dealt with: the tool at the next one is the one on record.
LEMMA ToolOfNext ==
  ASSUME TypeOK, PositionInStep, ToolInv, work.at \in InLine
  PROVE  /\ sd.next_file_position \in Nat \ {0}
         /\ hist.sure /\ (Line \notin Tools \/ Line = sd.load_channel) =>
              sd.load_channel = Expected(sd.next_file_position + 1)
         /\ Line \in Tools => ToolOf(sd.file, Line, sd.next_file_position + 1) = Line
<1>1. sd.next_file_position \in Nat \ {0}
  BY DEF PositionInStep, TypeOK, HistType
<1>2. hist.sure => sd.load_channel = Expected(sd.next_file_position)
  BY DEF ToolInv, ToolKnown
<1>3. CASE Line \notin Tools
  BY <1>1, <1>2, <1>3, ToolAfterOther DEF Line, Expected
<1>4. CASE Line \in Tools
  BY <1>1, <1>4, ToolAfterChange DEF Line, Expected
<1> QED BY <1>1, <1>3, <1>4

LEMMA WorkerTool ==
  ASSUME TypeOK, FileStaysOpen, PositionInStep, ToolInv, WorkerNext
  PROVE  ToolInv'
<1>a. /\ SdType /\ WorkType
      /\ InLoop /\ ~sd.must_pause_work => sd.current_file
      /\ work.at \in PlainPlaces => Line \notin Tools
      /\ work.at \in ChangePlaces => Line \in Tools
      /\ sd.change_filament => work.at = "toolWait"
  BY DEF TypeOK, FileStaysOpen, ToolInv
<1>b. hist.sure =>
        /\ sd.current_file /\ work.at # "lineDone" =>
             sd.load_channel = Expected(sd.file_position + 1)
        /\ work.at \in InLine => sd.load_channel = Expected(sd.next_file_position)
        /\ work.at = "lineDone" => sd.load_channel = Expected(sd.next_file_position + 1)
        /\ work.at \in ChangePlaces => sd.print_channel = Line
        /\ work.at # "dead" =>
             hist.tool = IF Unrecorded THEN sd.print_channel ELSE sd.load_channel
  BY DEF ToolInv, ToolKnown
<1>c. hist'.sure = hist.sure /\ hist'.tool = hist.tool
  BY WorkerNotes
<1> USE DEF SdType, WorkType, ChangePlaces, PlainPlaces
\* The worker goes to the head of its loop with the line dealt with.
<1> DEFINE Passed == /\ work'.at = "top" /\ sd'.file_position = sd.next_file_position
                     /\ sd'.file = sd.file /\ ~sd'.change_filament
                     /\ hist.sure =>
                          /\ sd'.load_channel = hist.tool
                          /\ sd'.load_channel =
                               ToolOf(sd.file, sd'.load_channel, sd.next_file_position + 1)
\* It stays with its line, or leaves.
           Stays == /\ UNCHANGED <<sd.file, sd.load_channel, sd.file_position,
                                   sd.next_file_position>>
                    /\ sd'.current_file => sd.current_file
                    /\ work.at # "lineDone"
           Leaves == /\ work'.at \notin InLine \cup {"lineDone"} /\ ~sd'.change_filament
                     /\ \/ work'.at = "dead"
                        \/ work.at \notin {"dead", "toolWait", "restoreVelocity"}
<1>1. ASSUME Passed PROVE ToolInv'
  BY <1>c, <1>1 DEF ToolInv, ToolKnown, Unrecorded, InLine, Expected
<1>2. ASSUME Stays, Leaves PROVE ToolInv'
  <2>1. work'.at \notin ChangePlaces \cup PlainPlaces /\ ~Unrecorded'
    BY <1>2 DEF InLine, Unrecorded
  <2>2. hist.sure => (work'.at # "dead" => hist.tool = sd.load_channel)
    BY <1>b, <1>2 DEF Unrecorded
  <2> QED BY <1>b, <1>c, <1>2, <2>1, <2>2 DEF ToolInv, ToolKnown, InLine, Expected
<1>3. CASE WorkComment
  <2>1. /\ sd.current_file /\ work.at = "top" /\ sd.file_position \in Nat
        /\ sd.file[sd.file_position + 1] \notin Tools
    BY <1>a, <1>3 DEF WorkComment, AtTop, InLoop, NextLine, Tools
  <2>2. /\ work'.at = "top" /\ sd'.file_position = sd.file_position + 1 /\ sd'.file = sd.file
        /\ sd'.load_channel = sd.load_channel /\ ~sd'.change_filament
    BY <1>a, <1>3, <2>1 DEF WorkComment
  <2>3. hist.sure => /\ sd.load_channel = ToolOf(sd.file, sd.load_channel, sd.file_position + 1)
                     /\ sd.load_channel = hist.tool
    BY <1>b, <2>1 DEF Expected, Unrecorded
  <2>4. hist.sure => sd.load_channel = ToolOf(sd.file, sd.load_channel, sd.file_position + 1 + 1)
    BY <2>1, <2>3, ToolAfterOther
  <2> QED BY <1>c, <2>2, <2>3, <2>4 DEF ToolInv, ToolKnown, Unrecorded, InLine, Expected
<1>4. CASE WorkTakeLine
  <2>1. sd.current_file /\ work.at = "top"
    BY <1>a, <1>4 DEF WorkTakeLine, AtTop, InLoop
  <2>2. /\ work'.at = "dispatch" /\ sd'.next_file_position = sd.file_position + 1
        /\ UNCHANGED <<sd.file, sd.load_channel, sd.file_position, sd.change_filament>>
    BY <1>a, <1>4, <2>1 DEF WorkTakeLine
  <2> QED BY <1>a, <1>b, <1>c, <2>1, <2>2 DEF ToolInv, ToolKnown, Unrecorded, Expected
<1>5. CASE WorkDispatch
  <2>1. /\ work.at = "dispatch" /\ work'.at = ScriptOf /\ Stays
        /\ sd'.change_filament = sd.change_filament
        /\ sd'.print_channel = IF Line \in Tools THEN Line ELSE sd.print_channel
    BY <1>a, <1>5 DEF WorkDispatch, Goes
  <2>2. \/ work'.at \in {"move", "script", "replacedScript", "hijackXY"} /\ Line \notin Tools
        \/ work'.at = "finishMoves" /\ Line \in Tools
    BY <2>1 DEF ScriptOf, Hijacked, Tools, Moves
  <2>3. Line' = Line
    BY <2>1 DEF Line
  <2> QED BY <1>a, <1>b, <1>c, <2>1, <2>2, <2>3 DEF ToolInv, ToolKnown, Unrecorded, InLine, Expected
<1>6. CASE WorkDefer \/ WorkScriptEnds
  <2>1. /\ Line \notin Tools /\ work.at \in {"dispatch", "move", "script"} /\ work.at \in InLine
        /\ work'.at = "lineDone"
    BY <1>a, <1>6 DEF WorkDefer, WorkScriptEnds, InScript, InLine, Tools
  <2>2. UNCHANGED <<sd.file, sd.load_channel, sd.next_file_position, sd.change_filament>>
    BY <1>a, <1>6 DEF WorkDefer, WorkScriptEnds, PauseFromFile
  <2>3. ~sd.change_filament /\ ~Unrecorded /\ ~Unrecorded'
    BY <1>a, <2>1 DEF Unrecorded
  <2>4. hist.sure => /\ sd.load_channel = hist.tool
                     /\ sd.load_channel = Expected(sd.next_file_position + 1)
    BY <1>b, <2>1, <2>3, ToolOfNext
  <2> QED BY <1>c, <2>1, <2>2, <2>3, <2>4 DEF ToolInv, ToolKnown, InLine, Expected
<1>7. CASE WorkLineDone
  <2>1. Passed
    BY <1>a, <1>b, <1>7 DEF WorkLineDone, Goes, Expected, Unrecorded
  <2> QED BY <1>1, <2>1
<1>8. CASE WorkRemember \/ WorkSameTool \/ WorkReplacedEnds \/ WorkHijackZ
  <2>1. /\ work.at \in {"dispatch", "replacedScript", "hijackZ"} /\ work.at \in InLine
        /\ Line \notin Tools \/ Line = sd.load_channel
    BY <1>a, <1>8 DEF WorkRemember, WorkSameTool, WorkReplacedEnds, WorkHijackZ, InScript, InLine,
       Hijacked, ToolIsLoaded, Tools, Moves
  <2>2. /\ work'.at = "top" /\ sd'.file_position = sd.next_file_position
        /\ sd'.file = sd.file /\ (sd'.change_filament => sd.change_filament)
        /\ sd'.load_channel = sd.load_channel
    BY <1>a, <1>8 DEF WorkRemember, WorkSameTool, WorkReplacedEnds, WorkHijackZ, Continue, Goes
  <2>3. hist.sure => /\ sd.load_channel = hist.tool
                     /\ sd.load_channel = Expected(sd.next_file_position + 1)
    BY <1>b, <2>1, ToolOfNext DEF Unrecorded
  <2>4. Passed
    BY <1>a, <2>1, <2>2, <2>3 DEF Expected
  <2> QED BY <1>1, <2>4
<1>9. CASE WorkVelocityRestored
  <2>1. work.at = "restoreVelocity" /\ Line \in Tools /\ Unrecorded
    BY <1>a, <1>9 DEF WorkVelocityRestored, InScript, Unrecorded
  <2>2. /\ work'.at = "top" /\ sd'.file_position = sd.next_file_position
        /\ sd'.file = sd.file /\ ~sd'.change_filament
        /\ sd'.load_channel = sd.print_channel
    BY <1>a, <1>9, <2>1 DEF WorkVelocityRestored, Continue, Goes
  <2>3. Passed
    BY <1>b, <2>1, <2>2, ToolOfNext DEF InLine
  <2> QED BY <1>1, <2>3
<1>10. CASE WorkHijackXY \/ WorkMovesFinished \/ WorkToolChanged
  <2>1. /\ Stays /\ sd'.print_channel = sd.print_channel
        /\ \/ work.at = "hijackXY" /\ work'.at = "hijackZ" /\ ~sd'.change_filament
           \/ work.at = "finishMoves" /\ work'.at = "toolWait" /\ sd'.change_filament
           \/ /\ work.at = "toolWait" /\ work'.at = "restoreVelocity"
              /\ ~sd.change_filament /\ ~sd'.change_filament
    BY <1>a, <1>10 DEF WorkHijackXY, WorkMovesFinished, WorkToolChanged, InScript, Goes
  <2>2. Line' = Line
    BY <2>1 DEF Line
  <2>3. Unrecorded' = Unrecorded
    BY <2>1 DEF Unrecorded
  <2> QED BY <1>a, <1>b, <1>c, <2>1, <2>2, <2>3 DEF ToolInv, ToolKnown, InLine, Expected
<1>11. CASE WorkBusy \/ WorkPausesInScript \/ WorkBatchYield
  <2>1. UNCHANGED <<sd, work, hist>>
    BY <1>11 DEF WorkBusy, WorkPausesInScript, WorkBatchYield
  <2> QED BY <2>1 DEF ToolInv, ToolKnown, Unrecorded, Expected, Line
<1>12. CASE WorkStart \/ WorkAskedToStop \/ WorkRead \/ WorkReadFails \/ WorkEndOfFile
  <2>1. Stays
    BY <1>a, <1>12 DEF WorkStart, WorkAskedToStop, WorkRead, WorkReadFails, WorkEndOfFile, AtTop
  <2>2. Leaves
    BY <1>a, <1>12 DEF WorkStart, WorkAskedToStop, WorkRead, WorkReadFails, WorkEndOfFile, AtTop,
       Goes, InLine
  <2> QED BY <1>2, <2>1, <2>2
<1>13. CASE WorkScriptFails \/ WorkScriptCrashes \/ WorkOnError \/ WorkDies
  <2>1. Stays
    BY <1>a, <1>13 DEF WorkScriptFails, WorkScriptCrashes, WorkOnError, WorkDies, InScript
  <2>2. Leaves
    BY <1>a, <1>13 DEF WorkScriptFails, WorkScriptCrashes, WorkOnError, WorkDies, InScript,
       Goes, InLine
  <2> QED BY <1>2, <2>1, <2>2
<1>14. CASE WorkLeave \/ WorkLeaveFlush \/ WorkFlushed
  <2>1. Stays /\ Leaves
    BY <1>a, <1>14 DEF WorkLeave, WorkLeaveFlush, WorkFlushed, Leave, Goes, InLine
  <2> QED BY <1>2, <2>1
<1> QED
  BY <1>3, <1>4, <1>5, <1>6, <1>7, <1>8, <1>9, <1>10, <1>11, <1>12, <1>13, <1>14 DEF WorkerNext

LEMMA UserTool ==
  ASSUME TypeOK, OneWorker, ToolInv, NEW u \in Users, NEW k,
         Issue(u, k) \/ Sense(u) \/ UserStep(u)
  PROVE  ToolInv'
<1>a. /\ SdType /\ WorkType /\ HistType /\ (sd.work_timer <=> work.at # "off")
      /\ work.at \in PlainPlaces => Line \notin Tools
      /\ work.at \in ChangePlaces => Line \in Tools
      /\ sd.change_filament => work.at = "toolWait"
  BY DEF TypeOK, OneWorker, ToolInv
<1>b. hist.sure =>
        /\ sd.current_file /\ work.at # "lineDone" =>
             sd.load_channel = Expected(sd.file_position + 1)
        /\ work.at \in InLine => sd.load_channel = Expected(sd.next_file_position)
        /\ work.at = "lineDone" => sd.load_channel = Expected(sd.next_file_position + 1)
        /\ work.at \in ChangePlaces => sd.print_channel = Line
        /\ work.at # "dead" =>
             hist.tool = IF Unrecorded THEN sd.print_channel ELSE sd.load_channel
  BY DEF ToolInv, ToolKnown
<1> USE DEF SdType, WorkType, HistType
\* The worker stays where it is with its line, and the position with the file.
<1> DEFINE Keeps == /\ UNCHANGED work
                    /\ UNCHANGED <<sd.file, sd.load_channel, sd.next_file_position,
                                   sd.print_channel>>
                    /\ \/ ~sd'.current_file
                       \/ UNCHANGED <<sd.current_file, sd.file_position>>
                    /\ sd'.change_filament => sd.change_filament
\* What the history has of the tool stays, unless a tool change has been cut short.
           Notes == hist'.sure => /\ hist.sure /\ UNCHANGED hist.tool
                                  /\ sd'.change_filament = sd.change_filament
\* A worker is armed, or a file is opened for one.
           Begins == /\ work.at = "off" /\ work'.at \in {"off", "armed"} /\ ~sd'.change_filament
                     /\ hist'.sure =>
                          /\ sd'.load_channel = hist'.tool
                          /\ sd'.current_file =>
                               sd'.load_channel =
                                 ToolOf(sd'.file, sd'.load_channel, sd'.file_position + 1)
<1>1. ASSUME Keeps, Notes PROVE ToolInv'
  <2>1. Line' = Line
    BY <1>1 DEF Line
  <2>2. hist'.sure => Unrecorded' = Unrecorded
    BY <1>1 DEF Unrecorded
  <2> QED BY <1>a, <1>b, <1>1, <2>1, <2>2 DEF ToolInv, ToolKnown, Expected
<1>2. ASSUME Begins PROVE ToolInv'
  <2>1. work'.at \notin InLine \cup {"lineDone"} \cup PlainPlaces \cup ChangePlaces
    BY <1>2 DEF InLine, PlainPlaces, ChangePlaces
  <2>2. ~Unrecorded' /\ ~sd'.change_filament
    BY <1>2 DEF Unrecorded
  <2>3. hist'.sure =>
          /\ hist'.tool = sd'.load_channel
          /\ sd'.current_file => sd'.load_channel = Expected(sd.file_position + 1)'
    BY <1>2 DEF Expected
  <2> HIDE DEF Begins, Keeps, Notes
  <2> QED BY <2>1, <2>2, <2>3 DEF ToolInv, ToolKnown
<1>3. CASE \/ Issue(u, k) \/ SenseDelayOver(u) \/ SensePaused(u) \/ AwaitWorker(u)
           \/ RunRefused(u) \/ RunClearPause(u) \/ RunResume(u) \/ ResumeFails(u)
  <2>1. UNCHANGED <<sd, work, hist>>
    BY <1>3 DEF Issue, SenseDelayOver, SensePaused, AwaitWorker, RunRefused, RunClearPause,
       RunResume, ResumeFails
  <2> QED BY <1>1, <2>1
<1>4. CASE PauseDone(u) \/ M25Done(u)
  <2>1. UNCHANGED <<sd, work, hist.sure, hist.tool>>
    BY <1>a, <1>4 DEF PauseDone, M25Done
  <2> QED BY <1>1, <2>1
<1>5. CASE Sense(u) \/ RunPause(u) \/ RunM25(u) \/ RunCancel(u) \/ RunReset(u) \/ RunSetPauseState(u)
  <2>1. Keeps /\ Notes
    BY <1>a, <1>5 DEF Sense, RunPause, RunM25, RunCancel, RunReset, RunSetPauseState, SendPause,
       AskToStop
  <2> QED BY <1>1, <2>1
<1>6. CASE RunCancelNothing(u)
  <2>1. /\ UNCHANGED <<work, hist>>
        /\ sd' = [sd EXCEPT !.file_position = IF CancelsFile THEN 0 ELSE @]
        /\ CancelsFile => ~sd.current_file
    BY <1>6 DEF RunCancelNothing
  <2>2. Keeps /\ Notes
    BY <1>a, <2>1
  <2> QED BY <1>1, <2>2
<1>7. CASE CancelDone(u) \/ RunResetNothing(u) \/ ResetDone(u)
  <2>1. CASE CancelDone(u)
    <3>1. Keeps
      BY <1>a, <2>1 DEF CancelDone
    <3>2. Notes
      BY <1>a, <2>1 DEF CancelDone
    <3> QED BY <1>1, <3>1, <3>2
  <2>2. CASE RunResetNothing(u) \/ ResetDone(u)
    <3>1. Keeps
      BY <1>a, <2>2 DEF RunResetNothing, ResetDone
    <3>2. Notes
      BY <1>a, <2>2 DEF RunResetNothing, ResetDone
    <3> QED BY <1>1, <3>1, <3>2
  <2> QED BY <1>7, <2>1, <2>2
\* At a start the tool on record is the one in the head.
<1>8. ASSUME work.at = "off", hist.sure
      PROVE  sd.load_channel = hist.tool
  BY <1>b, <1>8 DEF Unrecorded
<1>9. CASE ResumeDone(u) \/ RunM24(u)
  <2>1. UNCHANGED <<sd, work, hist>> \/ (DoResume /\ work.at = "off")
    BY <1>a, <1>9 DEF ResumeDone, RunM24, Starts, Runs, Refused
  <2>2. CASE DoResume /\ work.at = "off"
    <3>1. /\ work'.at = "armed" /\ hist'.sure = hist.sure /\ hist'.tool = hist.tool
          /\ UNCHANGED <<sd.file, sd.current_file, sd.file_position, sd.load_channel,
                         sd.change_filament>>
      BY <1>a, <2>2 DEF DoResume, Goes
    <3>2. Begins
      BY <1>a, <1>b, <1>8, <2>2, <3>1 DEF Expected
    <3> QED BY <1>2, <3>2
  <2> QED BY <1>1, <2>1, <2>2
<1>10. CASE RunSelect(u) \/ RunPrintFile(u)
  <2>1. work.at = "off"
    BY <1>a, <1>10 DEF RunSelect, RunPrintFile, Starts, Runs, Refused
  <2>2. work'.at \in {"off", "armed"}
    BY <1>a, <1>10, <2>1 DEF RunSelect, RunPrintFile, Goes
  <2>3. /\ sd'.file_position = 0 /\ ~sd'.change_filament
        /\ sd'.load_channel = sd.load_channel
    <3>1. CASE RunSelect(u)
      BY <1>a, <3>1 DEF RunSelect, Loaded
    <3>2. CASE RunPrintFile(u)
      BY <1>a, <2>1, <3>2 DEF RunPrintFile, Loaded
    <3> QED BY <1>10, <3>1, <3>2
  <2>4. UNCHANGED <<hist.sure, hist.tool>>
    BY <1>a, <1>10 DEF RunSelect, RunPrintFile
  <2>5. Begins
    BY <1>8, <2>1, <2>2, <2>3, <2>4, ToolFirst
  <2> QED BY <1>2, <2>5
<1>11. CASE RunM26(u)
  <2>1. work.at = "off" /\ UNCHANGED work
    BY <1>a, <1>11 DEF RunM26, Starts, Runs, Refused
  <2>2. ~hist'.sure /\ sd'.change_filament = sd.change_filament
    BY <1>a, <1>11 DEF RunM26
  <2>3. Begins
    BY <1>a, <2>1, <2>2
  <2> QED BY <1>2, <2>3
<1>12. CASE RunToolReport(u)
  <2>1. /\ UNCHANGED <<work, sd.file, sd.load_channel, sd.next_file_position, sd.print_channel,
                       sd.current_file, sd.file_position, hist.sure>>
        /\ ~sd'.change_filament
        /\ hist'.tool = IF sd.change_filament THEN sd.print_channel ELSE hist.tool
    BY <1>a, <1>12 DEF RunToolReport
  <2>2. Line' = Line
    BY <2>1 DEF Line
  <2>3. Unrecorded' <=> Unrecorded \/ sd.change_filament
    BY <1>a, <2>1 DEF Unrecorded
  <2> QED BY <1>a, <1>b, <2>1, <2>2, <2>3 DEF ToolInv, ToolKnown, Expected
\* The screen names the tool that is loaded: where it is on record already, or where
\* the file has not begun.
<1>13. CASE RunSetChannel(u)
  <2>1. /\ UNCHANGED <<work, sd.file, sd.current_file, sd.file_position, sd.next_file_position,
                       sd.change_filament>>
        /\ sd'.load_channel = hist.tool /\ hist'.tool = hist.tool
        /\ hist'.sure => /\ ~sd.work_timer
                         /\ hist.sure \/ ~sd.current_file \/ sd.file_position = 0
    BY <1>a, <1>13 DEF RunSetChannel
  <2>2. CASE hist'.sure
    <3>1. work.at = "off"
      BY <1>a, <2>1, <2>2
    <3>2. CASE hist.sure
      BY <1>a, <1>b, <1>8, <2>1, <3>1, <3>2, <1>2 DEF Expected
    <3>3. CASE ~sd.current_file \/ sd.file_position = 0
      BY <1>a, <2>1, <3>1, <3>3, ToolFirst, <1>2
    <3> QED BY <2>1, <2>2, <3>2, <3>3
  <2>3. CASE ~hist'.sure
    <3>1. Line' = Line
      BY <2>1 DEF Line
    <3> QED BY <1>a, <2>1, <2>3, <3>1 DEF ToolInv
  <2> QED BY <2>2, <2>3
<1> QED
  BY <1>3, <1>4, <1>5, <1>6, <1>7, <1>9, <1>10, <1>11, <1>12, <1>13 DEF UserStep

LEMMA ToolStep ==
  ASSUME TypeOK, OneWorker, FileStaysOpen, PositionInStep, ToolInv, [Next]_vars
  PROVE  ToolInv'
<1>1. CASE Grant \/ UNCHANGED vars
  BY <1>1 DEF Grant, ToolInv, ToolKnown, Unrecorded, Expected, Line, vars
<1>2. CASE Shutdown
  BY <1>2 DEF Shutdown, AskToStop, TypeOK, SdType, ToolInv, ToolKnown, Unrecorded, Expected, Line
<1>3. CASE WorkerNext
  BY <1>3, WorkerTool
<1>4. ASSUME NEW u \in Users, NEW k, Issue(u, k) \/ Sense(u) \/ UserStep(u)
      PROVE  ToolInv'
  BY <1>4, UserTool
<1> QED BY <1>1, <1>2, <1>3, <1>4 DEF Next, UserNext, Users

\* No move is made with another tool in the head than the file asks for, nor while a
\* tool change is under way, for any files, clients and sensors, except after a
\* CANCEL_PRINT that has cut a tool change short, an M26 or a SDCARD_SET_CHANNEL in
\* the middle of a print (work_handler on T0 and T1, and what the screen reports).
THEOREM PrintJobRightTool == Spec => []RightTool
<1>1. Init => ToolInv
  <2> SUFFICES ASSUME Init PROVE ToolInv
    OBVIOUS
  <2>1. work.at = "off" /\ hist.tool = "T0" /\ hist.sure
    BY DEF Init
  <2>2. ~sd.current_file /\ ~sd.change_filament /\ sd.load_channel = "T0"
    BY DEF Init
  <2> QED BY <2>1, <2>2 DEF ToolInv, ToolKnown, Unrecorded, InLine, PlainPlaces, ChangePlaces
<1>2. PositionInv /\ ToolInv /\ [Next]_vars => ToolInv'
  BY ToolStep DEF PositionInv
<1>3. ToolInv => RightTool
  <2> SUFFICES ASSUME ToolInv, hist.sure, work.at \in {"move", "hijackXY", "hijackZ"}
               PROVE  /\ hist.tool = ToolAt(sd.next_file_position)
                      /\ ~sd.change_filament
    BY DEF RightTool
  <2>1. hist.tool = sd.load_channel /\ ~sd.change_filament
    BY DEF ToolInv, ToolKnown, Unrecorded
  <2>2. sd.load_channel = Expected(sd.next_file_position)
    BY DEF ToolInv, ToolKnown, InLine
  <2> QED BY <2>1, <2>2 DEF ToolAt, Expected, ToolOf
<1> QED BY <1>1, <1>2, <1>3, PrintJobPosition, PTL DEF Spec
=============================================================================
