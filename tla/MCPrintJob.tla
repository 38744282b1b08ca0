----------------------------- MODULE MCPrintJob -----------------------------
(* Files for the runs of PrintJob.  Each has the lines one question is about,  *)
(* and more lines than one read returns.                                      *)
EXTENDS PrintJob, TLC

PlainFiles == {<<"xy", "comment", "command", "z">>}
PauseFiles == {<<"feed", "pause", "comment", "xy">>}
MixedFiles == {<<"T1", "replaced", "z", "xy", "T0", "xy">>}
FeedFiles == {<<"feed", "comment", "xy">>}

NoSensors == {}

WaitCommands == {"PAUSE", "RESUME", "CANCEL_PRINT", "SDCARD_PRINT_FILE"}
StopCommands == WaitCommands \cup {"M24", "M25"}
ToolCommands == WaitCommands \cup
  {"M24", "SDCARD_CLEAR_REFUELLING", "SDCARD_SET_CHANNEL", "SDCARD_SET_PAUSE_STATE"}
FileCommands == {"PAUSE", "RESUME", "CLEAR_PAUSE", "M23", "M24", "M26",
                 "SDCARD_RESET_FILE", "SDCARD_PRINT_FILE"}
=============================================================================
