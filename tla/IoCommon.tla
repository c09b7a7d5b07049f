-------------------------------- MODULE IoCommon --------------------------------
(***************************************************************************)
(* common_task.h as the two I/O tasks use it: the notifications they take  *)
(* and the status they show.                                               *)
(***************************************************************************)
EXTENDS Integers

IoNotifications == {"START_IO", "STOP_IO", "RESTART_IO", "SHUTDOWN_IO"}

IoStatuses == {"STARTING", "STARTED", "STOPPING", "STOPPED", "FAILED_TO_START"}

\* A status an I/O task that has not started to run may show: its static one when its
\* feature is disabled (the thread then does nothing for ever), that of the first connection
\* when it is enabled.
FirstStatus(pc) == IF pc = "ended" THEN "STOPPED" ELSE "STARTING"
=============================================================================
