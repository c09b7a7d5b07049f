------------------------------ MODULE Connectivity ------------------------------
(***************************************************************************)
(* The I/O side of the program: the PPP task, the Wi-Fi task and the       *)
(* console that tells them what to do, for each build in FeatureSets.  An  *)
(* I/O task of a feature that is disabled has ended before it begins.      *)
(***************************************************************************)
EXTENDS ConsoleTask

CONSTANT MaxTold            \* bound: notifications to both I/O tasks together

ASSUME ConnectivityAssumption == MaxTold \in Nat

connVars == <<pppVars, wifiVars, consoleVars>>

ConnInit ==
    /\ PppInit
    /\ WifiInit
    /\ ConsoleInit
    /\ ppp_pc = "prompt" <=> On("PPP")
    /\ wifi_pc = "prompt" <=> On("WIFI")

PppSide == (PppTaskStep \/ user_ip_lost \/ LinkLost) /\ UNCHANGED <<wifiVars, consoleVars>>

WifiSide == WifiTaskStep /\ UNCHANGED <<pppVars, consoleVars>>

\* A shutdown is on no menu: notify_ppp() and notify_wifi() take it from any caller.
ShutDownIo ==
    /\ \/ On("PPP") /\ TellPpp("SHUTDOWN_IO") /\ UNCHANGED wifiVars
       \/ On("WIFI") /\ TellWifi("SHUTDOWN_IO") /\ UNCHANGED pppVars
    /\ UNCHANGED consoleVars

WithinBound == io_commands' + wifi_commands' <= MaxTold

ConnNext ==
    \/ PppSide
    \/ WifiSide
    \/ ConsoleStep /\ WithinBound
    \/ ShutDownIo /\ WithinBound

ConnSpec == ConnInit /\ [][ConnNext]_connVars

\* After a shutdown the Wi-Fi task loops forever without blocking (wifi_task.c:282), at
\* CY_RTOS_PRIORITY_HIGH (wifi_task.h:66): no thread of a lower priority need run again.
\* Without Wi-Fi in the build its thread is not created.
WifiSpins == On("WIFI") /\ wifi_pc = "ended"

\* The Wi-Fi thread runs; the PPP thread, of low priority, runs as long as the Wi-Fi thread
\* blocks again and again.  The connection managers' calls return (they have timeouts of
\* their own).  Nothing is said of their threads, of the user and of the network.
ConnFairSpec ==
    /\ ConnSpec
    /\ WF_connVars(~WifiSpins /\ PppTaskStep /\ UNCHANGED <<wifiVars, consoleVars>>)
    /\ WF_connVars(WifiSide)

-----------------------------------------------------------------------------
\* connect_to_ppp() and connect_to_wifi_ap(): a start comes to an end, whatever
\* notifications it takes and whatever the network assigns.  A start of PPP may be held up
\* for good by one thing only, a Wi-Fi task that has been shut down (wifi_task.c:282).
StartsEnd ==
    /\ ppp_pc = "prompt" ~> ppp_pc = "idle" \/ WifiSpins
    /\ wifi_pc = "prompt" ~> wifi_pc = "idle"

\* ppp_task.c:151 and wifi_task.c:113, the prompts: a stop from the console, whenever it
\* comes, leads to a task that waits, or has ended, with no connection, or something later
\* has taken its place in the word for notifications before the task has read it.  PPP may
\* besides never get to it, when the Wi-Fi task has been shut down (wifi_task.c:282).
StopIsObeyed ==
    /\ s_notification = "STOP_IO" ~>
           \/ ppp_pc \in {"idle", "ended"} /\ ~s_ppp_connected
           \/ s_notification \in IoNotifications \ {"STOP_IO"}
           \/ WifiSpins
    /\ wifi_notification = "STOP_IO" ~>
           \/ wifi_pc \in {"idle", "ended"} /\ ~s_wifi_connected
           \/ wifi_notification \in IoNotifications \ {"STOP_IO"}

\* Both I/O tasks implement IoLifecycle: neither connects again before it has closed the
\* connection it has, whatever the console, the network and the other task do.
ImplementIoLifecycle == PppIo!IoSpec /\ WifiIo!IoSpec
=============================================================================
