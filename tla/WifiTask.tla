-------------------------------- MODULE WifiTask --------------------------------
(***************************************************************************)
(* wifi_task.c: the thread that joins the Wi-Fi network, and notify_wifi() *)
(* as the console calls it.  The Wi-Fi connection manager is external; it  *)
(* keeps the link by itself and tells the task nothing, so the link is not *)
(* a variable here.                                                        *)
(*                                                                         *)
(* wifi_pc names the place in wifi_task():                                 *)
(*   prompt      the wait at the top of the loop of connect_to_wifi_ap()   *)
(*   connect     cy_wcm_connect_ap()                                       *)
(*   connected   connect_to_wifi_ap() has returned success                 *)
(*   idle        waiting for the next notification                         *)
(*   disconnect  cy_wcm_disconnect_ap() after a notification               *)
(*   ended       cy_wcm_deinit() is done, the thread does nothing for ever *)
(***************************************************************************)
EXTENDS IoCommon

CONSTANTS
    MAX_WIFI_CONN_RETRIES,      \* 120 in the code
    WifiCommands,               \* the notifications the console may send
    MaxWifiCommands             \* bound: console commands in a behaviour

ASSUME WifiAssumption ==
    /\ MAX_WIFI_CONN_RETRIES \in Nat \ {0}
    /\ WifiCommands \subseteq IoNotifications
    /\ MaxWifiCommands \in Nat

VARIABLES
    wifi_pc,
    wifi_retries,           \* conn_retries of connect_to_wifi_ap()
    wifi_value,             \* ulNotifiedValue while it is being handled
    wifi_notification,      \* s_notification of wifi_task.c: the value not yet taken
    s_wifi_connected,
    s_wifi_status,
    s_wifi_ip_addr,         \* "zero" or "set"; s_wifi_dns_addr changes with it
    wifi_commands

wifiVars == <<wifi_pc, wifi_retries, wifi_value, wifi_notification, s_wifi_connected,
              s_wifi_status, s_wifi_ip_addr, wifi_commands>>

-----------------------------------------------------------------------------
(* connect_to_wifi_ap() *)

\* It returns an error: the start has failed.
WifiConnectFails ==
    /\ wifi_pc' = "idle"
    /\ wifi_retries' = 0
    /\ s_wifi_connected' = FALSE
    /\ s_wifi_status' = "FAILED_TO_START"

\* Each turn waits for a notification or WIFI_CONN_RETRY_INTERVAL_MS.  Only a stop counts;
\* any other notification is taken and forgotten.
WifiPrompt ==
    /\ wifi_pc = "prompt"
    /\ wifi_notification' = "none"
    /\ IF wifi_notification = "STOP_IO" THEN WifiConnectFails
       ELSE /\ wifi_pc' = "connect"
            /\ UNCHANGED <<wifi_retries, s_wifi_connected, s_wifi_status>>
    /\ UNCHANGED <<wifi_value, s_wifi_ip_addr, wifi_commands>>

\* (mutant) One turn more than the constant says.
ConnectApOffByOne ==
    /\ wifi_pc = "connect"
    /\ \/ /\ wifi_retries < MAX_WIFI_CONN_RETRIES
          /\ wifi_pc' = "prompt"
          /\ wifi_retries' = wifi_retries + 1
          /\ UNCHANGED <<s_wifi_connected, s_wifi_status, s_wifi_ip_addr>>
       \/ /\ wifi_retries >= MAX_WIFI_CONN_RETRIES
          /\ WifiConnectFails
          /\ UNCHANGED s_wifi_ip_addr
    /\ UNCHANGED <<wifi_value, wifi_notification, wifi_commands>>

\* cy_wcm_connect_ap() returns success, and the address is stored as it is, or an error,
\* and the next turn begins unless this was the last.
ConnectAp ==
    /\ wifi_pc = "connect"
    /\ \/ /\ wifi_pc' = "connected"
          /\ s_wifi_ip_addr' = "set"
          /\ UNCHANGED <<wifi_retries, s_wifi_connected, s_wifi_status>>
       \/ /\ wifi_retries + 1 < MAX_WIFI_CONN_RETRIES
          /\ wifi_pc' = "prompt"
          /\ wifi_retries' = wifi_retries + 1
          /\ UNCHANGED <<s_wifi_connected, s_wifi_status, s_wifi_ip_addr>>
       \/ /\ wifi_retries + 1 >= MAX_WIFI_CONN_RETRIES
          /\ WifiConnectFails
          /\ UNCHANGED s_wifi_ip_addr
    /\ UNCHANGED <<wifi_value, wifi_notification, wifi_commands>>

-----------------------------------------------------------------------------
(* The loop of wifi_task() *)

WifiConnected ==
    /\ wifi_pc = "connected"
    /\ wifi_pc' = "idle"
    /\ wifi_retries' = 0
    /\ s_wifi_connected' = TRUE
    /\ s_wifi_status' = "STARTED"
    /\ UNCHANGED <<wifi_value, wifi_notification, s_wifi_ip_addr, wifi_commands>>

\* After a notification that has been handled: a stop waits for the next one, a shutdown
\* leaves the loop, a start or a restart goes round it.
AfterWifiNotification(value, status) ==
    CASE value = "STOP_IO" -> wifi_pc' = "idle" /\ s_wifi_status' = status
      [] value = "SHUTDOWN_IO" -> wifi_pc' = "ended" /\ s_wifi_status' = status
      [] OTHER -> wifi_pc' = "prompt" /\ s_wifi_status' = "STARTING"

\* The wait, with no timeout.  A start finds Wi-Fi started or starts it; anything else first
\* ends the connection when there is one.
TakeWifiNotification ==
    /\ wifi_pc = "idle"
    /\ wifi_notification # "none"
    /\ wifi_notification' = "none"
    /\ CASE ~s_wifi_connected ->
              AfterWifiNotification(wifi_notification, s_wifi_status) /\ UNCHANGED wifi_value
         [] s_wifi_connected /\ wifi_notification = "START_IO" ->
              UNCHANGED <<wifi_pc, s_wifi_status, wifi_value>>
         [] OTHER ->
              /\ wifi_pc' = "disconnect"
              /\ s_wifi_status' = "STOPPING"
              /\ wifi_value' = wifi_notification
    /\ UNCHANGED <<wifi_retries, s_wifi_connected, s_wifi_ip_addr, wifi_commands>>

\* (mutant) A stop leaves the status shown while Wi-Fi was connected.
DisconnectApKeepsStatus ==
    /\ wifi_pc = "disconnect"
    /\ s_wifi_ip_addr' = "zero"
    /\ AfterWifiNotification(wifi_value, "STARTED")
    /\ s_wifi_connected' = FALSE
    /\ wifi_value' = "none"
    /\ UNCHANGED <<wifi_retries, wifi_notification, wifi_commands>>

\* A disconnection that fails is reported and taken for done.
DisconnectAp ==
    /\ wifi_pc = "disconnect"
    /\ s_wifi_connected' = FALSE
    /\ s_wifi_ip_addr' = "zero"
    /\ AfterWifiNotification(wifi_value, "STOPPED")
    /\ wifi_value' = "none"
    /\ UNCHANGED <<wifi_retries, wifi_notification, wifi_commands>>

WifiTaskStep ==
    \/ WifiPrompt
    \/ ConnectAp
    \/ WifiConnected
    \/ TakeWifiNotification
    \/ DisconnectAp

-----------------------------------------------------------------------------
\* cy_notification_set(): a value not yet taken is overwritten.
notify_wifi(value) == wifi_notification' = value

\* The console sends a command, one of those it may send.
TellWifi(cmd) ==
    /\ wifi_commands < MaxWifiCommands
    /\ wifi_commands' = wifi_commands + 1
    /\ cmd \in WifiCommands
    /\ notify_wifi(cmd)
    /\ UNCHANGED <<wifi_pc, wifi_retries, wifi_value, s_wifi_connected, s_wifi_status,
                   s_wifi_ip_addr>>

\* wifi_task() has set itself up and is about to connect, or it was built without Wi-Fi.
WifiInit ==
    /\ wifi_pc \in {"prompt", "ended"}
    /\ wifi_retries = 0
    /\ wifi_value = "none"
    /\ wifi_notification = "none"
    /\ s_wifi_connected = FALSE
    /\ s_wifi_status = FirstStatus(wifi_pc)
    /\ s_wifi_ip_addr = "zero"
    /\ wifi_commands = 0

WifiNext == WifiTaskStep \/ \E cmd \in WifiCommands : TellWifi(cmd)

WifiSpec == WifiInit /\ [][WifiNext]_wifiVars

-----------------------------------------------------------------------------
\* The type of every variable.
WifiTypeOK ==
    /\ wifi_pc \in {"prompt", "connect", "connected", "idle", "disconnect", "ended"}
    /\ wifi_retries \in 0 .. MAX_WIFI_CONN_RETRIES - 1
    /\ wifi_value \in IoNotifications \cup {"none"}
    /\ wifi_notification \in IoNotifications \cup {"none"}
    /\ s_wifi_connected \in BOOLEAN
    /\ s_wifi_status \in IoStatuses
    /\ s_wifi_ip_addr \in {"zero", "set"}
    /\ wifi_commands \in Nat

\* wifi_task() and the getters the console calls: where the task waits, the address, the
\* flag and the status the menu shows agree, whichever attempts and notifications led there.
WifiAddressMatches ==
    wifi_pc = "idle" =>
        /\ s_wifi_connected <=> s_wifi_ip_addr = "set"
        /\ s_wifi_connected <=> s_wifi_status = "STARTED"

\* The phase of IoLifecycle wifi_task() is in.
WifiPhase ==
    CASE wifi_pc \in {"prompt", "connect", "connected"} -> "starting"
      [] wifi_pc = "idle" -> IF s_wifi_connected THEN "serving" ELSE "resting"
      [] wifi_pc = "disconnect" -> "closing"
      [] OTHER -> "ended"

WifiIo == INSTANCE IoLifecycle WITH phase <- WifiPhase, address <- s_wifi_ip_addr
=============================================================================
