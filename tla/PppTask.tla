-------------------------------- MODULE PppTask --------------------------------
(***************************************************************************)
(* ppp_task.c: the thread that keeps the cellular connection, notify_ppp() *)
(* as the console calls it, and user_ip_lost() as the PPP connection       *)
(* manager calls it.  The connection manager and the link are external.    *)
(*                                                                         *)
(* ppp_pc names the place in ppp_task():                                   *)
(*   prompt      the wait at the top of the loop of connect_to_ppp()       *)
(*   connect     cy_pcm_connect_modem()                                    *)
(*   reject      cy_pcm_disconnect_modem() after an invalid address        *)
(*   connected   connect_to_ppp() has returned success                     *)
(*   idle        waiting for the next notification                         *)
(*   disconnect  cy_pcm_disconnect_modem() after a notification            *)
(*   ended       cy_pcm_deinit() is done, the thread does nothing for ever *)
(***************************************************************************)
EXTENDS IoCommon

CONSTANTS
    MAX_PPP_CONN_RETRIES,       \* 10 in the code
    IoCommands,                 \* the notifications the console may send
    MaxIoCommands,              \* bound: console commands in a behaviour
    MaxLosses                   \* bound: losses of the link

ASSUME PppAssumption ==
    /\ MAX_PPP_CONN_RETRIES \in Nat \ {0}
    /\ IoCommands \subseteq IoNotifications
    /\ MaxIoCommands \in Nat
    /\ MaxLosses \in Nat

VARIABLES
    ppp_pc,
    conn_retries,           \* connect_to_ppp()'s loop counter
    ulNotifiedValue,        \* the notification being handled, "none" when there is none
    s_notification,         \* the value not yet taken
    s_ppp_connected,
    s_ppp_status,
    s_ppp_ip_addr,          \* "zero" or "set"; s_ppp_dns_addr changes with it
    \* the connection manager and the link (external)
    link,                   \* the PPP session is up
    lost_pending,           \* user_ip_lost() is about to be called, or is running
    io_commands, losses

localVars  == <<ppp_pc, conn_retries, ulNotifiedValue>>
sharedVars == <<s_ppp_connected, s_ppp_status, s_ppp_ip_addr>>
extVars    == <<link, lost_pending, io_commands, losses>>

pppVars == <<localVars, s_notification, sharedVars, extVars>>

-----------------------------------------------------------------------------
(* connect_to_ppp() *)

\* It returns an error: the start has failed.
ConnectFails ==
    /\ ppp_pc' = "idle"
    /\ conn_retries' = 0
    /\ s_ppp_connected' = FALSE
    /\ s_ppp_status' = "FAILED_TO_START"

\* (mutant) The turn of an attempt that failed is not counted.
NextTurnUncounted ==
    /\ ppp_pc' = "prompt"
    /\ UNCHANGED <<conn_retries, s_ppp_connected, s_ppp_status>>

\* (mutant) One turn more than the constant says.
NextTurnOffByOne ==
    IF conn_retries < MAX_PPP_CONN_RETRIES
    THEN /\ ppp_pc' = "prompt"
         /\ conn_retries' = conn_retries + 1
         /\ UNCHANGED <<s_ppp_connected, s_ppp_status>>
    ELSE ConnectFails

\* The end of a turn without a connection.
NextTurn ==
    IF conn_retries + 1 < MAX_PPP_CONN_RETRIES
    THEN /\ ppp_pc' = "prompt"
         /\ conn_retries' = conn_retries + 1
         /\ UNCHANGED <<s_ppp_connected, s_ppp_status>>
    ELSE ConnectFails

\* (mutant) The prompt ignores what it takes.
PromptIgnoresStop ==
    /\ ppp_pc = "prompt"
    /\ s_notification' = "none"
    /\ ppp_pc' = "connect"
    /\ UNCHANGED <<conn_retries, s_ppp_connected, s_ppp_status, ulNotifiedValue,
                   s_ppp_ip_addr, extVars>>

\* Each turn waits for a notification or PPP_CONN_RETRY_INTERVAL_MSEC.  Only a stop counts;
\* any other notification is taken and forgotten.
Prompt ==
    /\ ppp_pc = "prompt"
    /\ s_notification' = "none"
    /\ IF s_notification = "STOP_IO" THEN ConnectFails
       ELSE /\ ppp_pc' = "connect"
            /\ UNCHANGED <<conn_retries, s_ppp_connected, s_ppp_status>>
    /\ UNCHANGED <<ulNotifiedValue, s_ppp_ip_addr, extVars>>

\* What the network may assign: an IPv6 address is four words, of which none, some or
\* all are zero.
Addresses == {"v4_zero", "v4", "v6_zero", "v6_with_zero_word", "v6_without", "no_version"}

is_valid_ip(ip_address) == ip_address \in {"v4", "v6_without"}

\* cy_pcm_connect_modem() connects, with any address, or fails.  With a valid address
\* connect_to_ppp() stores it and the DNS servers; an invalid one is given back; when the
\* modem is in use it does not try again.
ConnectModem ==
    /\ ppp_pc = "connect"
    /\ \/ \E ip_address \in Addresses :
             /\ link' = TRUE
             /\ IF is_valid_ip(ip_address)
                THEN /\ ppp_pc' = "connected"
                     /\ s_ppp_ip_addr' = "set"
                     /\ UNCHANGED s_ppp_status
                ELSE /\ ppp_pc' = "reject"
                     /\ s_ppp_status' = "STOPPING"
                     /\ UNCHANGED s_ppp_ip_addr
             /\ UNCHANGED <<conn_retries, s_ppp_connected>>
       \/ (ConnectFails \/ NextTurn) /\ UNCHANGED <<link, s_ppp_ip_addr>>
    /\ UNCHANGED <<ulNotifiedValue, s_notification, lost_pending, io_commands, losses>>

\* cy_pcm_disconnect_modem() may fail and leave the link; s_ppp_status stays as it is.  Its
\* result takes the place of the connection's, so it can also find the modem in use.
RejectAddress ==
    /\ ppp_pc = "reject"
    /\ link' \in {FALSE, link}
    /\ ConnectFails \/ NextTurn
    /\ UNCHANGED <<ulNotifiedValue, s_notification, s_ppp_ip_addr, lost_pending,
                   io_commands, losses>>

-----------------------------------------------------------------------------
(* The loop of ppp_task() *)

Connected ==
    /\ ppp_pc = "connected"
    /\ ppp_pc' = "idle"
    /\ conn_retries' = 0
    /\ s_ppp_connected' = TRUE
    /\ s_ppp_status' = "STARTED"
    /\ UNCHANGED <<ulNotifiedValue, s_notification, s_ppp_ip_addr, extVars>>

\* (mutant) A restart goes round the loop without the disconnection.
TakeNotificationRestartAtOnce ==
    /\ ppp_pc = "idle"
    /\ s_notification # "none"
    /\ s_notification' = "none"
    /\ ppp_pc' = "prompt"
    /\ s_ppp_status' = "STARTING"
    /\ s_ppp_connected' = FALSE
    /\ UNCHANGED <<conn_retries, ulNotifiedValue, s_ppp_ip_addr, extVars>>

\* What follows a notification that has been handled: a stop waits for the next one, a
\* shutdown leaves the loop, a start or a restart goes round it.
AfterNotification(value, status) ==
    CASE value = "STOP_IO" -> ppp_pc' = "idle" /\ s_ppp_status' = status
      [] value = "SHUTDOWN_IO" -> ppp_pc' = "ended" /\ s_ppp_status' = status
      [] OTHER -> ppp_pc' = "prompt" /\ s_ppp_status' = "STARTING"

\* The wait, with no timeout.  A start finds the connection there or starts; anything else
\* ends the connection first when there is one.
TakeNotification ==
    /\ ppp_pc = "idle"
    /\ s_notification # "none"
    /\ s_notification' = "none"
    /\ CASE ~s_ppp_connected ->
              AfterNotification(s_notification, s_ppp_status) /\ UNCHANGED ulNotifiedValue
         [] s_ppp_connected /\ s_notification = "START_IO" ->
              UNCHANGED <<ppp_pc, s_ppp_status, ulNotifiedValue>>
         [] OTHER ->
              /\ ppp_pc' = "disconnect"
              /\ s_ppp_status' = "STOPPING"
              /\ ulNotifiedValue' = s_notification
    /\ UNCHANGED <<conn_retries, s_ppp_connected, s_ppp_ip_addr, extVars>>

\* (mutant) The addresses are not cleared.
DisconnectKeepsAddress ==
    /\ ppp_pc = "disconnect"
    /\ link' \in {FALSE, link}
    /\ s_ppp_connected' = FALSE
    /\ AfterNotification(ulNotifiedValue, "STOPPED")
    /\ ulNotifiedValue' = "none"
    /\ UNCHANGED <<conn_retries, s_notification, s_ppp_ip_addr, lost_pending, io_commands,
                   losses>>

\* A disconnection that fails is reported and taken for done.
Disconnect ==
    /\ ppp_pc = "disconnect"
    /\ link' \in {FALSE, link}
    /\ s_ppp_connected' = FALSE
    /\ s_ppp_ip_addr' = "zero"
    /\ AfterNotification(ulNotifiedValue, "STOPPED")
    /\ ulNotifiedValue' = "none"
    /\ UNCHANGED <<conn_retries, s_notification, lost_pending, io_commands, losses>>

PppTaskStep ==
    \/ Prompt
    \/ ConnectModem
    \/ RejectAddress
    \/ Connected
    \/ TakeNotification
    \/ Disconnect

-----------------------------------------------------------------------------
\* cy_notification_set(): a value not yet taken is overwritten.
notify_ppp(value) == s_notification' = value

\* The console sends a command, one of those it may send.
TellPpp(cmd) ==
    /\ io_commands < MaxIoCommands
    /\ io_commands' = io_commands + 1
    /\ cmd \in IoCommands
    /\ notify_ppp(cmd)
    /\ UNCHANGED <<localVars, sharedVars, link, lost_pending, losses>>

ConsoleNotifies == \E cmd \in IoCommands : TellPpp(cmd)

\* The address is lost; the connection manager will say so from a thread of its own (of two
\* losses before it has, once).
LinkLost ==
    /\ link
    /\ losses < MaxLosses
    /\ losses' = losses + 1
    /\ link' = FALSE
    /\ lost_pending' = TRUE
    /\ UNCHANGED <<localVars, s_notification, sharedVars, io_commands>>

\* (mutant) A loss counts only once the task calls itself connected.
UserIpLostWhenConnected ==
    /\ lost_pending
    /\ lost_pending' = FALSE
    /\ IF s_ppp_connected THEN notify_ppp("RESTART_IO") ELSE UNCHANGED s_notification
    /\ UNCHANGED <<localVars, sharedVars, link, io_commands, losses>>

user_ip_lost ==
    /\ lost_pending
    /\ lost_pending' = FALSE
    /\ notify_ppp("RESTART_IO")
    /\ UNCHANGED <<localVars, sharedVars, link, io_commands, losses>>

\* ppp_task() has set itself up and is about to connect, or it was built without PPP.
PppInit ==
    /\ ppp_pc \in {"prompt", "ended"}
    /\ conn_retries = 0
    /\ ulNotifiedValue = "none"
    /\ s_notification = "none"
    /\ s_ppp_connected = FALSE
    /\ s_ppp_status = FirstStatus(ppp_pc)
    /\ s_ppp_ip_addr = "zero"
    /\ link = FALSE
    /\ lost_pending = FALSE
    /\ io_commands = 0
    /\ losses = 0

PppNext == PppTaskStep \/ user_ip_lost \/ ConsoleNotifies \/ LinkLost

PppSpec == PppInit /\ [][PppNext]_pppVars

\* Without a Wi-Fi task above it the thread runs; the connection manager's calls return (they
\* have timeouts of their own), and it calls user_ip_lost() for a loss.  The console and the
\* network need do nothing.
PppFairSpec == PppSpec /\ WF_pppVars(PppTaskStep) /\ WF_pppVars(user_ip_lost)

-----------------------------------------------------------------------------
\* The type of every variable.
PppTypeOK ==
    /\ ppp_pc \in {"prompt", "connect", "reject", "connected", "idle", "disconnect", "ended"}
    /\ conn_retries \in 0 .. MAX_PPP_CONN_RETRIES - 1
    /\ ulNotifiedValue \in IoNotifications \cup {"none"}
    /\ s_notification \in IoNotifications \cup {"none"}
    /\ s_ppp_connected \in BOOLEAN
    /\ s_ppp_status \in IoStatuses
    /\ s_ppp_ip_addr \in {"zero", "set"}
    /\ link \in BOOLEAN
    /\ lost_pending \in BOOLEAN
    /\ io_commands \in Nat
    /\ losses \in Nat

\* ppp_task() and the getters the console calls: where the task waits, the address, the flag
\* and the status it shows agree, whatever failed, was refused or was given up before.
AddressMatchesConnection ==
    ppp_pc = "idle" =>
        /\ s_ppp_connected <=> s_ppp_ip_addr = "set"
        /\ s_ppp_connected <=> s_ppp_status = "STARTED"

\* user_ip_lost() and notify_ppp(): when the console never sends a start, a task that
\* waits with a lost link has been, or will be, told to do something about it, although
\* there is one word for all notifications and the later one wins.
LossIsNoticed ==
    ppp_pc = "idle" /\ s_ppp_connected /\ ~link =>
        lost_pending \/ s_notification \in {"STOP_IO", "RESTART_IO", "SHUTDOWN_IO"}

\* The phase of IoLifecycle ppp_task() is in.
PppPhase ==
    CASE ppp_pc \in {"prompt", "connect", "reject", "connected"} -> "starting"
      [] ppp_pc = "idle" -> IF s_ppp_connected THEN "serving" ELSE "resting"
      [] ppp_pc = "disconnect" -> "closing"
      [] OTHER -> "ended"

PppIo == INSTANCE IoLifecycle WITH phase <- PppPhase, address <- s_ppp_ip_addr

\* README.md:16: "In case of unexpected disconnection of MQTT, PPP or Wi-Fi connection, the
\* application executes a reconnection mechanism to restore the connection."  The task does
\* not go on for ever as if a lost connection were there.
LossIsActedOn == s_ppp_connected /\ ~link ~> link \/ ~s_ppp_connected
=============================================================================
