------------------------------ MODULE BleState ------------------------------
(***************************************************************************)
(* The state shared by the GATT server (app_bt_gatt_handler.c, run by the  *)
(* Bluetooth stack's thread) and the BLE modem task (ble_modem_task.c):    *)
(* the attributes, the connection and the task's queue.  The phone that    *)
(* uses the modem over BLE, the modem library and the PPP connection are   *)
(* external; BleModem composes them all.                                   *)
(*                                                                         *)
(* Bytes are counted, not spelt out: a chunk of a request is one item, the *)
(* response to a request is its bytes 1, 2, ... by number.                 *)
(***************************************************************************)
EXTENDS Integers, Sequences

CONSTANTS
    BLE_MODEM_TASK_QUEUE_SIZE,      \* 10 in the code
    DEFAULT_GATT_MTU_SIZE,          \* 23 in the code
    TRANSRECEIVE_LEN,               \* app_uicc_service_modem_transreceive_len: 256
    ClientMtus,                     \* the MTUs a phone may ask for
    RequestSizes,                   \* into how many chunks a phone may cut a request
    ResponseLens,                   \* the lengths of the modem's responses
    MaxConnections,                 \* bound: connections in a behaviour
    MaxRequests,                    \* bound: requests
    MaxOpens,                       \* bound: writes of MODEM_OPEN
    MaxPppChanges                   \* bound: PPP connections made or ended

RESPONSE_CHUNK_HEADER_SIZE == 2
GATT_NOTIFICATION_RESERVED_SIZE == 3

Overhead == RESPONSE_CHUNK_HEADER_SIZE + GATT_NOTIFICATION_RESERVED_SIZE

ASSUME BleAssumption ==
    /\ BLE_MODEM_TASK_QUEUE_SIZE \in Nat \ {0}
    /\ DEFAULT_GATT_MTU_SIZE \in Nat /\ DEFAULT_GATT_MTU_SIZE > Overhead
    /\ TRANSRECEIVE_LEN \in Nat /\ TRANSRECEIVE_LEN > Overhead
    /\ \A mtu \in ClientMtus : mtu \in Nat /\ mtu >= DEFAULT_GATT_MTU_SIZE
    /\ RequestSizes \subseteq Nat \ {0}
    /\ ResponseLens \subseteq Nat

ASSUME BleBoundAssumption ==
    MaxConnections \in Nat /\ MaxRequests \in Nat /\ MaxOpens \in Nat /\ MaxPppChanges \in Nat

VARIABLES
    \* app_bt_gatt_handler.c
    g_conn_id,              \* 0 without a connection
    g_mtu,
    notify_enabled,         \* the characteristics whose notifications a phone has enabled
    modem_close,            \* the attribute MODEM_CLOSE: a handle
    modem_handle,           \* the attribute MODEM_HANDLE
    modem_transreceive,     \* the attribute MODEM_TRANSRECEIVE: a request's or response's chunk
    to_notify,              \* the message a write handler is about to put, or "none"
    \* ble_modem_task.c
    s_queue,
    ble_pc,                 \* where ble_modem_task() is
    hModem,
    chunk,                  \* the handle and the indicator it has read of a chunk
    s_dataArray,            \* the request it is putting together
    response,               \* the response it is sending, and how
    s_previous_modem_mode,
    s_is_modem_locked_by_ble,
    \* external: the modem, what the PPP connection makes of it, the phone
    modem_mode,             \* "NULL" while nobody has connected the modem
    ppp_mode,               \* the mode the modem has when BLE does not use it
    air,                    \* notifications on their way to the phone
    phone,                  \* what the phone is doing
    \* what the properties remember
    interrupted,            \* a connection has ended before an answer
    refused,                \* the modem has refused what the phone is waiting for
    mode_failed,            \* opening the modem or restoring its mode has failed
    given,                  \* request number and length of the modem's last response
    fault,
    \* the bounds
    connections, requests, opens, ppp_changes

gattVars == <<g_conn_id, g_mtu, notify_enabled, to_notify>>
modeVars == <<s_previous_modem_mode, s_is_modem_locked_by_ble, modem_mode, mode_failed>>
taskVars == <<ble_pc, hModem, chunk, s_dataArray, response>>
bleBoundVars == <<connections, requests, opens, ppp_changes>>

bleVars == <<gattVars, modem_close, modem_handle, modem_transreceive, s_queue, taskVars,
             modeVars, ppp_mode, air, phone, interrupted, refused, given, fault,
             bleBoundVars>>

-----------------------------------------------------------------------------
\* Handles of the modem.  The library gives the same one each time.
INVALID_HANDLE == "invalid"
Handles == {"handle", INVALID_HANDLE}

\* The messages of the queue.  NOTIF_RESTART_BT_ADVERT is never sent.
BleMessages == {"MODEM_OPEN", "MODEM_CLOSE", "MODEM_TRANSRECEIVE"}

\* The characteristics that notify.  Those of MODEM_OPEN and MODEM_CLOSE never do.
Notifying == {"handle", "ack", "transreceive"}

Indicators == {"FIRST", "MID", "LAST"}

RequestChunks ==
    [kind : {"request"}, handle : Handles, indicator : Indicators,
     request : Nat, part : Nat]

ResponseChunks ==
    [kind : {"response"}, indicator : Indicators, request : Nat, from : Nat, size : Nat]

NoChunk == [kind |-> "empty"]
NoResponse == [request |-> 0, len |-> 0, remainder |-> 0, payload |-> 0]
=============================================================================
