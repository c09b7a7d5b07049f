----------------------------- MODULE GattServer -----------------------------
(***************************************************************************)
(* app_bt_gatt_handler.c: what the GATT events of the Bluetooth stack do.  *)
(* All handlers run on the stack's thread, one after the other.  A write   *)
(* of MODEM_OPEN, MODEM_CLOSE or MODEM_TRANSRECEIVE is two steps, the      *)
(* attribute first and then the message to the BLE modem task, which may   *)
(* run in between; to_notify is the message of a write half done.          *)
(*                                                                         *)
(* The operators below are the handlers; BleModem says when a phone causes *)
(* the events.                                                             *)
(***************************************************************************)
EXTENDS BleState

HandlersIdle == to_notify = "none"

\* app_gatt_connect_handler(), connected: the MTU starts at the default.
Connected ==
    /\ HandlersIdle
    /\ connections' = connections + 1
    /\ g_conn_id' = connections'
    /\ g_mtu' = DEFAULT_GATT_MTU_SIZE
    /\ UNCHANGED <<notify_enabled, to_notify>>

\* app_gatt_connect_handler(), disconnected.  What the phone had enabled stays enabled, and
\* the modem task is not told.
Disconnected ==
    /\ HandlersIdle
    /\ g_conn_id' = 0
    /\ g_mtu' = DEFAULT_GATT_MTU_SIZE
    /\ UNCHANGED <<notify_enabled, to_notify, connections>>

\* GATT_REQ_MTU
ExchangeMtu(mtu) ==
    /\ HandlersIdle
    /\ g_mtu' = mtu
    /\ UNCHANGED <<g_conn_id, notify_enabled, to_notify>>

\* app_gatt_attr_read_handler() of MODEM_HANDLE; g is what the phone gets.
ReadHandle(g) ==
    /\ HandlersIdle
    /\ g = modem_handle

\* app_gatt_attr_write_handler() of a client characteristic configuration
EnableNotification(c) ==
    /\ HandlersIdle
    /\ notify_enabled' = notify_enabled \cup {c}
    /\ UNCHANGED <<g_conn_id, g_mtu, to_notify>>

\* app_gatt_attr_write_handler() of an attribute of the modem: memcpy() to the attribute.
\* The port name in MODEM_OPEN is data.
WriteOpen ==
    /\ HandlersIdle
    /\ to_notify' = "MODEM_OPEN"
    /\ UNCHANGED <<g_conn_id, g_mtu, notify_enabled, modem_close, modem_transreceive>>

WriteClose(h) ==
    /\ HandlersIdle
    /\ modem_close' = h
    /\ to_notify' = "MODEM_CLOSE"
    /\ UNCHANGED <<g_conn_id, g_mtu, notify_enabled, modem_transreceive>>

WriteTransReceive(c) ==
    /\ HandlersIdle
    /\ modem_transreceive' = c
    /\ to_notify' = "MODEM_TRANSRECEIVE"
    /\ UNCHANGED <<g_conn_id, g_mtu, notify_enabled, modem_close>>

\* ble_modem_task_notify(): the put does not wait, and a full queue is an assertion.
ble_modem_task_notify ==
    /\ ~HandlersIdle
    /\ IF Len(s_queue) < BLE_MODEM_TASK_QUEUE_SIZE
       THEN s_queue' = Append(s_queue, to_notify) /\ UNCHANGED fault
       ELSE fault' = "queue_full" /\ UNCHANGED s_queue
    /\ to_notify' = "none"
    /\ UNCHANGED <<g_conn_id, g_mtu, notify_enabled, modem_close, modem_handle,
                   modem_transreceive, taskVars, modeVars, ppp_mode, air, phone,
                   interrupted, refused, given, bleBoundVars>>
=============================================================================
