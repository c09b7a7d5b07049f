---------------------------- MODULE BleModemTask ----------------------------
(***************************************************************************)
(* ble_modem_task.c: the thread that opens, uses and closes the modem for  *)
(* the phone.  ble_pc names the place in ble_modem_task():                 *)
(*   wait     cy_rtos_get_queue()                                          *)
(*   lock     ble_lock_modem()                                             *)
(*   open     Modem_Open()                                                 *)
(*   close    the comparison with the handle written, and Modem_Close()    *)
(*   unlock   ble_unlock_modem()                                           *)
(*   header   reading handle, indicator and length of a chunk              *)
(*   copy     memcpy() of the chunk to s_dataArray                         *)
(*   ack      update_gatt_db_modem_ack()                                   *)
(*   sim      Modem_SimTransReceive()                                      *)
(*   respond  the loop of update_gatt_db_modem_transreceive()              *)
(***************************************************************************)
EXTENDS GattServer

BlePcs == {"wait", "lock", "open", "close", "unlock", "header", "copy", "ack", "sim",
           "respond"}

\* A notification goes to the phone that is connected and has enabled it, if there is one.
\* The stack does not refuse it: the code ignores the status of the call that sends it.
Notify(c, value) ==
    air' = IF g_conn_id # 0 /\ c \in notify_enabled
           THEN Append(air, [of |-> c, value |-> value]) ELSE air

\* update_gatt_db_modem_handle()
UpdateHandle(h) == modem_handle' = h /\ Notify("handle", h)

\* (mutant) The message stays in the queue.
GetMessagePeek ==
    /\ ble_pc = "wait"
    /\ s_queue # <<>>
    /\ UNCHANGED s_queue
    /\ ble_pc' = CASE Head(s_queue) = "MODEM_OPEN" ->
                          IF hModem = INVALID_HANDLE THEN "lock" ELSE "wait"
                   [] Head(s_queue) = "MODEM_CLOSE" -> "close"
                   [] Head(s_queue) = "MODEM_TRANSRECEIVE" -> "header"
                   [] OTHER -> "wait"
    /\ UNCHANGED <<gattVars, modem_close, modem_handle, modem_transreceive, hModem, chunk,
                   s_dataArray, response, modeVars, ppp_mode, air, phone, interrupted,
                   refused, given, fault, bleBoundVars>>

\* The wait for a message.  An open of a modem that is open is ignored.
GetMessage ==
    /\ ble_pc = "wait"
    /\ s_queue # <<>>
    /\ s_queue' = Tail(s_queue)
    /\ ble_pc' = CASE Head(s_queue) = "MODEM_OPEN" ->
                          IF hModem = INVALID_HANDLE THEN "lock" ELSE "wait"
                   [] Head(s_queue) = "MODEM_CLOSE" -> "close"
                   [] Head(s_queue) = "MODEM_TRANSRECEIVE" -> "header"
                   [] OTHER -> "wait"
    /\ UNCHANGED <<gattVars, modem_close, modem_handle, modem_transreceive, hModem, chunk,
                   s_dataArray, response, modeVars, ppp_mode, air, phone, interrupted,
                   refused, given, fault, bleBoundVars>>

-----------------------------------------------------------------------------
(* ble_lock_modem() and ble_unlock_modem() *)

\* The modem is there for BLE: in command mode, and in the mode it was in to go back to.
Locked(previous, by_ble) ==
    /\ s_previous_modem_mode' = previous
    /\ s_is_modem_locked_by_ble' = by_ble
    /\ modem_mode' = "COMMAND"
    /\ mode_failed' = (mode_failed /\ modem_mode = "COMMAND")
    /\ ble_pc' = "open"
    /\ UNCHANGED refused

\* A call of the connection manager has failed: "try again later".  The mode is remembered if
\* the call that failed is not the one that reads it; in command mode there is no other.
LockRefused ==
    /\ \/ UNCHANGED s_previous_modem_mode
       \/ modem_mode = "NULL" /\ s_previous_modem_mode' = "COMMAND"
       \/ modem_mode = "PPP" /\ s_previous_modem_mode' = "PPP"
    /\ ble_pc' = "wait"
    /\ refused' = TRUE
    /\ UNCHANGED <<s_is_modem_locked_by_ble, modem_mode, mode_failed>>

\* (mutant) A modem in PPP mode is left in it.
LockModemKeepsMode ==
    /\ ble_pc = "lock"
    /\ s_previous_modem_mode' = IF modem_mode = "NULL" THEN "COMMAND" ELSE modem_mode
    /\ ble_pc' = "open"
    /\ UNCHANGED <<s_queue, gattVars, modem_close, modem_handle, modem_transreceive, hModem,
                   chunk, s_dataArray, response, s_is_modem_locked_by_ble, modem_mode,
                   mode_failed, ppp_mode, air, phone, interrupted, refused, given, fault,
                   bleBoundVars>>

\* (mutant) BLE waits until the PPP connection has given the modem back.
LockModemWaits ==
    /\ ble_pc = "lock"
    /\ modem_mode # "PPP"
    /\ \/ Locked("COMMAND", s_is_modem_locked_by_ble \/ modem_mode = "NULL")
       \/ LockRefused
    /\ UNCHANGED <<s_queue, gattVars, modem_close, modem_handle, modem_transreceive, hModem,
                   chunk, s_dataArray, response, ppp_mode, air, phone, interrupted, given,
                   fault, bleBoundVars>>

\* A modem nobody has connected is connected without PPP, and is BLE's own; one in PPP mode is
\* changed to command mode; one in command mode is taken as it is.
LockModem ==
    /\ ble_pc = "lock"
    /\ \/ modem_mode = "NULL" /\ Locked("COMMAND", TRUE)
       \/ modem_mode # "NULL" /\ Locked(modem_mode, s_is_modem_locked_by_ble)
       \/ LockRefused
    /\ UNCHANGED <<s_queue, gattVars, modem_close, modem_handle, modem_transreceive, hModem,
                   chunk, s_dataArray, response, ppp_mode, air, phone, interrupted, given,
                   fault, bleBoundVars>>

\* (mutant) Only a modem that BLE has connected is given back.
UnlockModemOwn ==
    /\ ble_pc = "unlock"
    /\ modem_mode' = IF s_is_modem_locked_by_ble THEN "NULL" ELSE modem_mode
    /\ s_is_modem_locked_by_ble' = FALSE
    /\ ble_pc' = "wait"
    /\ UNCHANGED <<s_queue, gattVars, modem_close, modem_handle, modem_transreceive, hModem,
                   chunk, s_dataArray, response, s_previous_modem_mode, mode_failed,
                   ppp_mode, air, phone, interrupted, refused, given, fault, bleBoundVars>>

\* Back to PPP mode if that was the mode (which fails without a modem); a modem BLE has
\* connected is disconnected.  Either call may fail, and nothing is tried again.
UnlockModem ==
    /\ ble_pc = "unlock"
    /\ \E restored, released \in BOOLEAN :
          LET to_ppp == s_previous_modem_mode = "PPP"
              mode == IF to_ppp /\ restored THEN "PPP" ELSE modem_mode
          IN /\ restored => modem_mode # "NULL"
             /\ modem_mode' = IF s_is_modem_locked_by_ble /\ released THEN "NULL" ELSE mode
             /\ mode_failed' = (\/ mode_failed
                                \/ to_ppp /\ ~restored
                                \/ s_is_modem_locked_by_ble /\ ~released)
    /\ s_is_modem_locked_by_ble' = FALSE
    /\ ble_pc' = "wait"
    /\ UNCHANGED <<s_queue, gattVars, modem_close, modem_handle, modem_transreceive, hModem,
                   chunk, s_dataArray, response, s_previous_modem_mode, ppp_mode, air, phone,
                   interrupted, refused, given, fault, bleBoundVars>>

-----------------------------------------------------------------------------
(* MODEM_OPEN and MODEM_CLOSE *)

\* Modem_Open() may fail; the modem stays locked then.
OpenModem ==
    /\ ble_pc = "open"
    /\ hModem' \in Handles
    /\ mode_failed' = (mode_failed \/ hModem' = INVALID_HANDLE)
    /\ UpdateHandle(hModem')
    /\ ble_pc' = "wait"
    /\ UNCHANGED <<s_queue, gattVars, modem_close, modem_transreceive, chunk, s_dataArray,
                   response, s_previous_modem_mode, s_is_modem_locked_by_ble, modem_mode,
                   ppp_mode, phone, interrupted, refused, given, fault, bleBoundVars>>

\* (mutant) The phone is not told that the modem is closed.
CloseModemSilent ==
    /\ ble_pc = "close"
    /\ hModem' = IF modem_close = hModem THEN INVALID_HANDLE ELSE hModem
    /\ modem_handle' = hModem'
    /\ ble_pc' = "unlock"
    /\ UNCHANGED <<s_queue, gattVars, modem_close, modem_transreceive, chunk, s_dataArray,
                   response, modeVars, ppp_mode, air, phone, interrupted, refused, given,
                   fault, bleBoundVars>>

\* The modem is closed by the phone that names its handle, and unlocked in any case.
CloseModem ==
    /\ ble_pc = "close"
    /\ IF modem_close = hModem /\ hModem # INVALID_HANDLE
       THEN hModem' = INVALID_HANDLE /\ UpdateHandle(INVALID_HANDLE)
       ELSE UNCHANGED <<hModem, modem_handle, air>>
    /\ ble_pc' = "unlock"
    /\ UNCHANGED <<s_queue, gattVars, modem_close, modem_transreceive, chunk, s_dataArray,
                   response, modeVars, ppp_mode, phone, interrupted, refused, given, fault,
                   bleBoundVars>>

-----------------------------------------------------------------------------
(* MODEM_TRANSRECEIVE: the request *)

\* The attribute is read when the message is taken.  A response of the task's own fails an
\* assertion, or carries no handle the task knows.
ReadHeader ==
    /\ ble_pc = "header"
    /\ LET c == modem_transreceive IN
       IF c.kind = "request"
       THEN /\ chunk' = [handle |-> c.handle, indicator |-> c.indicator]
            /\ ble_pc' = IF c.handle = hModem /\ hModem # INVALID_HANDLE
                         THEN "copy" ELSE "wait"
            /\ UNCHANGED fault
       ELSE ble_pc' = "wait" /\ fault' \in {fault, "assert"} /\ UNCHANGED chunk
    /\ UNCHANGED <<s_queue, gattVars, modem_close, modem_handle, modem_transreceive, hModem,
                   s_dataArray, response, modeVars, ppp_mode, air, phone, interrupted,
                   refused, given, bleBoundVars>>

\* A first chunk empties s_dataArray; the attribute is read again.
CopyChunk ==
    /\ ble_pc = "copy"
    /\ LET c == modem_transreceive
           before == IF chunk.indicator = "FIRST" THEN <<>> ELSE s_dataArray
       IN s_dataArray' = Append(before, [request |-> c.request, part |-> c.part])
    /\ ble_pc' = "ack"
    /\ UNCHANGED <<s_queue, gattVars, modem_close, modem_handle, modem_transreceive, hModem,
                   chunk, response, modeVars, ppp_mode, air, phone, interrupted, refused,
                   given, fault, bleBoundVars>>

\* (mutant) The chunk that completes a request is not acknowledged.
SendAckButLast ==
    /\ ble_pc = "ack"
    /\ IF chunk.indicator = "LAST" THEN ble_pc' = "sim" /\ UNCHANGED air
       ELSE ble_pc' = "wait" /\ Notify("ack", 1)
    /\ UNCHANGED <<s_queue, gattVars, modem_close, modem_handle, modem_transreceive, hModem,
                   chunk, s_dataArray, response, modeVars, ppp_mode, phone, interrupted,
                   refused, given, fault, bleBoundVars>>

SendAck ==
    /\ ble_pc = "ack"
    /\ Notify("ack", 1)
    /\ ble_pc' = IF chunk.indicator = "LAST" THEN "sim" ELSE "wait"
    /\ UNCHANGED <<s_queue, gattVars, modem_close, modem_handle, modem_transreceive, hModem,
                   chunk, s_dataArray, response, modeVars, ppp_mode, phone, interrupted,
                   refused, given, fault, bleBoundVars>>

-----------------------------------------------------------------------------
(* MODEM_TRANSRECEIVE: the response *)

\* RESPONSE_CHUNK_PAYLOAD_SIZE
PayloadSize ==
    (IF g_mtu < TRANSRECEIVE_LEN THEN g_mtu ELSE TRANSRECEIVE_LEN) - Overhead

\* (mutant) The request stays in s_dataArray.
RequestKept == UNCHANGED s_dataArray

\* memset() of s_dataArray
RequestDone == s_dataArray' = <<>>

\* The modem executes the request or fails, and then the phone is told nothing.  Whether the
\* phone is there, and the size of the chunks, are read once, before the first chunk.
SimTransReceive ==
    /\ ble_pc = "sim"
    /\ \/ /\ ble_pc' = "wait"
          /\ refused' = TRUE
          /\ RequestDone
          /\ UNCHANGED <<response, given>>
       \/ \E len \in ResponseLens :
             LET request == s_dataArray[Len(s_dataArray)].request IN
             /\ given' = [request |-> request, len |-> len]
             /\ IF g_conn_id # 0 /\ "transreceive" \in notify_enabled
                THEN /\ response' = [request |-> request, len |-> len, remainder |-> len,
                                     payload |-> PayloadSize]
                     /\ ble_pc' = "respond"
                     /\ UNCHANGED s_dataArray
                ELSE ble_pc' = "wait" /\ RequestDone /\ UNCHANGED response
             /\ UNCHANGED refused
    /\ UNCHANGED <<s_queue, gattVars, modem_close, modem_handle, modem_transreceive, hModem,
                   chunk, modeVars, ppp_mode, air, phone, interrupted, fault, bleBoundVars>>

\* (mutant) Each chunk is a full one.
ChunkSizeFull == response.payload

\* The payload of the next chunk
ChunkSize ==
    IF response.remainder > response.payload THEN response.payload ELSE response.remainder

\* (mutant) The last chunk is the one that leaves less than a whole chunk.
IndicatorEarly ==
    IF response.remainder <= response.payload + 1 THEN "LAST"
    ELSE IF response.remainder = response.len THEN "FIRST" ELSE "MID"

\* The indicator of the next chunk
Indicator ==
    IF response.remainder <= response.payload THEN "LAST"
    ELSE IF response.remainder = response.len THEN "FIRST" ELSE "MID"

\* A chunk is written to the attribute and sent, like a notification, to whoever is
\* connected now.
SendResponseChunk ==
    /\ ble_pc = "respond"
    /\ LET r == response
           size == ChunkSize
           c == [kind |-> "response", indicator |-> Indicator, request |-> r.request,
                 from |-> r.len - r.remainder, size |-> size]
       IN /\ modem_transreceive' = c
          /\ air' = IF g_conn_id # 0 THEN Append(air, [of |-> "transreceive", value |-> c])
                    ELSE air
          /\ IF r.remainder = size
             THEN /\ response' = NoResponse
                  /\ RequestDone
                  /\ ble_pc' = "wait"
             ELSE /\ response' = [r EXCEPT !.remainder = @ - size]
                  /\ UNCHANGED <<s_dataArray, ble_pc>>
    /\ UNCHANGED <<s_queue, gattVars, modem_close, modem_handle, hModem, chunk, modeVars,
                   ppp_mode, phone, interrupted, refused, given, fault, bleBoundVars>>

BleModemTaskStep ==
    \/ GetMessage
    \/ LockModem
    \/ UnlockModem
    \/ OpenModem
    \/ CloseModem
    \/ ReadHeader
    \/ CopyChunk
    \/ SendAck
    \/ SimTransReceive
    \/ SendResponseChunk
=============================================================================
