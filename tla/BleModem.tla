------------------------------ MODULE BleModem ------------------------------
(***************************************************************************)
(* The modem over BLE: the GATT server, the BLE modem task, and around     *)
(* them a phone, the PPP connection and the modem, all external.           *)
(*                                                                         *)
(* The phone does one thing at a time: it enables the notifications, reads *)
(* the handle, and then writes only when it has had the notification that  *)
(* ends what it wrote before, or when none is coming any more.  It may be  *)
(* disconnected at any time.  phone.pc:                                    *)
(*   off      not connected                                                *)
(*   setup    enabling notifications                                       *)
(*   ready    nothing outstanding                                          *)
(*   opening, closing    waiting for a notification of MODEM_HANDLE        *)
(*   acking   a chunk is written, waiting for MODEM_ACK                    *)
(*   next     about to write the next chunk of the request                 *)
(*   answer   waiting for the response                                     *)
(***************************************************************************)
EXTENDS BleModemTask

PhonePcs == {"off", "setup", "ready", "opening", "closing", "acking", "next", "answer"}
Waiting == {"opening", "closing", "acking", "answer"}

\* The part-th of size chunks.  A request of one chunk is its last, as in the responses.
IndicatorOf(part, size) ==
    IF part = size THEN "LAST" ELSE IF part = 1 THEN "FIRST" ELSE "MID"

RequestChunk(handle, request, part, size) ==
    [kind |-> "request", handle |-> handle, indicator |-> IndicatorOf(part, size),
     request |-> request, part |-> part]

\* Nothing is under way: no notification will come unless something is written.
Quiet == HandlersIdle /\ s_queue = <<>> /\ ble_pc = "wait" /\ air = <<>>

phoneUnchanged == <<s_queue, taskVars, modeVars, ppp_mode, modem_handle, given, fault>>

-----------------------------------------------------------------------------
(* The phone *)

PhoneConnects ==
    /\ phone.pc = "off"
    /\ connections < MaxConnections
    /\ Connected
    /\ phone' = [phone EXCEPT !.pc = "setup", !.handle = INVALID_HANDLE]
    /\ UNCHANGED <<phoneUnchanged, modem_close, modem_transreceive, air, interrupted, refused,
                   requests, opens, ppp_changes>>

PhoneDisconnects ==
    /\ phone.pc # "off"
    /\ Disconnected
    /\ air' = <<>>
    /\ interrupted' = (interrupted \/ phone.pc \in Waiting \cup {"next"})
    /\ phone' = [phone EXCEPT !.pc = "off"]
    /\ UNCHANGED <<phoneUnchanged, modem_close, modem_transreceive, refused, requests, opens,
                   ppp_changes>>

PhoneSetsUp ==
    /\ phone.pc = "setup"
    /\ \/ \E c \in Notifying \ notify_enabled : EnableNotification(c) /\ UNCHANGED phone
       \/ /\ g_mtu = DEFAULT_GATT_MTU_SIZE
          /\ \E mtu \in ClientMtus : ExchangeMtu(mtu)
          /\ UNCHANGED phone
       \/ /\ notify_enabled = Notifying
          /\ \E h \in Handles :
                ReadHandle(h) /\ phone' = [phone EXCEPT !.pc = "ready", !.handle = h]
          /\ UNCHANGED gattVars
    /\ UNCHANGED <<phoneUnchanged, modem_close, modem_transreceive, air, interrupted, refused,
                   bleBoundVars>>

PhoneOpens ==
    /\ phone.pc = "ready"
    /\ opens < MaxOpens
    /\ opens' = opens + 1
    /\ WriteOpen
    /\ refused' = FALSE
    /\ phone' = [phone EXCEPT !.pc = "opening"]
    /\ UNCHANGED <<phoneUnchanged, air, interrupted, connections, requests, ppp_changes>>

\* Also without a handle: a phone whose open has failed asks for the modem to be unlocked.
PhoneCloses ==
    /\ phone.pc = "ready"
    /\ WriteClose(phone.handle)
    /\ refused' = FALSE
    /\ phone' = [phone EXCEPT !.pc = "closing"]
    /\ UNCHANGED <<phoneUnchanged, air, interrupted, bleBoundVars>>

PhoneRequests ==
    /\ phone.pc = "ready"
    /\ phone.handle # INVALID_HANDLE
    /\ requests < MaxRequests
    /\ requests' = requests + 1
    /\ \E size \in RequestSizes :
          /\ WriteTransReceive(RequestChunk(phone.handle, requests', 1, size))
          /\ phone' = [phone EXCEPT !.pc = "acking", !.part = 1, !.size = size,
                                    !.got = <<>>, !.complete = FALSE]
    /\ refused' = FALSE
    /\ UNCHANGED <<phoneUnchanged, air, interrupted, connections, opens, ppp_changes>>

PhoneContinues ==
    /\ phone.pc = "next"
    /\ WriteTransReceive(RequestChunk(phone.handle, requests, phone.part + 1, phone.size))
    /\ phone' = [phone EXCEPT !.pc = "acking", !.part = @ + 1]
    /\ UNCHANGED <<phoneUnchanged, air, interrupted, refused, bleBoundVars>>

\* What a phone makes of a chunk: a first one starts the response, a last one ends it.
Received(c) ==
    LET bytes == [i \in 1 .. c.size |-> c.from + i]
        got == IF c.indicator = "FIRST" THEN bytes ELSE phone.got \o bytes
    IN [phone EXCEPT !.got = got, !.complete = (c.indicator = "LAST"),
                     !.pc = IF c.indicator = "LAST" THEN "ready" ELSE "answer"]

\* A notification nobody waits for is dropped.
PhoneReceives ==
    /\ air # <<>>
    /\ air' = Tail(air)
    /\ LET n == Head(air) IN
       phone' =
         CASE n.of = "handle" ->
                [phone EXCEPT !.handle = n.value,
                              !.pc = IF @ \in {"opening", "closing"} THEN "ready" ELSE @]
           [] n.of = "ack" /\ phone.pc = "acking" ->
                [phone EXCEPT !.pc = IF phone.part = phone.size THEN "answer" ELSE "next"]
           [] n.of = "transreceive" /\ phone.pc = "answer" -> Received(n.value)
           [] OTHER -> phone
    /\ UNCHANGED <<phoneUnchanged, gattVars, modem_close, modem_transreceive, interrupted,
                   refused, bleBoundVars>>

\* The phone's timeout is longer than anything the task does.
PhoneGivesUp ==
    /\ phone.pc \in Waiting
    /\ Quiet
    /\ phone' = [phone EXCEPT !.pc = "ready"]
    /\ UNCHANGED <<phoneUnchanged, gattVars, modem_close, modem_transreceive, air, interrupted,
                   refused, bleBoundVars>>

PhoneStep ==
    \/ PhoneConnects
    \/ PhoneDisconnects
    \/ PhoneSetsUp
    \/ PhoneOpens
    \/ PhoneCloses
    \/ PhoneRequests
    \/ PhoneContinues
    \/ PhoneReceives
    \/ PhoneGivesUp

-----------------------------------------------------------------------------
\* The PPP connection is made and ended, but not while BLE has the modem in command mode: the
\* connection manager has one user at a time.
PppChanges ==
    /\ modem_mode # "COMMAND"
    /\ ppp_changes < MaxPppChanges
    /\ ppp_changes' = ppp_changes + 1
    /\ modem_mode' = IF modem_mode = "NULL" THEN "PPP" ELSE "NULL"
    /\ ppp_mode' = modem_mode'
    /\ UNCHANGED <<gattVars, modem_close, modem_handle, modem_transreceive, s_queue, taskVars,
                   s_previous_modem_mode, s_is_modem_locked_by_ble, mode_failed, air, phone,
                   interrupted, refused, given, fault, connections, requests, opens>>

\* The task has made its queue; nobody has connected yet.
BleInit ==
    /\ g_conn_id = 0 /\ g_mtu = DEFAULT_GATT_MTU_SIZE
    /\ notify_enabled = {} /\ to_notify = "none"
    /\ modem_close = INVALID_HANDLE /\ modem_handle = INVALID_HANDLE
    /\ modem_transreceive = NoChunk
    /\ s_queue = <<>>
    /\ ble_pc = "wait" /\ hModem = INVALID_HANDLE
    /\ chunk = [handle |-> INVALID_HANDLE, indicator |-> "LAST"]
    /\ s_dataArray = <<>> /\ response = NoResponse
    /\ s_previous_modem_mode = "COMMAND" /\ s_is_modem_locked_by_ble = FALSE
    /\ modem_mode = "NULL" /\ ppp_mode = "NULL"
    /\ air = <<>>
    /\ phone = [pc |-> "off", handle |-> INVALID_HANDLE, part |-> 0, size |-> 0,
                got |-> <<>>, complete |-> FALSE]
    /\ interrupted = FALSE /\ refused = FALSE /\ mode_failed = FALSE
    /\ given = [request |-> 0, len |-> 0]
    /\ fault = "none"
    /\ connections = 0 /\ requests = 0 /\ opens = 0 /\ ppp_changes = 0

BleNext ==
    /\ fault = "none"
    /\ BleModemTaskStep \/ ble_modem_task_notify \/ PhoneStep \/ PppChanges

BleSpec == BleInit /\ [][BleNext]_bleVars

\* The task, without a Wi-Fi task above it, and the stack's thread run, the modem's calls
\* return, and a phone that is there takes its notifications and has a timeout.  Nothing
\* makes it write.
BleFairSpec ==
    /\ BleSpec
    /\ WF_bleVars(fault = "none" /\ BleModemTaskStep)
    /\ WF_bleVars(fault = "none" /\ ble_modem_task_notify)
    /\ WF_bleVars(fault = "none" /\ (PhoneReceives \/ PhoneGivesUp))

-----------------------------------------------------------------------------
(* The refinement of ModemService *)

\* A request is being asked until the modem has executed or refused it, and answered until the
\* phone has the last chunk.
ServicePhase ==
    CASE phone.pc \in {"off", "setup"} -> "away"
      [] phone.pc \in {"ready", "opening", "closing"} -> phone.pc
      [] OTHER -> IF given.request = requests THEN "answering"
                  ELSE IF refused THEN "refused" ELSE "asking"

Service == INSTANCE ModemService WITH
    phase <- ServicePhase,
    view <- phone.handle # INVALID_HANDLE,
    open <- hModem # INVALID_HANDLE,
    asked <- requests,
    executed <- given.request,
    heard <- phone.complete,
    off <- interrupted

\* ble_modem_task() and the GATT server: whatever way a request is cut and its response sent,
\* the phone has the service ModemService describes, up to the first connection that ends
\* before an answer.
ImplementsModemService == Service!ServiceSpec

-----------------------------------------------------------------------------
\* The type of every variable.
BleTypeOK ==
    /\ g_conn_id \in 0 .. MaxConnections
    /\ g_mtu \in ClientMtus \cup {DEFAULT_GATT_MTU_SIZE}
    /\ notify_enabled \subseteq Notifying
    /\ modem_close \in Handles /\ modem_handle \in Handles /\ hModem \in Handles
    /\ modem_transreceive \in RequestChunks \cup ResponseChunks \cup {NoChunk}
    /\ to_notify \in BleMessages \cup {"none"}
    /\ s_queue \in Seq(BleMessages) /\ Len(s_queue) <= BLE_MODEM_TASK_QUEUE_SIZE
    /\ ble_pc \in BlePcs
    /\ chunk \in [handle : Handles, indicator : Indicators]
    /\ s_dataArray \in Seq([request : Nat, part : Nat])
    /\ response \in [request : Nat, len : Nat, remainder : Nat, payload : Nat]
    /\ s_previous_modem_mode \in {"COMMAND", "PPP"}
    /\ s_is_modem_locked_by_ble \in BOOLEAN
    /\ modem_mode \in {"NULL", "COMMAND", "PPP"} /\ ppp_mode \in {"NULL", "PPP"}
    /\ air \in Seq([of : {"handle"}, value : Handles] \cup [of : {"ack"}, value : {1}]
                   \cup [of : {"transreceive"}, value : ResponseChunks])
    /\ phone \in [pc : PhonePcs, handle : Handles, part : Nat, size : Nat,
                  got : Seq(Nat), complete : BOOLEAN]
    /\ interrupted \in BOOLEAN /\ refused \in BOOLEAN /\ mode_failed \in BOOLEAN
    /\ given \in [request : Nat, len : Nat]
    /\ fault \in {"none", "queue_full", "assert"}
    /\ connections \in Nat /\ requests \in Nat /\ opens \in Nat /\ ppp_changes \in Nat

\* ReadHeader, CopyChunk and RequestDone: unless a connection has ended before an answer, what
\* the modem is given is the phone's request, all its chunks in order and nothing of another,
\* and it has not been given it before.
RequestsAreWhole ==
    ble_pc = "sim" /\ ~interrupted =>
        /\ s_dataArray = [p \in 1 .. phone.size |-> [request |-> requests, part |-> p]]
        /\ given.request < requests

\* update_gatt_db_modem_transreceive(): what a phone has received of a response is its
\* beginning, and the whole of it once the phone takes it to be complete.
ResponsesInOrder ==
    ~interrupted =>
        /\ phone.got = [i \in 1 .. Len(phone.got) |-> i]
        /\ phone.complete => given = [request |-> requests, len |-> Len(phone.got)]

\* ble_modem_task_notify() and the three functions that notify: when nothing is under way any
\* more and the phone still waits, the modem or its lock has refused what it asked for, or it has
\* opened what was open or closed what was not.  Otherwise no write and no notification has gone
\* missing between the two threads.
SilenceIsRefusal ==
    Quiet /\ phone.pc \in Waiting /\ ~interrupted =>
        \/ refused
        \/ phone.pc = "closing" /\ hModem = INVALID_HANDLE
        \/ phone.pc = "opening" /\ hModem # INVALID_HANDLE

\* ble_lock_modem() and ble_unlock_modem(): unless a connection has ended before an answer, an
\* open modem is in command mode, whatever opens, closes without a handle, failures and PPP
\* connections came before.
CommandModeWhileOpen ==
    hModem # INVALID_HANDLE /\ ~interrupted => modem_mode = "COMMAND"

\* ble_unlock_modem(): unless opening the modem or restoring its mode has failed, a closed modem
\* is in the mode the PPP connection had it in before BLE took it.
ModeRestored ==
    ble_pc = "wait" /\ hModem = INVALID_HANDLE /\ ~mode_failed => modem_mode = ppp_mode

\* ble_modem_task.c:356, 476 and 491: unless a connection has ended before an answer, the queue
\* is not full when a message is put, and the attribute still holds what the phone wrote when
\* the task comes to read it.
NoAssertionFails == fault # "none" => interrupted

\* ble_modem_task(): the phone's wait comes to an end, with an answer, with a refusal or
\* with the connection; or an assertion has stopped the program.
WaitEnds == phone.pc \in Waiting ~> phone.pc \notin Waiting \/ fault # "none"

\* ble_modem_task.c:116, on cy_pcm_get_modem_mode(): "remember the modem mode so that we can
\* restore it later".  What is remembered when BLE gives the modem back is the mode the modem
\* had before BLE took it.
RememberedModeIsPrevious ==
    ble_pc = "unlock" /\ modem_mode = "COMMAND" /\ ppp_mode = "PPP" =>
        s_previous_modem_mode = "PPP"
=============================================================================
