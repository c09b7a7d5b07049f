------------------------------ MODULE BleProofs ------------------------------
(***************************************************************************)
(* The modem's mode: BLE takes the modem and gives it back, whatever the   *)
(* phone, the PPP connection and the connection manager's failures do in   *)
(* between.  And the types of all variables.                               *)
(***************************************************************************)
EXTENDS BleModem, TLAPS, SequenceTheorems

\* The types of what the argument is about.
ModeTypeOK ==
    /\ modem_mode \in {"NULL", "COMMAND", "PPP"}
    /\ ppp_mode \in {"NULL", "PPP"}
    /\ s_previous_modem_mode \in {"COMMAND", "PPP"}
    /\ s_is_modem_locked_by_ble \in BOOLEAN
    /\ mode_failed \in BOOLEAN

\* Outside command mode the modem is in the mode the PPP connection gave it.
OutsideCommandMode == modem_mode # "COMMAND" => modem_mode = ppp_mode

\* The two notes of ble_lock_modem() are never wrong: a PPP mode that is remembered was there,
\* and a modem that is marked as BLE's own was nobody's.
NotesAreTrue ==
    /\ modem_mode = "COMMAND" /\ s_previous_modem_mode = "PPP" => ppp_mode = "PPP"
    /\ s_is_modem_locked_by_ble => modem_mode = "COMMAND" /\ ppp_mode = "NULL"

\* Without a failure they are complete: one of the two says how to give the modem back.
NotesAreComplete ==
    modem_mode = "COMMAND" /\ ~mode_failed =>
        /\ ppp_mode = "PPP" => s_previous_modem_mode = "PPP"
        /\ ppp_mode = "NULL" => s_is_modem_locked_by_ble

\* The modem is locked when it is closed.  Without a failure a closed modem is in command mode
\* only between taking and giving back.
CommandModeByPlace ==
    /\ ble_pc = "lock" => hModem = INVALID_HANDLE
    /\ modem_mode = "COMMAND" /\ ~mode_failed /\ hModem = INVALID_HANDLE =>
           ble_pc \in {"open", "unlock"}

ModeInv ==
    /\ ModeTypeOK
    /\ OutsideCommandMode
    /\ NotesAreTrue
    /\ NotesAreComplete
    /\ CommandModeByPlace

\* What a step that does not take, open, close or give back the modem leaves as it is.
ModeAside ==
    /\ UNCHANGED <<modeVars, ppp_mode, hModem>>
    /\ ble_pc' \in {"open", "unlock"} \/ ble_pc \notin {"open", "unlock"}
    /\ ble_pc' = "lock" => hModem = INVALID_HANDLE \/ ble_pc = "lock"

-----------------------------------------------------------------------------
\* BleInit: a modem nobody has taken.
LEMMA ModeInit == BleInit => ModeInv
  BY DEF BleInit, ModeInv, ModeTypeOK, OutsideCommandMode, NotesAreTrue, NotesAreComplete,
         CommandModeByPlace

\* ModeAside: the invariant is about nothing else.
LEMMA AsideKeepsMode == ModeInv /\ ModeAside => ModeInv'
  BY DEF ModeInv, ModeTypeOK, OutsideCommandMode, NotesAreTrue, NotesAreComplete,
         CommandModeByPlace, ModeAside, modeVars

\* GattServer and the phone: no event of the stack touches the modem.
LEMMA PhoneIsAside == PhoneStep \/ ble_modem_task_notify => ModeAside
  <1>1. PhoneStep => UNCHANGED <<taskVars, modeVars, ppp_mode>>
    BY DEF PhoneStep, PhoneConnects, PhoneDisconnects, PhoneSetsUp, PhoneOpens, PhoneCloses,
           PhoneRequests, PhoneContinues, PhoneReceives, PhoneGivesUp, phoneUnchanged
  <1>2. ble_modem_task_notify => UNCHANGED <<taskVars, modeVars, ppp_mode>>
    BY DEF ble_modem_task_notify
  <1> QED
    BY <1>1, <1>2 DEF ModeAside, taskVars

\* ble_modem_task(): waiting, requests and responses do not touch the modem's mode.
LEMMA TransReceiveIsAside ==
    GetMessage \/ ReadHeader \/ CopyChunk \/ SendAck \/ SimTransReceive \/ SendResponseChunk
        => ModeAside
  <1>1. GetMessage => ModeAside
    BY DEF GetMessage, ModeAside
  <1>2. ReadHeader => ModeAside
    BY DEF ReadHeader, ModeAside
  <1>3. CopyChunk => ModeAside
    BY DEF CopyChunk, ModeAside
  <1>4. SendAck => ModeAside
    BY DEF SendAck, ModeAside
  <1>5. SimTransReceive => ModeAside
    BY DEF SimTransReceive, ModeAside
  <1>6. SendResponseChunk => ModeAside
    BY DEF SendResponseChunk, ModeAside
  <1> QED
    BY <1>1, <1>2, <1>3, <1>4, <1>5, <1>6

\* ble_lock_modem(): the notes are made as the mode is left.  A second lock of a modem in
\* command mode is one after a failure.
LEMMA LockKeepsMode == ModeInv /\ LockModem => ModeInv'
  <1> SUFFICES ASSUME ModeInv, LockModem PROVE ModeInv'
    OBVIOUS
  <1> USE DEF ModeInv, ModeTypeOK, OutsideCommandMode, NotesAreTrue, NotesAreComplete,
              CommandModeByPlace
  <1>1. UNCHANGED <<ppp_mode, hModem>> /\ ble_pc = "lock"
    BY DEF LockModem
  <1>2. CASE modem_mode = "NULL" /\ Locked("COMMAND", TRUE)
    BY <1>1, <1>2 DEF Locked
  <1>3. CASE modem_mode = "PPP" /\ Locked(modem_mode, s_is_modem_locked_by_ble)
    BY <1>1, <1>3 DEF Locked
  <1>4. CASE modem_mode = "COMMAND" /\ Locked(modem_mode, s_is_modem_locked_by_ble)
    BY <1>1, <1>4 DEF Locked
  <1>5. CASE LockRefused
    BY <1>1, <1>5 DEF LockRefused
  <1> QED
    BY <1>2, <1>3, <1>4, <1>5 DEF LockModem

\* ble_unlock_modem(): the notes say what to do, and at most one of the two does.
LEMMA UnlockKeepsMode == ModeInv /\ UnlockModem => ModeInv'
  <1> SUFFICES ASSUME ModeInv, UnlockModem PROVE ModeInv'
    OBVIOUS
  <1> USE DEF ModeInv, ModeTypeOK, OutsideCommandMode, NotesAreTrue, NotesAreComplete,
              CommandModeByPlace
  <1>1. /\ UNCHANGED <<ppp_mode, s_previous_modem_mode>>
        /\ ~s_is_modem_locked_by_ble'
        /\ ble_pc' = "wait"
    BY DEF UnlockModem
  <1>2. PICK restored, released \in BOOLEAN :
          /\ restored => modem_mode # "NULL"
          /\ modem_mode' = IF s_is_modem_locked_by_ble /\ released THEN "NULL"
                           ELSE IF s_previous_modem_mode = "PPP" /\ restored THEN "PPP"
                           ELSE modem_mode
          /\ mode_failed' = (\/ mode_failed
                             \/ s_previous_modem_mode = "PPP" /\ ~restored
                             \/ s_is_modem_locked_by_ble /\ ~released)
    BY DEF UnlockModem
  <1>3. ModeTypeOK'
    BY <1>1, <1>2 DEF UnlockModem
  <1>4. modem_mode' = "COMMAND" => modem_mode = "COMMAND" /\ mode_failed'
    BY <1>2
  <1>5. modem_mode' # "COMMAND" => modem_mode' = ppp_mode
    BY <1>2
  <1> QED
    BY <1>1, <1>3, <1>4, <1>5

\* Modem_Open() and Modem_Close(): an open that fails is a failure, a close is on its way to
\* ble_unlock_modem().
LEMMA OpenCloseKeepMode == ModeInv /\ (OpenModem \/ CloseModem) => ModeInv'
  <1> USE DEF ModeInv, ModeTypeOK, OutsideCommandMode, NotesAreTrue, NotesAreComplete,
              CommandModeByPlace
  <1>1. ModeInv /\ OpenModem => ModeInv'
    <2> SUFFICES ASSUME ModeInv, OpenModem PROVE ModeInv'
      OBVIOUS
    <2>1. UNCHANGED <<s_previous_modem_mode, s_is_modem_locked_by_ble, modem_mode, ppp_mode>>
      BY DEF OpenModem
    <2>2. mode_failed' = (mode_failed \/ hModem' = INVALID_HANDLE) /\ ble_pc' = "wait"
      BY DEF OpenModem
    <2>3. mode_failed' \in BOOLEAN
      BY <2>2
    <2>4. ~mode_failed' => ~mode_failed /\ hModem' # INVALID_HANDLE
      BY <2>2
    <2> QED
      BY <2>1, <2>2, <2>3, <2>4
  <1>2. ModeInv /\ CloseModem => ModeInv'
    BY DEF CloseModem, modeVars
  <1> QED
    BY <1>1, <1>2

\* The PPP connection changes a modem that BLE does not hold.
LEMMA PppKeepsMode == ModeInv /\ PppChanges => ModeInv'
  BY DEF ModeInv, ModeTypeOK, OutsideCommandMode, NotesAreTrue, NotesAreComplete,
         CommandModeByPlace, PppChanges, taskVars

-----------------------------------------------------------------------------
\* ble_lock_modem() and ble_unlock_modem(): the notes of the lock are true, and complete
\* unless something failed, at every moment.
THEOREM ModeCorrect == BleSpec => []ModeInv
  <1>1. BleInit => ModeInv
    BY ModeInit
  <1>2. ModeInv /\ [BleNext]_bleVars => ModeInv'
    <2> SUFFICES ASSUME ModeInv, [BleNext]_bleVars PROVE ModeInv'
      OBVIOUS
    <2>1. CASE BleModemTaskStep
      BY <2>1, TransReceiveIsAside, AsideKeepsMode, LockKeepsMode, UnlockKeepsMode,
         OpenCloseKeepMode DEF BleModemTaskStep
    <2>2. CASE ble_modem_task_notify \/ PhoneStep
      BY <2>2, PhoneIsAside, AsideKeepsMode
    <2>3. CASE PppChanges
      BY <2>3, PppKeepsMode
    <2>4. CASE UNCHANGED bleVars
      BY <2>4, AsideKeepsMode DEF bleVars, taskVars, ModeAside
    <2> QED
      BY <2>1, <2>2, <2>3, <2>4 DEF BleNext
  <1> QED
    BY <1>1, <1>2, PTL DEF BleSpec

\* ble_unlock_modem(): unless opening the modem or restoring its mode has failed, a closed modem
\* is in the mode the PPP connection had it in before BLE took it.
THEOREM ModeGivenBack == BleSpec => []ModeRestored
  <1>1. ModeInv => ModeRestored
    BY DEF ModeInv, ModeTypeOK, OutsideCommandMode, CommandModeByPlace, ModeRestored
  <1> QED
    BY <1>1, ModeCorrect, PTL

-----------------------------------------------------------------------------
(* The types *)

\* The tuples of UNCHANGED are abbreviations.
USE DEF gattVars, modeVars, taskVars, bleBoundVars, phoneUnchanged, bleVars

Notifications ==
    [of : {"handle"}, value : Handles] \cup [of : {"ack"}, value : {1}]
        \cup [of : {"transreceive"}, value : ResponseChunks]

\* The attributes and the connection.
ServerTypeOK ==
    /\ g_conn_id \in 0 .. MaxConnections
    /\ g_mtu \in ClientMtus \cup {DEFAULT_GATT_MTU_SIZE}
    /\ notify_enabled \subseteq Notifying
    /\ modem_close \in Handles /\ modem_handle \in Handles
    /\ modem_transreceive \in RequestChunks \cup ResponseChunks \cup {NoChunk}
    /\ to_notify \in BleMessages \cup {"none"}

\* The task.  A chunk is only copied if it is one of a request, there is a request to execute,
\* and no more of a response is left than there was.
TaskTypeOK ==
    /\ s_queue \in Seq(BleMessages) /\ Len(s_queue) <= BLE_MODEM_TASK_QUEUE_SIZE
    /\ ble_pc \in BlePcs
    /\ hModem \in Handles
    /\ chunk \in [handle : Handles, indicator : Indicators]
    /\ s_dataArray \in Seq([request : Nat, part : Nat])
    /\ response \in [request : Nat, len : Nat, remainder : Nat, payload : Nat]
    /\ ble_pc = "copy" => modem_transreceive \in RequestChunks
    /\ ble_pc \in {"ack", "sim", "respond"} => s_dataArray # <<>>
    /\ response.remainder <= response.len

Phones ==
    [pc : PhonePcs, handle : Handles, part : Nat, size : Nat, got : Seq(Nat),
     complete : BOOLEAN]

PhoneTypeOK ==
    /\ air \in Seq(Notifications)
    /\ phone \in Phones

NotesTypeOK ==
    /\ interrupted \in BOOLEAN /\ refused \in BOOLEAN
    /\ given \in [request : Nat, len : Nat]
    /\ fault \in {"none", "queue_full", "assert"}
    /\ connections \in Nat /\ requests \in Nat /\ opens \in Nat /\ ppp_changes \in Nat

BleTypeInv ==
    /\ ServerTypeOK
    /\ TaskTypeOK
    /\ PhoneTypeOK
    /\ NotesTypeOK
    /\ ModeTypeOK

-----------------------------------------------------------------------------
(* The types hold *)

LEMMA TypeInit == BleInit => BleTypeInv
  <1> SUFFICES ASSUME BleInit PROVE BleTypeInv
    OBVIOUS
  <1> USE DEF BleInit
  <1>1. ServerTypeOK
    BY BleAssumption, BleBoundAssumption DEF ServerTypeOK, Handles
  <1>2. TaskTypeOK
    BY BleAssumption DEF TaskTypeOK, Handles, BlePcs, Indicators, NoResponse
  <1>3. PhoneTypeOK
    BY DEF PhoneTypeOK, Phones, PhonePcs, Handles
  <1>4. NotesTypeOK /\ ModeTypeOK
    BY DEF NotesTypeOK, ModeTypeOK
  <1> QED
    BY <1>1, <1>2, <1>3, <1>4 DEF BleTypeInv

\* Notify(): one notification more, or none.
LEMMA NotifyType ==
    ASSUME NEW c, NEW value, [of |-> c, value |-> value] \in Notifications,
           Notify(c, value), PhoneTypeOK
    PROVE  air' \in Seq(Notifications)
  BY AppendProperties DEF Notify, PhoneTypeOK

\* The steps of the task that open, close and unlock the modem.
LEMMA ModemStepsType ==
    BleTypeInv /\ (LockModem \/ UnlockModem \/ OpenModem \/ CloseModem)
        => ServerTypeOK' /\ TaskTypeOK' /\ PhoneTypeOK' /\ NotesTypeOK'
  <1> SUFFICES ASSUME BleTypeInv, LockModem \/ UnlockModem \/ OpenModem \/ CloseModem
               PROVE  ServerTypeOK' /\ TaskTypeOK' /\ PhoneTypeOK' /\ NotesTypeOK'
    OBVIOUS
  <1> USE DEF BleTypeInv
  <1>1. \A h \in Handles : [of |-> "handle", value |-> h] \in Notifications
    BY DEF Notifications
  <1>2. CASE LockModem
    <2>1. ble_pc' \in {"open", "wait"} /\ refused' \in BOOLEAN
      BY <1>2 DEF LockModem, Locked, LockRefused, NotesTypeOK
    <2> QED
      BY <1>2, <2>1 DEF LockModem, ServerTypeOK, TaskTypeOK, PhoneTypeOK, NotesTypeOK, BlePcs
  <1>3. CASE UnlockModem
    BY <1>3 DEF UnlockModem, ServerTypeOK, TaskTypeOK, PhoneTypeOK, NotesTypeOK, BlePcs
  <1>4. CASE OpenModem
    <2>1. air' \in Seq(Notifications)
      BY <1>1, <1>4, NotifyType DEF OpenModem, UpdateHandle
    <2> QED
      BY <1>4, <2>1 DEF OpenModem, UpdateHandle, ServerTypeOK, TaskTypeOK, PhoneTypeOK,
                        NotesTypeOK, BlePcs
  <1>5. CASE CloseModem
    <2>1. INVALID_HANDLE \in Handles
      BY DEF Handles
    <2>2. air' \in Seq(Notifications)
      BY <1>1, <1>5, <2>1, NotifyType DEF CloseModem, UpdateHandle, PhoneTypeOK
    <2> QED
      BY <1>5, <2>1, <2>2 DEF CloseModem, UpdateHandle, ServerTypeOK, TaskTypeOK,
                              PhoneTypeOK, NotesTypeOK, BlePcs
  <1> QED
    BY <1>2, <1>3, <1>4, <1>5

\* The steps of the task that take a message and put a request together.
LEMMA RequestStepsType ==
    BleTypeInv /\ (GetMessage \/ ReadHeader \/ CopyChunk \/ SendAck)
        => ServerTypeOK' /\ TaskTypeOK' /\ PhoneTypeOK' /\ NotesTypeOK'
  <1> SUFFICES ASSUME BleTypeInv, GetMessage \/ ReadHeader \/ CopyChunk \/ SendAck
               PROVE  ServerTypeOK' /\ TaskTypeOK' /\ PhoneTypeOK' /\ NotesTypeOK'
    OBVIOUS
  <1> USE DEF BleTypeInv
  <1>1. CASE GetMessage
    <2>1. s_queue' \in Seq(BleMessages) /\ Len(s_queue') <= BLE_MODEM_TASK_QUEUE_SIZE
      BY <1>1, HeadTailProperties, LenProperties, EmptySeq, BleAssumption
         DEF GetMessage, TaskTypeOK
    <2>2. ble_pc' \in {"lock", "wait", "close", "header"}
      BY <1>1 DEF GetMessage
    <2> QED
      BY <1>1, <2>1, <2>2 DEF GetMessage, ServerTypeOK, TaskTypeOK, PhoneTypeOK, NotesTypeOK,
                              BlePcs
  <1>2. CASE ReadHeader
    <2>1. CASE modem_transreceive.kind = "request"
      <3>1. modem_transreceive \in RequestChunks
        BY <2>1 DEF ServerTypeOK, ResponseChunks, NoChunk
      <3>2. chunk' \in [handle : Handles, indicator : Indicators]
        BY <1>2, <2>1, <3>1 DEF ReadHeader, RequestChunks
      <3> QED
        BY <1>2, <2>1, <3>1, <3>2 DEF ReadHeader, ServerTypeOK, TaskTypeOK, PhoneTypeOK,
                                      NotesTypeOK, BlePcs
    <2>2. CASE modem_transreceive.kind # "request"
      BY <1>2, <2>2 DEF ReadHeader, ServerTypeOK, TaskTypeOK, PhoneTypeOK, NotesTypeOK, BlePcs
    <2> QED
      BY <2>1, <2>2
  <1>3. CASE CopyChunk
    <2> DEFINE c == modem_transreceive
               item == [request |-> c.request, part |-> c.part]
               before == IF chunk.indicator = "FIRST" THEN <<>> ELSE s_dataArray
    <2>1. item \in [request : Nat, part : Nat]
      BY <1>3 DEF CopyChunk, TaskTypeOK, RequestChunks
    <2>2. before \in Seq([request : Nat, part : Nat])
      BY DEF TaskTypeOK
    <2>3. s_dataArray' = Append(before, item)
      BY <1>3 DEF CopyChunk
    <2>4. s_dataArray' \in Seq([request : Nat, part : Nat]) /\ s_dataArray' # <<>>
      BY <2>1, <2>2, <2>3, AppendProperties
    <2> QED
      BY <1>3, <2>4 DEF CopyChunk, ServerTypeOK, TaskTypeOK, PhoneTypeOK, NotesTypeOK, BlePcs
  <1>4. CASE SendAck
    <2>1. [of |-> "ack", value |-> 1] \in Notifications
      BY DEF Notifications
    <2>2. air' \in Seq(Notifications)
      BY <1>4, <2>1, NotifyType DEF SendAck
    <2> QED
      BY <1>4, <2>2 DEF SendAck, ServerTypeOK, TaskTypeOK, PhoneTypeOK, NotesTypeOK, BlePcs
  <1> QED
    BY <1>1, <1>2, <1>3, <1>4

\* The payload is what is left of the MTU, and of the attribute.
LEMMA PayloadType == ServerTypeOK => PayloadSize \in Nat
  BY BleAssumption DEF ServerTypeOK, PayloadSize, Overhead, RESPONSE_CHUNK_HEADER_SIZE,
                       GATT_NOTIFICATION_RESERVED_SIZE

LEMMA SimTransReceiveType ==
    BleTypeInv /\ SimTransReceive
        => ServerTypeOK' /\ TaskTypeOK' /\ PhoneTypeOK' /\ NotesTypeOK'
  <1> SUFFICES ASSUME BleTypeInv, SimTransReceive
               PROVE  ServerTypeOK' /\ TaskTypeOK' /\ PhoneTypeOK' /\ NotesTypeOK'
    OBVIOUS
  <1> USE DEF BleTypeInv
  <1> DEFINE request == s_dataArray[Len(s_dataArray)].request
             Typed ==
               /\ given' \in [request : Nat, len : Nat] /\ refused' \in BOOLEAN
               /\ response' \in [request : Nat, len : Nat, remainder : Nat, payload : Nat]
               /\ response'.remainder <= response'.len
               /\ s_dataArray' \in Seq([request : Nat, part : Nat])
               /\ ble_pc' = "wait" \/ (ble_pc' = "respond" /\ s_dataArray' = s_dataArray)
  <1>1. request \in Nat
    <2>1. s_dataArray \in Seq([request : Nat, part : Nat]) /\ s_dataArray # <<>>
      BY DEF SimTransReceive, TaskTypeOK
    <2>2. Len(s_dataArray) \in 1 .. Len(s_dataArray)
      BY <2>1, LenProperties, EmptySeq
    <2>3. s_dataArray[Len(s_dataArray)] \in [request : Nat, part : Nat]
      BY <2>1, <2>2, ElementOfSeq
    <2> QED
      BY <2>3
  <1> HIDE DEF request
  <1>2. RequestDone => s_dataArray' \in Seq([request : Nat, part : Nat])
    BY EmptySeq DEF RequestDone
  <1>3. response \in [request : Nat, len : Nat, remainder : Nat, payload : Nat]
           /\ response.remainder <= response.len
    BY DEF TaskTypeOK
  <1>4. Typed
    <2>1. CASE /\ ble_pc' = "wait" /\ refused' = TRUE /\ RequestDone
               /\ UNCHANGED <<response, given>>
      BY <1>2, <1>3, <2>1 DEF NotesTypeOK
    <2>2. ASSUME NEW len \in ResponseLens,
                 given' = [request |-> request, len |-> len],
                 IF g_conn_id # 0 /\ "transreceive" \in notify_enabled
                 THEN /\ response' = [request |-> request, len |-> len, remainder |-> len,
                                      payload |-> PayloadSize]
                      /\ ble_pc' = "respond"
                      /\ UNCHANGED s_dataArray
                 ELSE ble_pc' = "wait" /\ RequestDone /\ UNCHANGED response,
                 UNCHANGED refused
          PROVE  Typed
      <3>1. len \in Nat /\ PayloadSize \in Nat
        BY BleAssumption, PayloadType
      <3>2. given' \in [request : Nat, len : Nat] /\ refused' \in BOOLEAN
        BY <1>1, <2>2, <3>1 DEF NotesTypeOK
      <3>3. CASE g_conn_id # 0 /\ "transreceive" \in notify_enabled
        <4>1. s_dataArray \in Seq([request : Nat, part : Nat])
          BY DEF TaskTypeOK
        <4> QED
          BY <1>1, <2>2, <3>1, <3>2, <3>3, <4>1
      <3>4. CASE ~(g_conn_id # 0 /\ "transreceive" \in notify_enabled)
        BY <1>2, <1>3, <2>2, <3>2, <3>4
      <3> QED
        BY <3>3, <3>4
    <2> QED
      BY <2>1, <2>2 DEF SimTransReceive, request
  <1> QED
    BY <1>4 DEF SimTransReceive, ServerTypeOK, TaskTypeOK, PhoneTypeOK, NotesTypeOK, BlePcs

\* update_gatt_db_modem_transreceive(): no more is sent than is left.
LEMMA ChunkSizeBound ==
    TaskTypeOK => ChunkSize \in Nat /\ ChunkSize <= response.remainder
  BY DEF TaskTypeOK, ChunkSize

LEMMA SendResponseChunkType ==
    BleTypeInv /\ SendResponseChunk
        => ServerTypeOK' /\ TaskTypeOK' /\ PhoneTypeOK' /\ NotesTypeOK'
  <1> SUFFICES ASSUME BleTypeInv, SendResponseChunk
               PROVE  ServerTypeOK' /\ TaskTypeOK' /\ PhoneTypeOK' /\ NotesTypeOK'
    OBVIOUS
  <1> USE DEF BleTypeInv
  <1> DEFINE c == [kind |-> "response", indicator |-> Indicator, request |-> response.request,
                   from |-> response.len - response.remainder, size |-> ChunkSize]
             n == [of |-> "transreceive", value |-> c]
  <1>1. c \in ResponseChunks
    BY ChunkSizeBound DEF TaskTypeOK, ResponseChunks, Indicator, Indicators
  <1>2. air' \in Seq(Notifications)
    <2>1. n \in Notifications
      BY <1>1 DEF Notifications
    <2>2. air' = IF g_conn_id # 0 THEN Append(air, n) ELSE air
      BY DEF SendResponseChunk
    <2> QED
      BY <2>1, <2>2, AppendProperties DEF PhoneTypeOK
  <1>3. /\ response' \in [request : Nat, len : Nat, remainder : Nat, payload : Nat]
        /\ response'.remainder <= response'.len
    <2>1. CASE response' = NoResponse
      BY <2>1 DEF NoResponse
    <2>2. CASE response' = [response EXCEPT !.remainder = @ - ChunkSize]
      <3> DEFINE left == response.remainder - ChunkSize
      <3>1. left \in Nat /\ left <= response.remainder
        BY ChunkSizeBound DEF TaskTypeOK
      <3>2. response' = [response EXCEPT !.remainder = left]
        BY <2>2
      <3>3. response \in [request : Nat, len : Nat, remainder : Nat, payload : Nat]
               /\ response.remainder <= response.len
        BY DEF TaskTypeOK
      <3> HIDE DEF left
      <3>4. response' \in [request : Nat, len : Nat, remainder : Nat, payload : Nat]
        BY <3>1, <3>2, <3>3
      <3>5. response'.remainder = left /\ response'.len = response.len
        BY <3>2, <3>3
      <3>6. response.remainder \in Nat /\ response.len \in Nat
        BY <3>3
      <3> QED
        BY <3>1, <3>3, <3>4, <3>5, <3>6
    <2> QED
      BY <2>1, <2>2 DEF SendResponseChunk
  <1>4. /\ s_dataArray' \in Seq([request : Nat, part : Nat])
        /\ ble_pc' = "wait" \/ (ble_pc' = "respond" /\ s_dataArray' = s_dataArray)
    <2>1. CASE RequestDone /\ ble_pc' = "wait"
      BY <2>1, EmptySeq DEF RequestDone
    <2>2. CASE UNCHANGED <<s_dataArray, ble_pc>>
      BY <2>2 DEF SendResponseChunk, TaskTypeOK
    <2> QED
      BY <2>1, <2>2 DEF SendResponseChunk
  <1>5. modem_transreceive' = c
    BY DEF SendResponseChunk
  <1> HIDE DEF c
  <1> QED
    BY <1>1, <1>2, <1>3, <1>4, <1>5 DEF SendResponseChunk, ServerTypeOK, TaskTypeOK,
       PhoneTypeOK, NotesTypeOK, BlePcs

\* The task.
LEMMA TaskStepsType ==
    BleTypeInv /\ BleModemTaskStep
        => ServerTypeOK' /\ TaskTypeOK' /\ PhoneTypeOK' /\ NotesTypeOK'
  BY ModemStepsType, RequestStepsType, SimTransReceiveType, SendResponseChunkType
     DEF BleModemTaskStep

\* The stack's thread puts a message.
LEMMA NotifyTaskType ==
    BleTypeInv /\ ble_modem_task_notify
        => ServerTypeOK' /\ TaskTypeOK' /\ PhoneTypeOK' /\ NotesTypeOK'
  <1> SUFFICES ASSUME BleTypeInv, ble_modem_task_notify
               PROVE  ServerTypeOK' /\ TaskTypeOK' /\ PhoneTypeOK' /\ NotesTypeOK'
    OBVIOUS
  <1> USE DEF BleTypeInv
  <1>1. to_notify \in BleMessages
    BY DEF ble_modem_task_notify, HandlersIdle, ServerTypeOK
  <1>2. s_queue \in Seq(BleMessages) /\ Len(s_queue) <= BLE_MODEM_TASK_QUEUE_SIZE
    BY DEF TaskTypeOK
  <1>3. /\ Append(s_queue, to_notify) \in Seq(BleMessages)
        /\ Len(Append(s_queue, to_notify)) = Len(s_queue) + 1 /\ Len(s_queue) \in Nat
    BY <1>1, <1>2, AppendProperties, LenProperties
  <1>4. s_queue' \in Seq(BleMessages) /\ Len(s_queue') <= BLE_MODEM_TASK_QUEUE_SIZE
    BY <1>2, <1>3, BleAssumption DEF ble_modem_task_notify
  <1> QED
    BY <1>4 DEF ble_modem_task_notify, ServerTypeOK, TaskTypeOK, PhoneTypeOK, NotesTypeOK

\* A chunk of a request, cut as the phone cuts it.
LEMMA RequestChunkType ==
    ASSUME NEW handle \in Handles, NEW request \in Nat, NEW part \in Nat, NEW size \in Nat
    PROVE  RequestChunk(handle, request, part, size) \in RequestChunks
  BY DEF RequestChunk, RequestChunks, IndicatorOf, Indicators

\* What the phone does moves it from one place to another.
LEMMA PhoneMoves ==
    ASSUME NEW p \in Phones, NEW pc \in PhonePcs
    PROVE  /\ [p EXCEPT !.pc = pc] \in Phones
           /\ \A h \in Handles : [p EXCEPT !.pc = pc, !.handle = h] \in Phones
           /\ \A part \in Nat : [p EXCEPT !.pc = pc, !.part = part] \in Phones
  BY DEF Phones

\* The phone connects, sets up and disconnects.
LEMMA ConnectionStepsType ==
    BleTypeInv /\ (PhoneConnects \/ PhoneDisconnects \/ PhoneSetsUp)
        => ServerTypeOK' /\ TaskTypeOK' /\ PhoneTypeOK' /\ NotesTypeOK'
  <1> SUFFICES ASSUME BleTypeInv, PhoneConnects \/ PhoneDisconnects \/ PhoneSetsUp
               PROVE  ServerTypeOK' /\ TaskTypeOK' /\ PhoneTypeOK' /\ NotesTypeOK'
    OBVIOUS
  <1> USE DEF BleTypeInv
  <1>0. phone \in Phones /\ INVALID_HANDLE \in Handles /\ {"off", "setup"} \subseteq PhonePcs
    BY DEF PhoneTypeOK, Handles, PhonePcs
  <1>1. CASE PhoneConnects
    <2>1. phone' \in Phones
      BY <1>0, <1>1, PhoneMoves DEF PhoneConnects
    <2>2. connections' \in Nat /\ g_conn_id' \in 0 .. MaxConnections
      BY <1>1, BleBoundAssumption DEF PhoneConnects, Connected, NotesTypeOK
    <2> QED
      BY <1>1, <2>1, <2>2 DEF PhoneConnects, Connected, ServerTypeOK, TaskTypeOK, PhoneTypeOK,
         NotesTypeOK
  <1>2. CASE PhoneDisconnects
    <2>1. phone' \in Phones
      BY <1>0, <1>2, PhoneMoves DEF PhoneDisconnects
    <2>2. air' \in Seq(Notifications) /\ interrupted' \in BOOLEAN
      BY <1>2, EmptySeq DEF PhoneDisconnects, NotesTypeOK
    <2>3. 0 \in 0 .. MaxConnections
      BY BleBoundAssumption
    <2> QED
      BY <1>2, <2>1, <2>2, <2>3 DEF PhoneDisconnects, Disconnected, ServerTypeOK, TaskTypeOK,
         PhoneTypeOK, NotesTypeOK
  <1>3. CASE PhoneSetsUp
    <2>1. phone' \in Phones
      BY <1>3 DEF Phones, PhoneSetsUp, PhoneTypeOK, PhonePcs
    <2>2. /\ UNCHANGED <<g_conn_id, modem_close, modem_handle, modem_transreceive, s_queue,
                         taskVars, air, interrupted, refused, given, fault, bleBoundVars,
                         to_notify>>
          /\ g_mtu' = g_mtu \/ g_mtu' \in ClientMtus
          /\ notify_enabled' \subseteq Notifying
      BY <1>3 DEF PhoneSetsUp, EnableNotification, ExchangeMtu, ServerTypeOK
    <2> QED
      BY <2>1, <2>2 DEF ServerTypeOK, TaskTypeOK, PhoneTypeOK, NotesTypeOK
  <1> QED
    BY <1>1, <1>2, <1>3

\* The phone writes.
LEMMA WriteStepsType ==
    BleTypeInv /\ (PhoneOpens \/ PhoneCloses \/ PhoneRequests \/ PhoneContinues \/ PhoneGivesUp)
        => ServerTypeOK' /\ TaskTypeOK' /\ PhoneTypeOK' /\ NotesTypeOK'
  <1> SUFFICES ASSUME BleTypeInv,
                      PhoneOpens \/ PhoneCloses \/ PhoneRequests \/ PhoneContinues
                          \/ PhoneGivesUp
               PROVE  ServerTypeOK' /\ TaskTypeOK' /\ PhoneTypeOK' /\ NotesTypeOK'
    OBVIOUS
  <1> USE DEF BleTypeInv
  <1>0. phone \in Phones /\ {"opening", "acking"} \subseteq PhonePcs
    BY DEF PhoneTypeOK, PhonePcs
  <1>1. CASE PhoneOpens
    <2>1. phone' \in Phones
      BY <1>0, <1>1, PhoneMoves DEF PhoneOpens
    <2>2. opens' = opens + 1 /\ opens \in Nat
      BY <1>1 DEF PhoneOpens, NotesTypeOK
    <2>3. opens' \in Nat
      BY <2>2
    <2> QED
      BY <1>1, <2>1, <2>3 DEF PhoneOpens, WriteOpen, ServerTypeOK, TaskTypeOK, PhoneTypeOK,
         NotesTypeOK, BleMessages
  <1>2. CASE PhoneCloses
    BY <1>2 DEF PhoneCloses, WriteClose, ServerTypeOK, TaskTypeOK, PhoneTypeOK, NotesTypeOK,
       Phones, PhonePcs, BleMessages
  <1>3. CASE PhoneRequests
    <2>1. PICK size \in RequestSizes :
            /\ WriteTransReceive(RequestChunk(phone.handle, requests', 1, size))
            /\ phone' = [phone EXCEPT !.pc = "acking", !.part = 1, !.size = size,
                                      !.got = <<>>, !.complete = FALSE]
      BY <1>3 DEF PhoneRequests
    <2>2. size \in Nat /\ requests' \in Nat /\ phone.handle \in Handles
      <3>1. size \in Nat
        BY BleAssumption
      <3>2. requests' \in Nat
        <4>1. requests' = requests + 1 /\ requests \in Nat
          BY <1>3 DEF PhoneRequests, NotesTypeOK
        <4> QED
          BY <4>1
      <3> QED
        BY <1>0, <3>1, <3>2 DEF Phones
    <2>3. modem_transreceive' \in RequestChunks
      BY <2>1, <2>2, RequestChunkType DEF WriteTransReceive
    <2>4. phone' \in Phones
      BY <1>0, <2>1, <2>2, EmptySeq DEF Phones
    <2> QED
      BY <1>3, <2>1, <2>2, <2>3, <2>4 DEF PhoneRequests, WriteTransReceive, ServerTypeOK,
         TaskTypeOK, PhoneTypeOK, NotesTypeOK, BleMessages
  <1>4. CASE PhoneContinues
    <2>1. /\ phone.handle \in Handles /\ phone.part + 1 \in Nat /\ phone.size \in Nat
          /\ requests \in Nat
      BY <1>0 DEF Phones, NotesTypeOK
    <2>2. modem_transreceive' \in RequestChunks
      BY <1>4, <2>1, RequestChunkType DEF PhoneContinues, WriteTransReceive
    <2>3. phone' \in Phones
      BY <1>0, <1>4, <2>1, PhoneMoves DEF PhoneContinues
    <2> QED
      BY <1>4, <2>2, <2>3 DEF PhoneContinues, WriteTransReceive, ServerTypeOK, TaskTypeOK,
         PhoneTypeOK, NotesTypeOK, BleMessages
  <1>5. CASE PhoneGivesUp
    <2>1. phone' \in Phones
      BY <1>0, <1>5 DEF PhoneGivesUp, Phones, PhonePcs
    <2>2. UNCHANGED <<gattVars, modem_close, modem_handle, modem_transreceive, s_queue, taskVars,
                      air, interrupted, refused, given, fault, bleBoundVars>>
      BY <1>5 DEF PhoneGivesUp
    <2> QED
      BY <2>1, <2>2 DEF ServerTypeOK, TaskTypeOK, PhoneTypeOK, NotesTypeOK
  <1> QED
    BY <1>1, <1>2, <1>3, <1>4, <1>5

\* The phone takes a notification.
LEMMA PhoneReceivesType ==
    BleTypeInv /\ PhoneReceives
        => ServerTypeOK' /\ TaskTypeOK' /\ PhoneTypeOK' /\ NotesTypeOK'
  <1> SUFFICES ASSUME BleTypeInv, PhoneReceives
               PROVE  ServerTypeOK' /\ TaskTypeOK' /\ PhoneTypeOK' /\ NotesTypeOK'
    OBVIOUS
  <1> USE DEF BleTypeInv
  <1> DEFINE n == Head(air)
  <1>1. n \in Notifications /\ air' \in Seq(Notifications)
    BY HeadTailProperties DEF PhoneReceives, PhoneTypeOK
  <1>2. phone \in Phones
    BY DEF PhoneTypeOK
  <1>3. \A c \in ResponseChunks : Received(c) \in Phones
    <2> SUFFICES ASSUME NEW c \in ResponseChunks PROVE Received(c) \in Phones
      OBVIOUS
    <2> DEFINE bytes == [i \in 1 .. c.size |-> c.from + i]
               got == IF c.indicator = "FIRST" THEN bytes ELSE phone.got \o bytes
    <2>1. c.size \in Nat /\ c.from \in Nat
      BY DEF ResponseChunks
    <2>2. bytes \in Seq(Nat)
      BY <2>1
    <2>3. got \in Seq(Nat)
      BY <1>2, <2>2, ConcatProperties DEF Phones
    <2>4. Received(c) = [phone EXCEPT !.got = got, !.complete = (c.indicator = "LAST"),
                                  !.pc = IF c.indicator = "LAST" THEN "ready" ELSE "answer"]
      BY DEF Received
    <2> HIDE DEF got
    <2> QED
      BY <1>2, <2>3, <2>4 DEF Phones, PhonePcs
  <1>4. phone' \in Phones
    <2>1. CASE n.of = "handle"
      <3>1. n.value \in Handles
        BY <1>1, <2>1 DEF Notifications
      <3>2. phone' = [phone EXCEPT !.handle = n.value,
                                !.pc = IF @ \in {"opening", "closing"} THEN "ready" ELSE @]
        BY <2>1 DEF PhoneReceives
      <3> QED
        BY <1>2, <3>1, <3>2 DEF Phones, PhonePcs
    <2>2. CASE n.of = "ack"
      <3>1. phone' = phone \/
            phone' = [phone EXCEPT !.pc = IF phone.part = phone.size THEN "answer" ELSE "next"]
        BY <2>2 DEF PhoneReceives
      <3> QED
        BY <1>2, <3>1 DEF Phones, PhonePcs
    <2>3. CASE n.of = "transreceive"
      <3>1. n.value \in ResponseChunks
        BY <1>1, <2>3 DEF Notifications
      <3>2. phone' = phone \/ phone' = Received(n.value)
        BY <2>3 DEF PhoneReceives
      <3> QED
        BY <1>2, <1>3, <3>1, <3>2
    <2> QED
      BY <1>1, <2>1, <2>2, <2>3 DEF Notifications
  <1> QED
    BY <1>1, <1>4 DEF PhoneReceives, ServerTypeOK, TaskTypeOK, PhoneTypeOK, NotesTypeOK

\* The PPP connection.
LEMMA PppChangesType ==
    BleTypeInv /\ PppChanges
        => ServerTypeOK' /\ TaskTypeOK' /\ PhoneTypeOK' /\ NotesTypeOK'
  BY DEF BleTypeInv, PppChanges, ServerTypeOK, TaskTypeOK, PhoneTypeOK, NotesTypeOK

\* The program's own types, whatever the phone, the PPP connection and the modem do.
LEMMA TypesHold == BleSpec => []BleTypeInv
  <1>1. BleInit => BleTypeInv
    BY TypeInit
  <1>2. BleTypeInv /\ ModeInv' /\ [BleNext]_bleVars => BleTypeInv'
    <2> SUFFICES ASSUME BleTypeInv, ModeInv', [BleNext]_bleVars PROVE BleTypeInv'
      OBVIOUS
    <2>1. ModeTypeOK'
      BY DEF ModeInv
    <2>2. ServerTypeOK' /\ TaskTypeOK' /\ PhoneTypeOK' /\ NotesTypeOK'
      <3>1. CASE UNCHANGED bleVars
        BY <3>1 DEF BleTypeInv, ServerTypeOK, TaskTypeOK, PhoneTypeOK, NotesTypeOK
      <3> QED
        BY <3>1, TaskStepsType, NotifyTaskType, ConnectionStepsType, WriteStepsType,
           PhoneReceivesType, PppChangesType DEF BleNext, PhoneStep
    <2> QED
      BY <2>1, <2>2 DEF BleTypeInv
  <1> QED
    BY <1>1, <1>2, ModeCorrect, PTL DEF BleSpec

\* The variables of GattServer, BleModemTask and BleModem have their types; the queue never holds
\* more messages than its size.
THEOREM BleTypeCorrect == BleSpec => []BleTypeOK
  <1>1. BleTypeInv => BleTypeOK
    BY DEF BleTypeInv, BleTypeOK, ServerTypeOK, TaskTypeOK, PhoneTypeOK, NotesTypeOK,
           ModeTypeOK, Notifications, Phones
  <1> QED
    BY <1>1, TypesHold, PTL
=============================================================================
