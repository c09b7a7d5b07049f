---------------------------- MODULE BleExchangeProofs ----------------------------
(***************************************************************************)
(* The exchange between the phone, the GATT server and the BLE modem task: *)
(* what is under way at every moment between a write and the notification  *)
(* that ends it, what follows for requests and responses, and that all     *)
(* three together implement ModemService.                                  *)
(***************************************************************************)
EXTENDS BleProofs

\* The tuples of UNCHANGED are abbreviations.
USE DEF gattVars, modeVars, taskVars, bleBoundVars, phoneUnchanged, bleVars

-----------------------------------------------------------------------------
(* The exchange *)

\* No message on its way to the task.
Nothing == to_notify = "none" /\ s_queue = <<>>

\* One message on its way: the handler is about to put it, or it is in the queue.
Pending(m) ==
    \/ to_notify = m /\ s_queue = <<>>
    \/ to_notify = "none" /\ s_queue = <<m>>

\* The task waits, or is about to when it has unlocked the modem.
Resting == ble_pc \in {"wait", "unlock"}

\* The first n chunks of the request.
Parts(n) == [p \in 1 .. n |-> [request |-> requests, part |-> p]]

\* A phone without a request; one that is ready knows the handle of the modem.
Idle ==
    /\ phone.pc \in {"off", "setup", "ready"}
    /\ phone.pc = "ready" => phone.handle = hModem
    /\ Nothing /\ Resting /\ air = <<>> /\ s_dataArray = <<>>

OpenAsked ==
    /\ phone.pc = "opening" /\ phone.handle = hModem
    /\ Pending("MODEM_OPEN") /\ Resting /\ air = <<>> /\ s_dataArray = <<>>

OpenRuns ==
    /\ phone.pc = "opening" /\ phone.handle = hModem /\ hModem = INVALID_HANDLE
    /\ Nothing /\ ble_pc \in {"lock", "open"} /\ air = <<>> /\ s_dataArray = <<>>

\* The handle has been sent, or the open refused or ignored.
OpenAnswered ==
    /\ phone.pc = "opening"
    /\ Nothing /\ ble_pc = "wait" /\ s_dataArray = <<>>
    /\ \/ air = <<[of |-> "handle", value |-> hModem]>>
       \/ air = <<>> /\ phone.handle = hModem /\ (refused \/ hModem # INVALID_HANDLE)

CloseAsked ==
    /\ phone.pc = "closing" /\ phone.handle = hModem /\ modem_close = hModem
    /\ air = <<>> /\ s_dataArray = <<>>
    /\ \/ Pending("MODEM_CLOSE") /\ Resting
       \/ Nothing /\ ble_pc = "close"

\* A handle has been sent, if there was one.
CloseAnswered ==
    /\ phone.pc = "closing" /\ hModem = INVALID_HANDLE
    /\ Nothing /\ Resting /\ s_dataArray = <<>>
    /\ \/ air = <<[of |-> "handle", value |-> INVALID_HANDLE]>>
       \/ air = <<>> /\ phone.handle = INVALID_HANDLE

\* A phone with a request under way, before the modem has it.
Requesting ==
    /\ 1 <= phone.part /\ phone.part <= phone.size
    /\ phone.handle = hModem /\ hModem # INVALID_HANDLE
    /\ phone.got = <<>>
    /\ given.request < requests /\ ~refused

\* A chunk is in the attribute and not yet copied.
ChunkAsked ==
    /\ phone.pc = "acking" /\ Requesting
    /\ modem_transreceive = RequestChunk(phone.handle, requests, phone.part, phone.size)
    /\ \/ Pending("MODEM_TRANSRECEIVE") /\ ble_pc = "wait"
       \/ Nothing /\ ble_pc = "header"
       \/ Nothing /\ ble_pc = "copy" /\ chunk.indicator = IndicatorOf(phone.part, phone.size)
    /\ air = <<>> /\ s_dataArray = Parts(phone.part - 1)

ChunkCopied ==
    /\ phone.pc = "acking" /\ Requesting
    /\ Nothing /\ ble_pc = "ack" /\ chunk.indicator = IndicatorOf(phone.part, phone.size)
    /\ air = <<>> /\ s_dataArray = Parts(phone.part)

\* Not the last chunk: the acknowledgement is sent, or the phone has had it.
ChunkAcked ==
    /\ Requesting /\ phone.part < phone.size
    /\ Nothing /\ ble_pc = "wait" /\ s_dataArray = Parts(phone.part)
    /\ \/ phone.pc = "acking" /\ air = <<[of |-> "ack", value |-> 1]>>
       \/ phone.pc = "next" /\ air = <<>>

\* The last chunk: the phone waits for the response, or will when it has had the
\* acknowledgement, which is then the first notification on its way.
Acks == IF phone.pc = "acking" THEN 1 ELSE 0

AwaitsResponse ==
    /\ phone.pc \in {"acking", "answer"}
    /\ phone.part = phone.size /\ 1 <= phone.size
    /\ phone.handle = hModem /\ hModem # INVALID_HANDLE
    /\ phone.pc = "acking" => /\ phone.got = <<>> /\ Len(air) >= 1
                              /\ air[1] = [of |-> "ack", value |-> 1]
    /\ Nothing

Executes ==
    /\ AwaitsResponse /\ Requesting
    /\ ble_pc = "sim" /\ Len(air) = Acks /\ s_dataArray = Parts(phone.size)

\* The chunks on their way: each begins where the one before it ends, and the first where what
\* the phone has received ends; only the last of all says that it is.
ChunkStart(i) ==
    IF i = Acks + 1 THEN Len(phone.got) ELSE air[i - 1].value.from + air[i - 1].value.size

StreamOf(whole) ==
    \A i \in Acks + 1 .. Len(air) :
        /\ air[i].of = "transreceive"
        /\ air[i].value.from = ChunkStart(i)
        /\ air[i].value.indicator = "FIRST" => air[i].value.from = 0
        /\ air[i].value.indicator = "LAST" <=> whole /\ i = Len(air)

StreamEnd == ChunkStart(Len(air) + 1)

Responds ==
    /\ AwaitsResponse
    /\ ble_pc = "respond"
    /\ given = [request |-> requests, len |-> response.len]
    /\ StreamOf(FALSE)
    /\ StreamEnd = response.len - response.remainder

\* The response has been sent, or there is none.
Responded ==
    /\ AwaitsResponse
    /\ ble_pc = "wait" /\ s_dataArray = <<>>
    /\ \/ refused /\ given.request < requests /\ Len(air) = Acks
       \/ /\ Len(air) > Acks
          /\ StreamOf(TRUE)
          /\ given = [request |-> requests, len |-> StreamEnd]

Stage ==
    \/ Idle
    \/ OpenAsked \/ OpenRuns \/ OpenAnswered
    \/ CloseAsked \/ CloseAnswered
    \/ ChunkAsked \/ ChunkCopied \/ ChunkAcked
    \/ Executes \/ Responds \/ Responded

\* The connection: the attribute is the task's handle, and a phone that has set up is notified.
ConnectionOK ==
    /\ modem_handle = hModem
    /\ g_conn_id # 0 <=> phone.pc # "off"
    /\ phone.pc \notin {"off", "setup"} => notify_enabled = Notifying

\* The modem is in command mode before it is opened, and is closed before it is unlocked.
ModemOK ==
    /\ ble_pc = "unlock" => hModem = INVALID_HANDLE
    /\ ble_pc = "open" => modem_mode = "COMMAND"
    /\ hModem # INVALID_HANDLE => modem_mode = "COMMAND"

\* What the phone has received.
ReceivedOK ==
    /\ given.request <= requests
    /\ phone.got = [i \in 1 .. Len(phone.got) |-> i]
    /\ phone.complete =>
           /\ phone.pc \notin {"acking", "next", "answer"}
           /\ given = [request |-> requests, len |-> Len(phone.got)]

Undisturbed ==
    /\ fault = "none"
    /\ Stage
    /\ ModemOK
    /\ ReceivedOK

ExchangeInv ==
    /\ ConnectionOK
    /\ ~interrupted => Undisturbed

-----------------------------------------------------------------------------
(* Sequences *)

\* A queue of one message, and its only message taken.
LEMMA OneMessage ==
    ASSUME NEW m \in BleMessages
    PROVE  /\ Append(<<>>, m) = <<m>>
           /\ <<m>> # <<>> /\ Head(<<m>>) = m /\ Tail(<<m>>) = <<>>
  OBVIOUS

\* A notification when none is on its way, and it is taken.
LEMMA OneNotification ==
    ASSUME NEW n \in Notifications
    PROVE  /\ Append(<<>>, n) = <<n>>
           /\ <<n>> # <<>> /\ Head(<<n>>) = n /\ Tail(<<n>>) = <<>>
           /\ Len(<<n>>) = 1 /\ <<n>>[1] = n
  OBVIOUS

\* Appending: the new element comes last, the others stay where they are.
LEMMA AppendAt ==
    ASSUME NEW S, NEW q \in Seq(S), NEW e \in S
    PROVE  /\ Len(q) \in Nat /\ Len(Append(q, e)) = Len(q) + 1
           /\ Append(q, e)[Len(q) + 1] = e
           /\ \A i \in 1 .. Len(q) : Append(q, e)[i] = q[i]
  BY AppendProperties, LenProperties

\* Taking the head: the others move up by one.
LEMMA TailAt ==
    ASSUME NEW S, NEW q \in Seq(S), q # <<>>
    PROVE  /\ Len(q) \in Nat \ {0}
           /\ Head(q) = q[1]
           /\ Len(Tail(q)) = Len(q) - 1
           /\ \A i \in 1 .. Len(q) - 1 : Tail(q)[i] = q[i + 1]
  BY HeadTailProperties, EmptySeq, LenProperties

\* Numbers appended to numbers.
LEMMA ConcatAt ==
    ASSUME NEW a \in Seq(Nat), NEW b \in Seq(Nat)
    PROVE  /\ a \o b \in Seq(Nat) /\ Len(a \o b) = Len(a) + Len(b)
           /\ \A i \in 1 .. Len(a) + Len(b) :
                 (a \o b)[i] = IF i <= Len(a) THEN a[i] ELSE b[i - Len(a)]
  BY ConcatProperties, Zenon

\* The request grows by its next chunk.
LEMMA NextPart ==
    ASSUME requests \in Nat, NEW n \in Nat
    PROVE  /\ Append(Parts(n), [request |-> requests, part |-> n + 1]) = Parts(n + 1)
           /\ Parts(0) = <<>>
           /\ Len(Parts(n)) = n
  <1> DEFINE Item == [request : Nat, part : Nat]
             item == [request |-> requests, part |-> n + 1]
  <1>1. \A k \in Nat : Parts(k) \in Seq(Item) /\ Len(Parts(k)) = k
    <2> SUFFICES ASSUME NEW k \in Nat PROVE Parts(k) \in Seq(Item) /\ Len(Parts(k)) = k
      OBVIOUS
    <2>1. \A p \in 1 .. k : [request |-> requests, part |-> p] \in Item
      OBVIOUS
    <2> QED
      BY <2>1 DEF Parts
  <1>2. item \in Item
    OBVIOUS
  <1>3. Append(Parts(n), item) \in Seq(Item) /\ Len(Append(Parts(n), item)) = n + 1
    BY <1>1, <1>2, AppendProperties
  <1>4. \A i \in 1 .. n + 1 : Append(Parts(n), item)[i] = Parts(n + 1)[i]
    <2> SUFFICES ASSUME NEW i \in 1 .. n + 1
                 PROVE  Append(Parts(n), item)[i] = Parts(n + 1)[i]
      OBVIOUS
    <2>1. CASE i = n + 1
      BY <1>1, <1>2, <2>1, AppendAt DEF Parts
    <2>2. CASE i \in 1 .. n
      <3>1. Append(Parts(n), item)[i] = Parts(n)[i]
        BY <1>1, <1>2, <2>2, AppendAt
      <3> QED
        BY <2>2, <3>1 DEF Parts
    <2>3. i = n + 1 \/ i \in 1 .. n
      OBVIOUS
    <2> QED
      BY <2>1, <2>2, <2>3
  <1>5. Append(Parts(n), item) = Parts(n + 1)
    <2> DEFINE longer == Append(Parts(n), item)
    <2>1. Parts(n + 1) \in Seq(Item) /\ Len(Parts(n + 1)) = n + 1
      BY <1>1
    <2>2. longer \in Seq(Item) /\ Len(longer) = n + 1
      BY <1>3
    <2>3. \A i \in 1 .. Len(longer) : longer[i] = Parts(n + 1)[i]
      BY <1>4, <2>2
    <2> HIDE DEF longer, Item
    <2>4. longer = Parts(n + 1)
      BY <2>1, <2>2, <2>3, SeqEqual
    <2> QED
      BY <2>4 DEF longer
  <1>6. Parts(0) = <<>>
    BY <1>1, EmptySeq
  <1> QED
    BY <1>1, <1>5, <1>6

-----------------------------------------------------------------------------
(* The exchange holds *)

LEMMA ExchangeInit == BleInit => ExchangeInv
  BY DEF BleInit, ExchangeInv, ConnectionOK, Undisturbed, Stage, Idle, Nothing, Resting, ModemOK,
         ReceivedOK

\* The stages at which the task has left cy_rtos_get_queue().
LEMMA StageByPlace ==
    Undisturbed =>
        /\ ble_pc \in {"lock", "open"} => OpenRuns
        /\ ble_pc = "close" => CloseAsked
        /\ ble_pc \in {"header", "copy"} => ChunkAsked
        /\ ble_pc = "ack" => ChunkCopied
        /\ ble_pc = "sim" => Executes
        /\ ble_pc = "respond" => Responds
        /\ ble_pc = "unlock" => Idle \/ OpenAsked \/ CloseAsked \/ CloseAnswered
  BY DEF Undisturbed, Stage, Idle, OpenAsked, OpenRuns, OpenAnswered, CloseAsked, CloseAnswered,
         ChunkAsked, ChunkCopied, ChunkAcked, Executes, Responds, Responded, Resting

\* The stages by what the phone does, and those with a message on its way.
LEMMA StageByPhone ==
    Undisturbed =>
        /\ phone.pc \in {"off", "setup", "ready"} => Idle
        /\ phone.pc = "opening" => OpenAsked \/ OpenRuns \/ OpenAnswered
        /\ phone.pc = "closing" => CloseAsked \/ CloseAnswered
        /\ phone.pc = "next" => ChunkAcked
        /\ phone.pc = "answer" => Executes \/ Responds \/ Responded
        /\ to_notify # "none" \/ s_queue # <<>> => OpenAsked \/ CloseAsked \/ ChunkAsked
  BY DEF Undisturbed, Stage, Idle, OpenAsked, OpenRuns, OpenAnswered, CloseAsked, CloseAnswered,
         ChunkAsked, ChunkCopied, ChunkAcked, Executes, Responds, Responded, Requesting,
         AwaitsResponse, Nothing

\* A phone that has set up is connected, and gets every notification.
LEMMA ConnectionStep ==
    BleTypeInv /\ ConnectionOK /\ [BleNext]_bleVars => ConnectionOK'
  <1> SUFFICES ASSUME BleTypeInv, ConnectionOK, [BleNext]_bleVars PROVE ConnectionOK'
    OBVIOUS
  <1> USE DEF ConnectionOK
  <1>1. CASE BleModemTaskStep
    BY <1>1 DEF BleModemTaskStep, GetMessage, LockModem, UnlockModem, OpenModem, CloseModem,
       UpdateHandle, ReadHeader, CopyChunk, SendAck, SimTransReceive, SendResponseChunk
  <1>2. CASE ble_modem_task_notify
    BY <1>2 DEF ble_modem_task_notify
  <1>3. CASE PppChanges \/ UNCHANGED bleVars
    BY <1>3 DEF PppChanges
  <1>4. CASE PhoneConnects
    BY <1>4 DEF PhoneConnects, Connected, BleTypeInv, PhoneTypeOK, NotesTypeOK, Phones
  <1>5. CASE PhoneDisconnects
    BY <1>5 DEF PhoneDisconnects, Disconnected, BleTypeInv, PhoneTypeOK, Phones
  <1>6. CASE PhoneSetsUp
    BY <1>6 DEF PhoneSetsUp, EnableNotification, ExchangeMtu, BleTypeInv, PhoneTypeOK, Phones
  <1>7. CASE PhoneOpens \/ PhoneCloses \/ PhoneRequests \/ PhoneContinues \/ PhoneGivesUp
    BY <1>7 DEF PhoneOpens, PhoneCloses, PhoneRequests, PhoneContinues, PhoneGivesUp, WriteOpen,
       WriteClose, WriteTransReceive, Waiting, BleTypeInv, PhoneTypeOK, Phones
  <1>8. CASE PhoneReceives
    <2>1. phone'.pc = "off" <=> phone.pc = "off"
      BY <1>8 DEF PhoneReceives, Received, BleTypeInv, PhoneTypeOK, Phones
    <2>2. phone.pc \in {"off", "setup"} <=> phone'.pc \in {"off", "setup"}
      BY <1>8 DEF PhoneReceives, Received, BleTypeInv, PhoneTypeOK, Phones
    <2> QED
      BY <1>8, <2>1, <2>2 DEF PhoneReceives
  <1> QED
    BY <1>1, <1>2, <1>3, <1>4, <1>5, <1>6, <1>7, <1>8 DEF BleNext, PhoneStep

\* ble_modem_task_notify(): the queue is empty when a message is put, so it is not full.
LEMMA NotifyTaskKeeps == Undisturbed /\ ble_modem_task_notify => Undisturbed'
  <1> SUFFICES ASSUME Undisturbed, ble_modem_task_notify PROVE Undisturbed'
    OBVIOUS
  <1>1. to_notify # "none" /\ to_notify' = "none"
    BY DEF ble_modem_task_notify, HandlersIdle
  <1>2. OpenAsked \/ CloseAsked \/ ChunkAsked
    BY <1>1, StageByPhone
  <1>3. s_queue = <<>> /\ to_notify \in BleMessages
    BY <1>1, <1>2 DEF OpenAsked, CloseAsked, ChunkAsked, Pending, Nothing, BleMessages
  <1>4. s_queue' = <<to_notify>> /\ UNCHANGED fault
    BY <1>3, OneMessage, BleAssumption DEF ble_modem_task_notify
  <1>5. UNCHANGED <<taskVars, modeVars, air, phone, modem_close, modem_transreceive, requests,
                    given, refused>>
    BY DEF ble_modem_task_notify
  <1>6. OpenAsked' \/ CloseAsked' \/ ChunkAsked'
    <2>1. \A m \in BleMessages : to_notify = m /\ s_queue = <<>> => Pending(m)'
      BY <1>1, <1>4 DEF Pending
    <2>2. CASE OpenAsked
      BY <1>1, <1>5, <2>1, <2>2 DEF OpenAsked, Pending, Resting, BleMessages
    <2>3. CASE CloseAsked
      BY <1>1, <1>5, <2>1, <2>3 DEF CloseAsked, Pending, Nothing, Resting, BleMessages
    <2>4. CASE ChunkAsked
      BY <1>1, <1>5, <2>1, <2>4 DEF ChunkAsked, Requesting, Parts, Pending, Nothing, BleMessages
    <2> QED
      BY <1>2, <2>2, <2>3, <2>4
  <1> QED
    BY <1>4, <1>5, <1>6 DEF Undisturbed, Stage, ModemOK, ReceivedOK

\* cy_rtos_get_queue(): the one message of the queue.
LEMMA GetMessageKeeps == BleTypeInv /\ Undisturbed /\ GetMessage => Undisturbed'
  <1> SUFFICES ASSUME BleTypeInv, Undisturbed, GetMessage PROVE Undisturbed'
    OBVIOUS
  <1>1. /\ ble_pc = "wait" /\ s_queue # <<>>
        /\ UNCHANGED <<hModem, chunk, s_dataArray, response, modeVars, air, phone, modem_close,
                       modem_transreceive, requests, given, refused, to_notify, fault>>
    BY DEF GetMessage
  <1>2. \A m \in BleMessages : s_queue = <<m>> => Head(s_queue) = m /\ s_queue' = <<>>
    BY OneMessage DEF GetMessage
  <1>3. OpenRuns' \/ OpenAnswered' \/ CloseAsked' \/ ChunkAsked'
    <2>1. CASE OpenAsked
      <3>1. s_queue = <<"MODEM_OPEN">> /\ to_notify = "none"
        BY <1>1, <2>1 DEF OpenAsked, Pending
      <3>2. Nothing' /\ ble_pc' = IF hModem = INVALID_HANDLE THEN "lock" ELSE "wait"
        BY <1>1, <1>2, <3>1 DEF GetMessage, Nothing, BleMessages
      <3> QED
        BY <1>1, <2>1, <3>2 DEF OpenAsked, OpenRuns, OpenAnswered
    <2>2. CASE CloseAsked
      <3>1. s_queue = <<"MODEM_CLOSE">> /\ to_notify = "none"
        BY <1>1, <2>2 DEF CloseAsked, Pending
      <3>2. Nothing' /\ ble_pc' = "close"
        BY <1>1, <1>2, <3>1 DEF GetMessage, Nothing, BleMessages
      <3> QED
        BY <1>1, <2>2, <3>2 DEF CloseAsked
    <2>3. CASE ChunkAsked
      <3>1. s_queue = <<"MODEM_TRANSRECEIVE">> /\ to_notify = "none"
        BY <1>1, <2>3 DEF ChunkAsked, Pending
      <3>2. Nothing' /\ ble_pc' = "header"
        BY <1>1, <1>2, <3>1 DEF GetMessage, Nothing, BleMessages
      <3> QED
        BY <1>1, <2>3, <3>2 DEF ChunkAsked, Requesting, Parts
    <2> QED
      BY <1>1, <2>1, <2>2, <2>3, StageByPhone
  <1>4. ble_pc' \notin {"open", "unlock"}
    BY DEF GetMessage
  <1> QED
    BY <1>1, <1>3, <1>4 DEF Undisturbed, Stage, ModemOK, ReceivedOK

\* ble_lock_modem(): command mode before the modem is opened, or a refusal.
LEMMA LockKeeps == Undisturbed /\ LockModem => Undisturbed'
  <1> SUFFICES ASSUME Undisturbed, LockModem PROVE Undisturbed'
    OBVIOUS
  <1>1. OpenRuns
    BY StageByPlace DEF LockModem
  <1>2. UNCHANGED <<hModem, chunk, s_dataArray, response, air, phone, modem_close,
                    modem_transreceive, requests, given, to_notify, s_queue, fault>>
    BY DEF LockModem
  <1>3. \/ ble_pc' = "open" /\ modem_mode' = "COMMAND"
        \/ ble_pc' = "wait" /\ refused'
    BY DEF LockModem, Locked, LockRefused
  <1>4. OpenRuns' \/ OpenAnswered'
    BY <1>1, <1>2, <1>3 DEF OpenRuns, OpenAnswered, Nothing
  <1>5. ModemOK'
    BY <1>1, <1>2, <1>3 DEF ModemOK, OpenRuns
  <1> QED
    BY <1>2, <1>4, <1>5 DEF Undisturbed, Stage, ReceivedOK

\* ble_unlock_modem(): the modem is closed.
LEMMA UnlockKeeps == Undisturbed /\ UnlockModem => Undisturbed'
  <1> SUFFICES ASSUME Undisturbed, UnlockModem PROVE Undisturbed'
    OBVIOUS
  <1>1. ble_pc = "unlock" /\ ble_pc' = "wait"
    BY DEF UnlockModem
  <1>2. UNCHANGED <<hModem, chunk, s_dataArray, response, air, phone, modem_close,
                    modem_transreceive, requests, given, refused, to_notify, s_queue, fault>>
    BY DEF UnlockModem
  <1>3. Idle' \/ OpenAsked' \/ CloseAsked' \/ CloseAnswered'
    BY <1>1, <1>2, StageByPlace DEF Idle, OpenAsked, CloseAsked, CloseAnswered, Nothing,
       Pending, Resting
  <1>4. ModemOK'
    BY <1>1, <1>2 DEF Undisturbed, ModemOK
  <1> QED
    BY <1>2, <1>3, <1>4 DEF Undisturbed, Stage, ReceivedOK

\* Modem_Open(): the phone is told the handle, or that there is none.
LEMMA OpenKeeps == BleTypeInv /\ ConnectionOK /\ Undisturbed /\ OpenModem => Undisturbed'
  <1> SUFFICES ASSUME BleTypeInv, ConnectionOK, Undisturbed, OpenModem PROVE Undisturbed'
    OBVIOUS
  <1>1. ble_pc = "open" /\ ble_pc' = "wait" /\ OpenRuns
    BY StageByPlace DEF OpenModem
  <1>2. UNCHANGED <<chunk, s_dataArray, response, phone, modem_close, modem_mode,
                    modem_transreceive, requests, given, refused, to_notify, s_queue, fault>>
    BY DEF OpenModem
  <1>3. air' = <<[of |-> "handle", value |-> hModem']>>
    <2>1. g_conn_id # 0 /\ "handle" \in notify_enabled /\ air = <<>>
      BY <1>1 DEF OpenRuns, ConnectionOK, Notifying
    <2> QED
      BY <2>1 DEF OpenModem, UpdateHandle, Notify
  <1>4. OpenAnswered'
    BY <1>1, <1>2, <1>3 DEF OpenRuns, OpenAnswered, Nothing
  <1>5. ModemOK'
    BY <1>1, <1>2 DEF Undisturbed, ModemOK
  <1> QED
    BY <1>2, <1>4, <1>5 DEF Undisturbed, Stage, ReceivedOK

\* Modem_Close(): the phone closes the modem it has opened, and is told if it has.
LEMMA CloseKeeps == BleTypeInv /\ ConnectionOK /\ Undisturbed /\ CloseModem => Undisturbed'
  <1> SUFFICES ASSUME BleTypeInv, ConnectionOK, Undisturbed, CloseModem PROVE Undisturbed'
    OBVIOUS
  <1>1. ble_pc = "close" /\ ble_pc' = "unlock" /\ CloseAsked
    BY StageByPlace DEF CloseModem
  <1>2. UNCHANGED <<chunk, s_dataArray, response, phone, modem_close, modem_mode,
                    modem_transreceive, requests, given, refused, to_notify, s_queue, fault>>
    BY DEF CloseModem
  <1>3. hModem' = INVALID_HANDLE
    BY <1>1 DEF CloseModem, CloseAsked
  <1>4. \/ air' = <<[of |-> "handle", value |-> INVALID_HANDLE]>>
        \/ air' = <<>> /\ hModem = INVALID_HANDLE
    <2>1. g_conn_id # 0 /\ "handle" \in notify_enabled /\ air = <<>> /\ modem_close = hModem
      BY <1>1 DEF CloseAsked, ConnectionOK, Notifying
    <2> QED
      BY <2>1 DEF CloseModem, UpdateHandle, Notify
  <1>5. Nothing /\ phone.pc = "closing" /\ phone.handle = hModem /\ s_dataArray = <<>>
    BY <1>1 DEF CloseAsked, Resting
  <1>6. CloseAnswered'
    BY <1>1, <1>2, <1>3, <1>4, <1>5 DEF CloseAnswered, Nothing, Resting
  <1>7. ModemOK'
    BY <1>1, <1>3 DEF ModemOK
  <1> QED
    BY <1>2, <1>6, <1>7 DEF Undisturbed, Stage, ReceivedOK

\* Reading a chunk: it is the one the phone has written, so no assertion fails and the modem's
\* handle is in it.
LEMMA ReadHeaderKeeps == BleTypeInv /\ Undisturbed /\ ReadHeader => Undisturbed'
  <1> SUFFICES ASSUME BleTypeInv, Undisturbed, ReadHeader PROVE Undisturbed'
    OBVIOUS
  <1>1. ble_pc = "header" /\ ChunkAsked
    BY StageByPlace DEF ReadHeader
  <1>2. UNCHANGED <<hModem, s_dataArray, response, modeVars, air, phone, modem_close,
                    modem_transreceive, requests, given, refused, to_notify, s_queue>>
    BY DEF ReadHeader
  <1>3. /\ modem_transreceive.kind = "request"
        /\ modem_transreceive.handle = hModem /\ hModem # INVALID_HANDLE
        /\ modem_transreceive.indicator = IndicatorOf(phone.part, phone.size)
    BY <1>1 DEF ChunkAsked, Requesting, RequestChunk
  <1>4. /\ ble_pc' = "copy" /\ UNCHANGED fault
        /\ chunk'.indicator = IndicatorOf(phone.part, phone.size)
    BY <1>3 DEF ReadHeader
  <1>5. ChunkAsked'
    BY <1>1, <1>2, <1>4 DEF ChunkAsked, Requesting, Parts, Nothing
  <1> QED
    BY <1>2, <1>4, <1>5 DEF Undisturbed, Stage, ModemOK, ReceivedOK

\* memcpy() of a chunk: a first chunk finds nothing, another one all before it.
LEMMA CopyChunkKeeps == BleTypeInv /\ Undisturbed /\ CopyChunk => Undisturbed'
  <1> SUFFICES ASSUME BleTypeInv, Undisturbed, CopyChunk PROVE Undisturbed'
    OBVIOUS
  <1>1. ble_pc = "copy" /\ ble_pc' = "ack" /\ ChunkAsked
    BY StageByPlace DEF CopyChunk
  <1>2. UNCHANGED <<hModem, chunk, response, modeVars, air, phone, modem_close,
                    modem_transreceive, requests, given, refused, to_notify, s_queue, fault>>
    BY DEF CopyChunk
  <1>3. /\ phone.part \in Nat /\ phone.size \in Nat /\ requests \in Nat
        /\ 1 <= phone.part /\ phone.part <= phone.size
    BY <1>1 DEF ChunkAsked, Requesting, BleTypeInv, PhoneTypeOK, NotesTypeOK, Phones
  <1>4. /\ Nothing /\ air = <<>> /\ s_dataArray = Parts(phone.part - 1)
        /\ chunk.indicator = IndicatorOf(phone.part, phone.size)
        /\ modem_transreceive.request = requests /\ modem_transreceive.part = phone.part
    BY <1>1 DEF ChunkAsked, RequestChunk, Nothing
  <1>5. chunk.indicator = "FIRST" => s_dataArray = <<>>
    <2>1. chunk.indicator = "FIRST" => phone.part = 1
      BY <1>4 DEF IndicatorOf
    <2>2. Parts(0) = <<>>
      BY <1>3, NextPart
    <2>3. phone.part = 1 => phone.part - 1 = 0
      OBVIOUS
    <2> QED
      BY <1>4, <2>1, <2>2, <2>3
  <1>6. s_dataArray' = Parts(phone.part)
    <2>1. s_dataArray' = Append(s_dataArray, [request |-> requests, part |-> phone.part])
      BY <1>4, <1>5 DEF CopyChunk
    <2>2. phone.part - 1 \in Nat /\ (phone.part - 1) + 1 = phone.part
      BY <1>3
    <2> QED
      BY <1>3, <1>4, <2>1, <2>2, NextPart
  <1>7. ChunkCopied'
    BY <1>1, <1>2, <1>4, <1>6 DEF ChunkAsked, ChunkCopied, Requesting, Nothing, Parts
  <1> QED
    BY <1>1, <1>2, <1>7 DEF Undisturbed, Stage, ModemOK, ReceivedOK

\* update_gatt_db_modem_ack(): the phone is told that the chunk is there; the modem executes the
\* request when it was the last.
LEMMA SendAckKeeps == BleTypeInv /\ ConnectionOK /\ Undisturbed /\ SendAck => Undisturbed'
  <1> SUFFICES ASSUME BleTypeInv, ConnectionOK, Undisturbed, SendAck PROVE Undisturbed'
    OBVIOUS
  <1>1. ble_pc = "ack" /\ ChunkCopied
    BY StageByPlace DEF SendAck
  <1>2. UNCHANGED <<hModem, chunk, s_dataArray, response, modeVars, phone, modem_close,
                    modem_transreceive, requests, given, refused, to_notify, s_queue, fault>>
    BY DEF SendAck
  <1>3. air' = <<[of |-> "ack", value |-> 1]>>
    <2>1. g_conn_id # 0 /\ "ack" \in notify_enabled /\ air = <<>>
      BY <1>1 DEF ChunkCopied, ConnectionOK, Notifying
    <2> QED
      BY <2>1 DEF SendAck, Notify
  <1>4. ble_pc' = IF phone.part = phone.size THEN "sim" ELSE "wait"
    BY <1>1 DEF SendAck, ChunkCopied, IndicatorOf
  <1>5. /\ phone.pc = "acking" /\ Requesting /\ Nothing /\ s_dataArray = Parts(phone.part)
        /\ phone.part \in Nat /\ phone.size \in Nat
    BY <1>1 DEF ChunkCopied, BleTypeInv, PhoneTypeOK, Phones
  <1>6. CASE phone.part = phone.size
    <2>1. Requesting' /\ Nothing'
      BY <1>2, <1>5 DEF Requesting, Nothing
    <2>2. Len(air') = 1 /\ air'[1] = [of |-> "ack", value |-> 1] /\ Acks' = 1
      BY <1>2, <1>3, <1>5 DEF Acks
    <2>3. s_dataArray' = Parts(phone.size)'
      BY <1>2, <1>5, <1>6 DEF Parts
    <2>4. Executes'
      BY <1>2, <1>4, <1>5, <1>6, <2>1, <2>2, <2>3 DEF Executes, AwaitsResponse, Requesting
    <2> QED
      BY <1>1, <1>2, <1>4, <1>6, <2>4 DEF Undisturbed, Stage, ModemOK, ReceivedOK
  <1>7. CASE phone.part # phone.size
    <2>1. phone.part < phone.size
      BY <1>5, <1>7 DEF Requesting
    <2>2. ChunkAcked'
      BY <1>2, <1>3, <1>4, <1>5, <1>7, <2>1 DEF ChunkAcked, Requesting, Nothing, Parts
    <2> QED
      BY <1>1, <1>2, <1>4, <1>7, <2>2 DEF Undisturbed, Stage, ModemOK, ReceivedOK
  <1> QED
    BY <1>6, <1>7

\* Modem_SimTransReceive(): the modem has the whole request, once; or it refuses.
LEMMA SimTransReceiveKeeps ==
    BleTypeInv /\ ConnectionOK /\ Undisturbed /\ SimTransReceive => Undisturbed'
  <1> SUFFICES ASSUME BleTypeInv, ConnectionOK, Undisturbed, SimTransReceive
               PROVE  Undisturbed'
    OBVIOUS
  <1>1. ble_pc = "sim" /\ Executes
    BY StageByPlace DEF SimTransReceive
  <1>2. UNCHANGED <<hModem, chunk, modeVars, air, phone, modem_close, modem_transreceive,
                    requests, to_notify, s_queue, fault>>
    BY DEF SimTransReceive
  <1>3. /\ AwaitsResponse /\ Requesting /\ Len(air) = Acks /\ s_dataArray = Parts(phone.size)
        /\ phone.got = <<>> /\ 1 <= phone.size /\ phone.size \in Nat /\ requests \in Nat
        /\ phone.pc \in {"acking", "answer"} /\ given.request < requests
    BY <1>1 DEF Executes, AwaitsResponse, Requesting, BleTypeInv, PhoneTypeOK, NotesTypeOK,
                Phones
  <1>4. AwaitsResponse' /\ Acks' = Acks
    BY <1>2, <1>3 DEF AwaitsResponse, Nothing, Acks
  <1>5. s_dataArray[Len(s_dataArray)].request = requests
    <2>1. Len(s_dataArray) = phone.size
      BY <1>3, NextPart
    <2> QED
      BY <1>3, <2>1 DEF Parts
  <1>6. CASE /\ ble_pc' = "wait" /\ refused' = TRUE /\ RequestDone
             /\ UNCHANGED <<response, given>>
    <2>1. Responded'
      BY <1>2, <1>3, <1>4, <1>6 DEF Responded, RequestDone
    <2> QED
      BY <1>2, <1>6, <2>1 DEF Undisturbed, Stage, ModemOK, ReceivedOK
  <1>7. ASSUME NEW len \in ResponseLens,
               given' = [request |-> requests, len |-> len],
               response'.len = len, response'.remainder = len,
               ble_pc' = "respond"
        PROVE  Undisturbed'
    <2>1. len \in Nat
      BY BleAssumption
    <2>2. StreamOf(FALSE)'
      BY <1>2, <1>3, <1>4, LenProperties DEF StreamOf, BleTypeInv, PhoneTypeOK, Acks
    <2>3. StreamEnd' = 0
      BY <1>2, <1>3, <1>4 DEF StreamEnd, ChunkStart
    <2>4. /\ given' = [request |-> requests', len |-> response'.len]
          /\ response'.len - response'.remainder = 0
      BY <1>2, <1>7, <2>1
    <2>5. Responds'
      BY <1>4, <1>7, <2>2, <2>3, <2>4 DEF Responds
    <2>6. ReceivedOK'
      BY <1>2, <1>3, <1>7 DEF Undisturbed, ReceivedOK
    <2> QED
      BY <1>2, <1>7, <2>5, <2>6 DEF Undisturbed, Stage, ModemOK
  <1>8. g_conn_id # 0 /\ "transreceive" \in notify_enabled
    BY <1>3 DEF ConnectionOK, Notifying
  <1>9. CASE \E len \in ResponseLens :
               /\ given' = [request |-> requests, len |-> len]
               /\ response' = [request |-> requests, len |-> len, remainder |-> len,
                               payload |-> PayloadSize]
               /\ ble_pc' = "respond"
    <2>1. PICK len \in ResponseLens :
               /\ given' = [request |-> requests, len |-> len]
               /\ response' = [request |-> requests, len |-> len, remainder |-> len,
                               payload |-> PayloadSize]
               /\ ble_pc' = "respond"
      BY <1>9
    <2> QED
      BY <1>7, <2>1
  <1> QED
    BY <1>5, <1>6, <1>8, <1>9 DEF SimTransReceive

\* The phone connects, sets up and disconnects.  A connection that ends while the phone waits
\* is an interruption.
LEMMA ConnectingKeeps ==
    BleTypeInv /\ ConnectionOK /\ Undisturbed /\ ~interrupted'
        /\ (PhoneConnects \/ PhoneDisconnects \/ PhoneSetsUp) => Undisturbed'
  <1> SUFFICES ASSUME BleTypeInv, ConnectionOK, Undisturbed, ~interrupted',
                      PhoneConnects \/ PhoneDisconnects \/ PhoneSetsUp
               PROVE  Undisturbed'
    OBVIOUS
  <1>1. phone.pc \in {"off", "setup", "ready"}
    BY DEF PhoneConnects, PhoneDisconnects, PhoneSetsUp, Waiting, BleTypeInv, PhoneTypeOK, Phones,
           PhonePcs
  <1>2. UNCHANGED <<hModem, ble_pc, s_dataArray, modem_mode, requests, given, to_notify, s_queue,
                    fault>>
    BY DEF PhoneConnects, PhoneDisconnects, PhoneSetsUp, Connected, Disconnected,
           EnableNotification, ExchangeMtu
  <1>3. Idle
    BY <1>1, StageByPhone
  <1>4. air' = <<>>
    BY <1>3 DEF Idle, PhoneConnects, PhoneDisconnects, PhoneSetsUp
  <1>5. /\ phone'.pc \in {"off", "setup", "ready"}
        /\ phone'.pc = "ready" => phone'.handle = hModem
        /\ UNCHANGED <<phone.got, phone.complete>>
    BY <1>1, <1>3 DEF PhoneConnects, PhoneDisconnects, PhoneSetsUp, ReadHandle, ConnectionOK,
       Idle, BleTypeInv, PhoneTypeOK, Phones
  <1>6. Idle'
    BY <1>2, <1>3, <1>4, <1>5 DEF Idle, Nothing, Resting
  <1>7. ReceivedOK'
    BY <1>2, <1>5 DEF Undisturbed, ReceivedOK
  <1> QED
    BY <1>2, <1>6, <1>7 DEF Undisturbed, Stage, ModemOK

\* The phone writes MODEM_OPEN or MODEM_CLOSE when nothing is under way.
LEMMA OpenCloseAskedKeeps ==
    BleTypeInv /\ Undisturbed /\ (PhoneOpens \/ PhoneCloses) => Undisturbed'
  <1> SUFFICES ASSUME BleTypeInv, Undisturbed, PhoneOpens \/ PhoneCloses PROVE Undisturbed'
    OBVIOUS
  <1>1. phone.pc = "ready" /\ Idle
    BY StageByPhone DEF PhoneOpens, PhoneCloses
  <1>2. UNCHANGED <<hModem, ble_pc, s_dataArray, air, modem_mode, requests, given, s_queue, fault>>
    BY DEF PhoneOpens, PhoneCloses, WriteOpen, WriteClose
  <1>3. /\ phone'.pc \in {"opening", "closing"}
        /\ UNCHANGED <<phone.got, phone.complete, phone.handle>>
    BY DEF PhoneOpens, PhoneCloses, BleTypeInv, PhoneTypeOK, Phones
  <1>4. OpenAsked' \/ CloseAsked'
    <2>1. CASE PhoneOpens
      <3>1. phone'.pc = "opening" /\ Pending("MODEM_OPEN")'
        BY <1>1, <1>2, <2>1 DEF PhoneOpens, WriteOpen, Idle, Nothing, Pending, BleTypeInv,
           PhoneTypeOK, Phones
      <3> QED
        BY <1>1, <1>2, <1>3, <3>1 DEF OpenAsked, Idle, Resting
    <2>2. CASE PhoneCloses
      <3>1. /\ phone'.pc = "closing" /\ Pending("MODEM_CLOSE")'
            /\ modem_close' = phone.handle
        BY <1>1, <1>2, <2>2 DEF PhoneCloses, WriteClose, Idle, Nothing, Pending, BleTypeInv,
           PhoneTypeOK, Phones
      <3> QED
        BY <1>1, <1>2, <1>3, <3>1 DEF CloseAsked, Idle, Resting
    <2> QED
      BY <2>1, <2>2
  <1>5. ReceivedOK'
    BY <1>2, <1>3 DEF Undisturbed, ReceivedOK
  <1> QED
    BY <1>2, <1>4, <1>5 DEF Undisturbed, Stage, ModemOK

\* The phone writes the first chunk of a request; the modem it has a handle of is open.
LEMMA RequestsKeeps == BleTypeInv /\ Undisturbed /\ PhoneRequests => Undisturbed'
  <1> SUFFICES ASSUME BleTypeInv, Undisturbed, PhoneRequests PROVE Undisturbed'
    OBVIOUS
  <1>1. phone.pc = "ready" /\ Idle /\ phone.handle # INVALID_HANDLE /\ phone \in Phones
    BY StageByPhone DEF PhoneRequests, BleTypeInv, PhoneTypeOK
  <1>2. /\ UNCHANGED <<hModem, ble_pc, s_dataArray, air, modem_mode, given, s_queue, fault>>
        /\ refused' = FALSE
    BY DEF PhoneRequests, WriteTransReceive
  <1>3. requests' = requests + 1 /\ requests \in Nat /\ given.request \in Nat
    BY DEF PhoneRequests, BleTypeInv, NotesTypeOK
  <1>4. PICK size \in RequestSizes :
          /\ WriteTransReceive(RequestChunk(phone.handle, requests', 1, size))
          /\ phone' = [phone EXCEPT !.pc = "acking", !.part = 1, !.size = size,
                                    !.got = <<>>, !.complete = FALSE]
    BY DEF PhoneRequests
  <1>5. /\ phone'.pc = "acking" /\ phone'.part = 1 /\ phone'.size = size
        /\ phone'.got = <<>> /\ phone'.complete = FALSE /\ phone'.handle = phone.handle
    BY <1>1, <1>4 DEF Phones
  <1>6. hModem = phone.handle /\ ble_pc = "wait" /\ Nothing /\ air = <<>> /\ s_dataArray = <<>>
    BY <1>1 DEF Idle, Resting, Undisturbed, ModemOK
  <1>7. /\ modem_transreceive' = RequestChunk(phone.handle, requests', 1, size)
        /\ Pending("MODEM_TRANSRECEIVE")'
    BY <1>2, <1>4, <1>6 DEF WriteTransReceive, Pending, Nothing
  <1>8. Requesting'
    <2>1. given.request < requests'
      BY <1>3 DEF Undisturbed, ReceivedOK
    <2>2. size \in Nat \ {0}
      BY BleAssumption
    <2> QED
      BY <1>1, <1>2, <1>5, <1>6, <2>1, <2>2 DEF Requesting
  <1>9. s_dataArray' = Parts(phone.part - 1)'
    <2>1. requests' \in Nat
      BY <1>3
    <2>2. phone'.part - 1 = 0
      BY <1>5
    <2> QED
      BY <1>2, <1>6, <2>2 DEF Parts
  <1>10. ChunkAsked'
    BY <1>2, <1>5, <1>6, <1>7, <1>8, <1>9 DEF ChunkAsked
  <1>11. ReceivedOK'
    BY <1>2, <1>3, <1>5 DEF Undisturbed, ReceivedOK
  <1> QED
    BY <1>2, <1>10, <1>11 DEF Undisturbed, Stage, ModemOK

\* The phone writes the next chunk when it has had the acknowledgement of the one before.
LEMMA ContinuesKeeps == BleTypeInv /\ Undisturbed /\ PhoneContinues => Undisturbed'
  <1> SUFFICES ASSUME BleTypeInv, Undisturbed, PhoneContinues PROVE Undisturbed'
    OBVIOUS
  <1>1. phone.pc = "next" /\ ChunkAcked /\ phone \in Phones
    BY StageByPhone DEF PhoneContinues, BleTypeInv, PhoneTypeOK
  <1>2. UNCHANGED <<hModem, ble_pc, s_dataArray, air, modem_mode, requests, given, refused, s_queue,
                    fault>>
    BY DEF PhoneContinues, WriteTransReceive
  <1>3. /\ phone'.pc = "acking" /\ phone'.part = phone.part + 1
        /\ UNCHANGED <<phone.size, phone.got, phone.complete, phone.handle>>
    BY <1>1 DEF PhoneContinues, Phones
  <1>4. phone.part \in Nat /\ phone.size \in Nat
    BY <1>1 DEF Phones
  <1>5. /\ Requesting /\ phone.part < phone.size /\ Nothing /\ ble_pc = "wait"
        /\ s_dataArray = Parts(phone.part) /\ air = <<>>
    BY <1>1 DEF ChunkAcked
  <1>6. /\ modem_transreceive' = RequestChunk(phone.handle, requests, phone.part + 1, phone.size)
        /\ Pending("MODEM_TRANSRECEIVE")'
    BY <1>2, <1>5 DEF PhoneContinues, WriteTransReceive, Pending, Nothing
  <1>7. Requesting'
    BY <1>2, <1>3, <1>4, <1>5 DEF Requesting
  <1>8. s_dataArray' = Parts(phone.part - 1)'
    <2>1. phone'.part - 1 = phone.part
      BY <1>3, <1>4
    <2> QED
      BY <1>2, <1>5, <2>1 DEF Parts
  <1>9. ChunkAsked'
    BY <1>2, <1>3, <1>5, <1>6, <1>7, <1>8 DEF ChunkAsked
  <1>10. ReceivedOK'
    BY <1>1, <1>2, <1>3 DEF Undisturbed, ReceivedOK
  <1> QED
    BY <1>2, <1>9, <1>10 DEF Undisturbed, Stage, ModemOK

\* The phone gives up when nothing is under way: it has the handle that the task has.
LEMMA GivesUpKeeps == BleTypeInv /\ Undisturbed /\ PhoneGivesUp => Undisturbed'
  <1> SUFFICES ASSUME BleTypeInv, Undisturbed, PhoneGivesUp PROVE Undisturbed'
    OBVIOUS
  <1>1. /\ phone.pc \in Waiting /\ phone \in Phones
        /\ to_notify = "none" /\ s_queue = <<>> /\ ble_pc = "wait" /\ air = <<>>
    BY DEF PhoneGivesUp, Quiet, HandlersIdle, BleTypeInv, PhoneTypeOK
  <1>2. UNCHANGED <<hModem, ble_pc, s_dataArray, air, modem_mode, requests, given, to_notify,
                    s_queue, fault>>
    BY DEF PhoneGivesUp
  <1>3. /\ phone'.pc = "ready"
        /\ UNCHANGED <<phone.got, phone.complete, phone.handle>>
    BY <1>1 DEF PhoneGivesUp, Phones
  <1>4. OpenAnswered \/ CloseAnswered \/ Responded
    BY <1>1 DEF Undisturbed, Stage, Idle, OpenAsked, OpenRuns, CloseAsked, ChunkAsked, ChunkCopied,
       ChunkAcked, Executes, Responds, Pending, Waiting
  <1>5. phone.handle = hModem /\ s_dataArray = <<>>
    BY <1>1, <1>4 DEF OpenAnswered, CloseAnswered, Responded, AwaitsResponse
  <1>6. Idle'
    BY <1>1, <1>2, <1>3, <1>5 DEF Idle, Nothing, Resting
  <1>7. ReceivedOK'
    BY <1>2, <1>3 DEF Undisturbed, ReceivedOK
  <1> QED
    BY <1>2, <1>6, <1>7 DEF Undisturbed, Stage, ModemOK

\* What leaves the exchange as it is: the PPP connection, and a step that stutters.
LEMMA StageStays ==
    Stage /\ UNCHANGED <<phone, hModem, ble_pc, chunk, s_dataArray, response, air, modem_close,
                         modem_transreceive, requests, given, refused, to_notify, s_queue>>
        => Stage'
  <1> SUFFICES ASSUME Stage,
                      UNCHANGED <<phone, hModem, ble_pc, chunk, s_dataArray, response, air,
                                  modem_close, modem_transreceive, requests, given, refused,
                                  to_notify, s_queue>>
               PROVE  Stage'
    OBVIOUS
  <1>1. Idle \/ OpenAsked \/ OpenRuns \/ OpenAnswered \/ CloseAsked \/ CloseAnswered => Stage'
    BY DEF Stage, Idle, OpenAsked, OpenRuns, OpenAnswered, CloseAsked, CloseAnswered, Nothing,
           Pending, Resting
  <1>2. ChunkAsked \/ ChunkCopied \/ ChunkAcked => Stage'
    BY DEF Stage, ChunkAsked, ChunkCopied, ChunkAcked, Requesting, Nothing, Pending, Parts
  <1>3. Executes \/ Responds \/ Responded => Stage'
    <2>1. AwaitsResponse => AwaitsResponse' /\ Acks' = Acks
      BY DEF AwaitsResponse, Nothing, Acks
    <2>2. Executes => Executes'
      BY <2>1 DEF Executes, Requesting, Parts
    <2>3. AwaitsResponse => /\ \A whole \in BOOLEAN : StreamOf(whole) => StreamOf(whole)'
                            /\ StreamEnd' = StreamEnd
      BY <2>1 DEF StreamOf, StreamEnd, ChunkStart
    <2>4. Responds => Responds'
      BY <2>1, <2>3 DEF Responds
    <2>5. Responded => Responded'
      BY <2>1, <2>3 DEF Responded
    <2> QED
      BY <2>2, <2>4, <2>5 DEF Stage
  <1> QED
    BY <1>1, <1>2, <1>3 DEF Stage

LEMMA PppChangesKeeps == Undisturbed /\ (PppChanges \/ UNCHANGED bleVars) => Undisturbed'
  <1> SUFFICES ASSUME Undisturbed, PppChanges \/ UNCHANGED bleVars PROVE Undisturbed'
    OBVIOUS
  <1>1. Stage'
    BY StageStays DEF Undisturbed, PppChanges
  <1>2. ModemOK' /\ ReceivedOK' /\ fault' = "none"
    BY DEF Undisturbed, ModemOK, ReceivedOK, PppChanges
  <1> QED
    BY <1>1, <1>2 DEF Undisturbed

-----------------------------------------------------------------------------
(* The response *)

\* The indicator and the size of a chunk: the last chunk is the one that sends all that is left,
\* and a first one the one before which nothing was sent.
LEMMA IndicatorMeaning ==
    TaskTypeOK =>
        /\ Indicator = "LAST" <=> response.remainder = ChunkSize
        /\ Indicator = "FIRST" => response.remainder = response.len
  BY DEF TaskTypeOK, Indicator, ChunkSize

\* update_gatt_db_modem_transreceive(): the next chunk begins where what was sent ends.
LEMMA SendResponseChunkKeeps ==
    BleTypeInv /\ ConnectionOK /\ Undisturbed /\ SendResponseChunk => Undisturbed'
  <1> SUFFICES ASSUME BleTypeInv, ConnectionOK, Undisturbed, SendResponseChunk
               PROVE  Undisturbed'
    OBVIOUS
  <1> DEFINE L == Len(air)
             size == ChunkSize
             last == response.remainder = size
             c == [kind |-> "response", indicator |-> Indicator, request |-> response.request,
                   from |-> response.len - response.remainder, size |-> size]
             n == [of |-> "transreceive", value |-> c]
  <1>1. ble_pc = "respond" /\ Responds
    BY StageByPlace DEF SendResponseChunk
  <1>2. UNCHANGED <<hModem, chunk, modeVars, phone, modem_close, requests, given, refused,
                    to_notify, s_queue, fault>>
    BY DEF SendResponseChunk
  <1>3. /\ response.len \in Nat /\ response.remainder \in Nat
        /\ response.remainder <= response.len /\ response.request \in Nat
        /\ size \in Nat /\ size <= response.remainder
        /\ response \in [request : Nat, len : Nat, remainder : Nat, payload : Nat]
    BY ChunkSizeBound DEF BleTypeInv, TaskTypeOK
  <1>4. /\ Indicator = "LAST" <=> last
        /\ Indicator = "FIRST" => response.remainder = response.len
    BY IndicatorMeaning DEF BleTypeInv
  <1>5. /\ AwaitsResponse /\ phone.pc \in {"acking", "answer"} /\ StreamOf(FALSE)
        /\ StreamEnd = response.len - response.remainder
        /\ given = [request |-> requests, len |-> response.len]
    BY <1>1 DEF Responds, AwaitsResponse
  <1>6. /\ L \in Nat /\ Acks \in {0, 1} /\ L >= Acks /\ Acks' = Acks
    BY <1>2, <1>5, LenProperties DEF BleTypeInv, PhoneTypeOK, Acks, AwaitsResponse
  <1>7. air' = Append(air, n)
    <2>1. g_conn_id # 0
      BY <1>5 DEF ConnectionOK
    <2> QED
      BY <2>1 DEF SendResponseChunk
  <1>8. n \in Notifications
    BY <1>3 DEF Notifications, ResponseChunks, Indicator, Indicators
  <1>9. Len(air') = L + 1 /\ air'[L + 1] = n /\ \A i \in 1 .. L : air'[i] = air[i]
    <2> HIDE DEF n
    <2> QED
      BY <1>7, <1>8, AppendAt DEF BleTypeInv, PhoneTypeOK
  <1>10. /\ n.of = "transreceive" /\ n.value.indicator = Indicator
         /\ n.value.from = response.len - response.remainder /\ n.value.size = size
    OBVIOUS
  <1> HIDE DEF n, c, last, size
  <1>11. AwaitsResponse'
    BY <1>2, <1>5, <1>6, <1>9 DEF AwaitsResponse, Nothing
  <1>12. \A i \in Acks + 1 .. L + 1 : ChunkStart(i)' = ChunkStart(i)
    <2> SUFFICES ASSUME NEW i \in Acks + 1 .. L + 1 PROVE ChunkStart(i)' = ChunkStart(i)
      OBVIOUS
    <2>1. i # Acks + 1 => i - 1 \in 1 .. L
      BY <1>6
    <2> QED
      BY <1>2, <1>6, <1>9, <2>1 DEF ChunkStart
  <1>13. \A i \in Acks + 1 .. L + 1 :
           /\ air'[i].of = "transreceive"
           /\ air'[i].value.from = ChunkStart(i)
           /\ air'[i].value.indicator = "FIRST" => air'[i].value.from = 0
           /\ air'[i].value.indicator = "LAST" <=> last /\ i = L + 1
    <2> SUFFICES ASSUME NEW i \in Acks + 1 .. L + 1
                 PROVE  /\ air'[i].of = "transreceive"
                        /\ air'[i].value.from = ChunkStart(i)
                        /\ air'[i].value.indicator = "FIRST" => air'[i].value.from = 0
                        /\ air'[i].value.indicator = "LAST" <=> last /\ i = L + 1
      OBVIOUS
    <2>1. CASE i = L + 1
      BY <1>3, <1>4, <1>5, <1>9, <1>10, <2>1 DEF StreamEnd
    <2>2. CASE i # L + 1
      <3>1. i \in Acks + 1 .. L /\ i \in 1 .. L
        BY <1>6, <2>2
      <3> QED
        BY <1>5, <1>9, <2>2, <3>1 DEF StreamOf
    <2> QED
      BY <2>1, <2>2
  <1>14. StreamEnd' = response.len - response.remainder + size
    <2>1. L + 2 # Acks + 1 /\ (L + 2) - 1 = L + 1 /\ Len(air') + 1 = L + 2
      BY <1>6, <1>9
    <2> QED
      BY <1>6, <1>9, <1>10, <2>1 DEF StreamEnd, ChunkStart
  <1>15. CASE last
    <2>1. ble_pc' = "wait" /\ s_dataArray' = <<>>
      BY <1>15 DEF SendResponseChunk, RequestDone, last, size
    <2>2. StreamOf(TRUE)'
      BY <1>6, <1>9, <1>12, <1>13, <1>15 DEF StreamOf
    <2>3. StreamEnd' = response.len
      BY <1>3, <1>14, <1>15 DEF last
    <2>4. given' = [request |-> requests', len |-> StreamEnd']
      BY <1>2, <1>5, <2>3
    <2>5. Len(air') > Acks'
      BY <1>6, <1>9
    <2>6. Responded'
      BY <1>11, <2>1, <2>2, <2>4, <2>5 DEF Responded
    <2> QED
      BY <1>1, <1>2, <2>1, <2>6 DEF Undisturbed, Stage, ModemOK, ReceivedOK
  <1>16. CASE ~last
    <2>1. ble_pc' = "respond" /\ response' = [response EXCEPT !.remainder = @ - size]
      BY <1>1, <1>16 DEF SendResponseChunk, last, size
    <2>2. StreamOf(FALSE)'
      BY <1>6, <1>9, <1>12, <1>13, <1>16 DEF StreamOf
    <2>3. response'.len = response.len /\ response'.remainder = response.remainder - size
      BY <1>3, <2>1
    <2>4. StreamEnd' = response'.len - response'.remainder
      BY <1>3, <1>14, <2>3
    <2>5. given' = [request |-> requests', len |-> response'.len]
      BY <1>2, <1>5, <2>3
    <2>6. Responds'
      BY <1>11, <2>1, <2>2, <2>4, <2>5 DEF Responds
    <2> QED
      BY <1>1, <1>2, <2>1, <2>6 DEF Undisturbed, Stage, ModemOK, ReceivedOK
  <1> QED
    BY <1>15, <1>16

\* The phone takes the first notification: the chunks that follow move up.
LEMMA StreamMoves ==
    ASSUME NEW whole, PhoneTypeOK, air # <<>>, air' = Tail(air),
           Acks \in {0, 1}, Acks' = 0, StreamOf(whole),
           ChunkStart(1)' = ChunkStart(2)
    PROVE  /\ Len(air') = Len(air) - 1 /\ Len(air) \in Nat \ {0}
           /\ StreamOf(whole)'
           /\ StreamEnd' = StreamEnd
  <1>1. /\ Len(air) \in Nat \ {0} /\ Len(air') = Len(air) - 1
        /\ \A i \in 1 .. Len(air) - 1 : air'[i] = air[i + 1]
    BY TailAt DEF PhoneTypeOK
  <1>2. \A i \in 1 .. Len(air) : ChunkStart(i)' = ChunkStart(i + 1)
    <2> SUFFICES ASSUME NEW i \in 1 .. Len(air) PROVE ChunkStart(i)' = ChunkStart(i + 1)
      OBVIOUS
    <2>1. CASE i = 1
      BY <2>1
    <2>2. CASE i # 1
      <3>1. i - 1 \in 1 .. Len(air) - 1 /\ (i - 1) + 1 = i /\ (i + 1) - 1 = i
        BY <1>1, <2>2
      <3>2. air'[i - 1] = air[i]
        BY <1>1, <3>1
      <3>3. i # Acks' + 1 /\ i + 1 # Acks + 1
        BY <2>2, <3>1
      <3> QED
        BY <3>1, <3>2, <3>3 DEF ChunkStart
    <2> QED
      BY <2>1, <2>2
  <1>3. \A i \in 1 .. Len(air) - 1 :
           /\ air'[i].of = "transreceive"
           /\ air'[i].value.from = ChunkStart(i)'
           /\ air'[i].value.indicator = "FIRST" => air'[i].value.from = 0
           /\ air'[i].value.indicator = "LAST" <=> whole /\ i = Len(air')
    <2> SUFFICES ASSUME NEW i \in 1 .. Len(air) - 1
                 PROVE  /\ air'[i].of = "transreceive"
                        /\ air'[i].value.from = ChunkStart(i)'
                        /\ air'[i].value.indicator = "FIRST" => air'[i].value.from = 0
                        /\ air'[i].value.indicator = "LAST" <=> whole /\ i = Len(air')
      OBVIOUS
    <2>1. i + 1 \in Acks + 1 .. Len(air) /\ air'[i] = air[i + 1] /\ i \in 1 .. Len(air)
      BY <1>1
    <2>2. i = Len(air') <=> i + 1 = Len(air)
      BY <1>1
    <2> QED
      BY <1>2, <2>1, <2>2 DEF StreamOf
  <1>4. StreamEnd' = StreamEnd
    <2>1. Len(air) \in 1 .. Len(air) /\ Len(air') + 1 = Len(air)
      BY <1>1
    <2> QED
      BY <1>2, <2>1 DEF StreamEnd
  <1>5. StreamOf(whole)'
    <2>1. Acks' + 1 .. Len(air') = 1 .. Len(air) - 1
      BY <1>1
    <2> QED
      BY <1>3, <2>1 DEF StreamOf
  <1> QED
    BY <1>1, <1>4, <1>5

\* What a phone makes of the chunk that begins where what it has ends: that much more of the
\* response.
LEMMA ReceivedGrows ==
    ASSUME NEW c \in ResponseChunks, phone \in Phones,
           phone.got = [i \in 1 .. Len(phone.got) |-> i],
           c.from = Len(phone.got),
           c.indicator = "FIRST" => c.from = 0
    PROVE  /\ Received(c).got = [i \in 1 .. c.from + c.size |-> i]
           /\ Len(Received(c).got) = c.from + c.size
  <1> DEFINE bytes == [i \in 1 .. c.size |-> c.from + i]
             whole == [i \in 1 .. c.from + c.size |-> i]
  <1>1. c.size \in Nat /\ c.from \in Nat
    BY DEF ResponseChunks
  <1>2. phone.got \in Seq(Nat)
    BY DEF Phones
  <1>3. /\ bytes \in Seq(Nat) /\ Len(bytes) = c.size
        /\ whole \in Seq(Nat) /\ Len(whole) = c.from + c.size
    <2>1. /\ \A i \in 1 .. c.size : c.from + i \in Nat
          /\ \A i \in 1 .. c.from + c.size : i \in Nat
          /\ c.from + c.size \in Nat
      BY <1>1
    <2>2. bytes \in Seq(Nat) /\ Len(bytes) = c.size
      BY <1>1, <2>1
    <2>3. whole \in Seq(Nat) /\ Len(whole) = c.from + c.size
      BY <2>1
    <2> QED
      BY <2>2, <2>3
  <1>4. Received(c).got = IF c.indicator = "FIRST" THEN bytes ELSE phone.got \o bytes
    BY DEF Received, Phones
  <1>5. CASE c.indicator = "FIRST"
    <2>1. c.from = 0
      BY <1>5
    <2>2. \A i \in 1 .. c.size : bytes[i] = whole[i]
      BY <1>1, <2>1
    <2>3. bytes = whole
      <3>1. Len(bytes) = Len(whole) /\ \A i \in 1 .. Len(bytes) : bytes[i] = whole[i]
        BY <1>1, <1>3, <2>1, <2>2
      <3> HIDE DEF bytes, whole
      <3> QED
        BY <1>3, <3>1, SeqEqual
    <2> QED
      BY <1>3, <1>4, <1>5, <2>3
  <1>6. CASE c.indicator # "FIRST"
    <2> DEFINE longer == phone.got \o bytes
    <2>1. /\ longer \in Seq(Nat) /\ Len(longer) = c.from + c.size
          /\ \A i \in 1 .. c.from + c.size :
                longer[i] = IF i <= c.from THEN phone.got[i] ELSE bytes[i - c.from]
      <3> HIDE DEF bytes
      <3>1. /\ longer \in Seq(Nat) /\ Len(longer) = Len(phone.got) + Len(bytes)
            /\ \A i \in 1 .. Len(phone.got) + Len(bytes) :
                  longer[i] = IF i <= Len(phone.got) THEN phone.got[i]
                              ELSE bytes[i - Len(phone.got)]
        BY <1>2, <1>3, ConcatAt
      <3> HIDE DEF longer
      <3> QED
        BY <1>3, <3>1
    <2>2. \A i \in 1 .. c.from + c.size : longer[i] = whole[i]
      <3> SUFFICES ASSUME NEW i \in 1 .. c.from + c.size PROVE longer[i] = whole[i]
        OBVIOUS
      <3> HIDE DEF longer
      <3>1. CASE i <= c.from
        <4>1. i \in 1 .. Len(phone.got)
          BY <1>1, <3>1
        <4>2. phone.got[i] = i
          BY <4>1
        <4> QED
          BY <2>1, <3>1, <4>2
      <3>2. CASE ~(i <= c.from)
        <4>1. i - c.from \in 1 .. c.size /\ c.from + (i - c.from) = i
          BY <1>1, <3>2
        <4> QED
          BY <2>1, <3>2, <4>1
      <3> QED
        BY <3>1, <3>2
    <2>3. longer = whole
      <3> HIDE DEF longer, whole
      <3>1. Len(longer) = Len(whole) /\ \A i \in 1 .. Len(longer) : longer[i] = whole[i]
        BY <1>3, <2>1, <2>2
      <3> QED
        BY <1>3, <2>1, <3>1, SeqEqual
    <2> QED
      BY <1>3, <1>4, <1>6, <2>3
  <1> QED
    BY <1>5, <1>6

\* The phone takes the notification of a handle: it knows again what the task knows.
LEMMA ReceivesHandleKeeps ==
    BleTypeInv /\ Undisturbed /\ PhoneReceives /\ (OpenAnswered \/ CloseAnswered) => Undisturbed'
  <1> SUFFICES ASSUME BleTypeInv, Undisturbed, PhoneReceives, OpenAnswered \/ CloseAnswered
               PROVE  Undisturbed'
    OBVIOUS
  <1>1. UNCHANGED <<hModem, ble_pc, s_dataArray, modem_mode, requests, given, to_notify, s_queue,
                    fault>>
    BY DEF PhoneReceives
  <1>2. /\ air = <<[of |-> "handle", value |-> hModem]>> /\ air' = Tail(air)
        /\ hModem \in Handles /\ phone \in Phones
    BY DEF PhoneReceives, OpenAnswered, CloseAnswered, BleTypeInv, TaskTypeOK, PhoneTypeOK
  <1>3. Head(air) = [of |-> "handle", value |-> hModem] /\ air' = <<>>
    <2>1. [of |-> "handle", value |-> hModem] \in Notifications
      BY <1>2 DEF Notifications
    <2> QED
      BY <1>2, <2>1, OneNotification
  <1>4. phone.pc \in {"opening", "closing"} /\ Nothing /\ Resting /\ s_dataArray = <<>>
    BY DEF OpenAnswered, CloseAnswered, Resting
  <1>5. /\ phone'.pc = "ready" /\ phone'.handle = hModem
        /\ UNCHANGED <<phone.got, phone.complete>>
    BY <1>2, <1>3, <1>4 DEF PhoneReceives, Phones
  <1>6. Idle'
    BY <1>1, <1>3, <1>4, <1>5 DEF Idle, Nothing, Resting
  <1>7. ReceivedOK'
    BY <1>1, <1>5 DEF Undisturbed, ReceivedOK
  <1> QED
    BY <1>1, <1>6, <1>7 DEF Undisturbed, Stage, ModemOK

\* The phone takes the acknowledgement of a chunk that is not the last.
LEMMA ReceivesAckKeeps ==
    BleTypeInv /\ Undisturbed /\ PhoneReceives /\ ChunkAcked => Undisturbed'
  <1> SUFFICES ASSUME BleTypeInv, Undisturbed, PhoneReceives, ChunkAcked PROVE Undisturbed'
    OBVIOUS
  <1>1. UNCHANGED <<hModem, ble_pc, s_dataArray, modem_mode, requests, given, refused, to_notify,
                    s_queue, fault>>
    BY DEF PhoneReceives
  <1>2. /\ air = <<[of |-> "ack", value |-> 1]>> /\ air' = Tail(air) /\ phone.pc = "acking"
        /\ phone \in Phones /\ phone.part < phone.size /\ Requesting /\ Nothing
        /\ ble_pc = "wait" /\ s_dataArray = Parts(phone.part)
    BY DEF PhoneReceives, ChunkAcked, BleTypeInv, PhoneTypeOK
  <1>3. Head(air) = [of |-> "ack", value |-> 1] /\ air' = <<>>
    <2>1. [of |-> "ack", value |-> 1] \in Notifications
      BY DEF Notifications
    <2> QED
      BY <1>2, <2>1, OneNotification
  <1>4. /\ phone'.pc = "next"
        /\ UNCHANGED <<phone.part, phone.size, phone.handle, phone.got, phone.complete>>
    <2>1. phone.part # phone.size
      BY <1>2 DEF Phones
    <2>2. phone' = [phone EXCEPT !.pc = "next"]
      BY <1>2, <1>3, <2>1 DEF PhoneReceives
    <2> QED
      BY <1>2, <2>2 DEF Phones
  <1>5. ChunkAcked'
    BY <1>1, <1>2, <1>3, <1>4 DEF ChunkAcked, Requesting, Nothing, Parts
  <1>6. ReceivedOK'
    BY <1>1, <1>2, <1>4 DEF Undisturbed, ReceivedOK
  <1> QED
    BY <1>1, <1>5, <1>6 DEF Undisturbed, Stage, ModemOK

\* The phone takes the acknowledgement of the last chunk; parts of the response may be on their
\* way already.
LEMMA ReceivesLastAckKeeps ==
    BleTypeInv /\ Undisturbed /\ PhoneReceives /\ phone.pc = "acking"
        /\ (Executes \/ Responds \/ Responded) => Undisturbed'
  <1> SUFFICES ASSUME BleTypeInv, Undisturbed, PhoneReceives, phone.pc = "acking",
                      Executes \/ Responds \/ Responded
               PROVE  Undisturbed'
    OBVIOUS
  <1>1. UNCHANGED <<hModem, ble_pc, s_dataArray, response, modem_mode, requests, given, refused,
                    to_notify, s_queue, fault>>
    BY DEF PhoneReceives
  <1>2. /\ AwaitsResponse /\ phone \in Phones /\ PhoneTypeOK
        /\ air # <<>> /\ air' = Tail(air)
    BY DEF PhoneReceives, Executes, Responds, Responded, BleTypeInv, PhoneTypeOK
  <1>3. /\ phone.part = phone.size /\ phone.got = <<>>
        /\ air[1] = [of |-> "ack", value |-> 1] /\ Acks = 1
    BY <1>2 DEF AwaitsResponse, Acks
  <1>4. /\ Head(air) = [of |-> "ack", value |-> 1]
        /\ Len(air) \in Nat \ {0} /\ Len(air') = Len(air) - 1
    BY <1>2, <1>3, TailAt DEF PhoneTypeOK
  <1>5. phone' = [phone EXCEPT !.pc = "answer"]
    BY <1>3, <1>4 DEF PhoneReceives
  <1>6. /\ phone'.pc = "answer" /\ Acks' = 0
        /\ UNCHANGED <<phone.part, phone.size, phone.handle, phone.got, phone.complete>>
    BY <1>2, <1>5 DEF Phones, Acks
  <1>7. AwaitsResponse'
    BY <1>1, <1>2, <1>6 DEF AwaitsResponse, Nothing
  <1>8. ChunkStart(1)' = ChunkStart(2)
    BY <1>3, <1>6 DEF ChunkStart
  <1>9. \A whole \in BOOLEAN : StreamOf(whole) => StreamOf(whole)' /\ StreamEnd' = StreamEnd
    BY <1>2, <1>3, <1>6, <1>8, StreamMoves
  <1>10. Executes => Executes'
    BY <1>1, <1>3, <1>4, <1>6, <1>7 DEF Executes, Requesting, Parts
  <1>11. Responds => Responds'
    BY <1>1, <1>7, <1>9 DEF Responds
  <1>12. Responded => Responded'
    <2>1. Len(air) > Acks => Len(air') > Acks'
      BY <1>3, <1>4, <1>6
    <2>2. Len(air) = Acks => Len(air') = Acks'
      BY <1>3, <1>4, <1>6
    <2> QED
      BY <1>1, <1>7, <1>9, <2>1, <2>2 DEF Responded
  <1>13. ReceivedOK'
    BY <1>1, <1>6 DEF Undisturbed, ReceivedOK
  <1> QED
    BY <1>1, <1>10, <1>11, <1>12, <1>13 DEF Undisturbed, Stage, ModemOK

\* The phone takes a chunk of the response, and the whole response with the last.
LEMMA ReceivesChunkKeeps ==
    BleTypeInv /\ Undisturbed /\ PhoneReceives /\ phone.pc = "answer" => Undisturbed'
  <1> SUFFICES ASSUME BleTypeInv, Undisturbed, PhoneReceives, phone.pc = "answer"
               PROVE  Undisturbed'
    OBVIOUS
  <1> DEFINE n == air[1]
             c == air[1].value
  <1>1. UNCHANGED <<hModem, ble_pc, s_dataArray, response, modem_mode, requests, given, refused,
                    to_notify, s_queue, fault>>
    BY DEF PhoneReceives
  <1>2. /\ phone \in Phones /\ PhoneTypeOK /\ air # <<>> /\ air' = Tail(air) /\ Acks = 0
        /\ phone.got = [i \in 1 .. Len(phone.got) |-> i]
    BY DEF PhoneReceives, BleTypeInv, PhoneTypeOK, Acks, Undisturbed, ReceivedOK
  <1>3. /\ Head(air) = n /\ n \in Notifications
        /\ Len(air) \in Nat \ {0} /\ Len(air') = Len(air) - 1 /\ 1 \in 1 .. Len(air)
    BY <1>2, TailAt, ElementOfSeq DEF PhoneTypeOK
  <1>4. \/ Responds /\ StreamOf(FALSE)
        \/ Responded /\ StreamOf(TRUE) /\ given = [request |-> requests, len |-> StreamEnd]
    <2>1. Len(air) > Acks /\ Len(air) # Acks
      BY <1>2, <1>3
    <2> QED
      BY <2>1, StageByPhone DEF Executes, Responds, Responded
  <1>5. AwaitsResponse
    BY <1>4 DEF Responds, Responded
  <1>6. \A whole \in BOOLEAN : StreamOf(whole) =>
           /\ n.of = "transreceive" /\ c.from = Len(phone.got)
           /\ c.indicator = "FIRST" => c.from = 0
           /\ c.indicator = "LAST" <=> whole /\ Len(air) = 1
    <2> SUFFICES ASSUME NEW whole \in BOOLEAN, StreamOf(whole)
                 PROVE  /\ n.of = "transreceive" /\ c.from = Len(phone.got)
                        /\ c.indicator = "FIRST" => c.from = 0
                        /\ c.indicator = "LAST" <=> whole /\ Len(air) = 1
      OBVIOUS
    <2>1. 1 \in Acks + 1 .. Len(air) /\ ChunkStart(1) = Len(phone.got)
      BY <1>2, <1>3 DEF ChunkStart
    <2>2. /\ n.of = "transreceive" /\ c.from = ChunkStart(1)
          /\ c.indicator = "FIRST" => c.from = 0
          /\ c.indicator = "LAST" <=> whole /\ 1 = Len(air)
      BY <2>1 DEF StreamOf
    <2> QED
      BY <2>1, <2>2
  <1>7. /\ n.of = "transreceive" /\ c.from = Len(phone.got)
        /\ c.indicator = "FIRST" => c.from = 0
    BY <1>4, <1>6
  <1>8. c \in ResponseChunks /\ c.from \in Nat /\ c.size \in Nat
    BY <1>3, <1>7 DEF Notifications, ResponseChunks
  <1>9. phone' = Received(c)
    BY <1>3, <1>7 DEF PhoneReceives
  <1>10. /\ phone'.got = [i \in 1 .. c.from + c.size |-> i]
         /\ Len(phone'.got) = c.from + c.size
    BY <1>2, <1>7, <1>8, <1>9, ReceivedGrows
  <1>11. /\ phone'.pc = IF c.indicator = "LAST" THEN "ready" ELSE "answer"
         /\ phone'.complete = (c.indicator = "LAST")
         /\ UNCHANGED <<phone.part, phone.size, phone.handle>>
    BY <1>2, <1>9 DEF Received, Phones
  <1>12. CASE c.indicator = "LAST"
    <2>1. Responded /\ StreamOf(TRUE) /\ Len(air) = 1
          /\ given = [request |-> requests, len |-> StreamEnd]
      BY <1>4, <1>6, <1>12
    <2>2. air' = <<>>
      <3>1. air' \in Seq(Notifications) /\ Len(air') = 0
        BY <1>2, <1>3, <2>1, HeadTailProperties DEF PhoneTypeOK
      <3> QED
        BY <3>1, EmptySeq
    <2>3. StreamEnd = c.from + c.size
      BY <1>2, <2>1 DEF StreamEnd, ChunkStart
    <2>4. Idle'
      BY <1>1, <1>5, <1>11, <1>12, <2>1, <2>2 DEF Idle, Responded, AwaitsResponse, Nothing, Resting
    <2>5. ReceivedOK'
      BY <1>1, <1>10, <1>11, <1>12, <2>1, <2>3 DEF Undisturbed, ReceivedOK
    <2> QED
      BY <1>1, <2>4, <2>5 DEF Undisturbed, Stage, ModemOK
  <1>13. CASE c.indicator # "LAST"
    <2>1. phone'.pc = "answer" /\ Acks' = 0 /\ phone'.complete = FALSE
      BY <1>11, <1>13 DEF Acks
    <2>2. AwaitsResponse'
      BY <1>1, <1>5, <1>11, <2>1 DEF AwaitsResponse, Nothing
    <2>3. ChunkStart(1)' = ChunkStart(2)
      <3>1. ChunkStart(1)' = Len(phone'.got)
        BY <2>1 DEF ChunkStart
      <3>2. ChunkStart(2) = c.from + c.size
        BY <1>2 DEF ChunkStart
      <3> QED
        BY <1>10, <3>1, <3>2
    <2>4. \A whole \in BOOLEAN : StreamOf(whole) => StreamOf(whole)' /\ StreamEnd' = StreamEnd
      BY <1>2, <2>1, <2>3, StreamMoves
    <2>5. Responds /\ StreamOf(FALSE) => Responds'
      BY <1>1, <2>2, <2>4 DEF Responds
    <2>6. Responded /\ StreamOf(TRUE) /\ given = [request |-> requests, len |-> StreamEnd]
             => Responded'
      <3> SUFFICES ASSUME Responded, StreamOf(TRUE),
                          given = [request |-> requests, len |-> StreamEnd]
                   PROVE  Responded'
        OBVIOUS
      <3>1. Len(air) # 1
        BY <1>6, <1>13
      <3>2. Len(air') > Acks'
        BY <1>3, <2>1, <3>1
      <3>3. given' = [request |-> requests', len |-> StreamEnd'] /\ StreamOf(TRUE)'
        BY <1>1, <2>4
      <3> QED
        BY <1>1, <2>2, <3>2, <3>3 DEF Responded
    <2>7. ReceivedOK'
      BY <1>1, <1>10, <2>1 DEF Undisturbed, ReceivedOK
    <2> QED
      BY <1>1, <1>4, <2>5, <2>6, <2>7 DEF Undisturbed, Stage, ModemOK
  <1> QED
    BY <1>12, <1>13

\* Every other notification is one that the phone waits for.
LEMMA ReceivesKeeps == BleTypeInv /\ Undisturbed /\ PhoneReceives => Undisturbed'
  <1> SUFFICES ASSUME BleTypeInv, Undisturbed, PhoneReceives PROVE Undisturbed'
    OBVIOUS
  <1>1. air # <<>>
    BY DEF PhoneReceives
  <1>2. OpenAnswered \/ CloseAnswered \/ ChunkAcked \/ Executes \/ Responds \/ Responded
    BY <1>1 DEF Undisturbed, Stage, Idle, OpenAsked, OpenRuns, CloseAsked, ChunkAsked, ChunkCopied
  <1>3. Executes \/ Responds \/ Responded => phone.pc \in {"acking", "answer"}
    BY DEF Executes, Responds, Responded, AwaitsResponse
  <1> QED
    BY <1>2, <1>3, ReceivesHandleKeeps, ReceivesAckKeeps, ReceivesLastAckKeeps, ReceivesChunkKeeps

-----------------------------------------------------------------------------
\* A connection that has ended before an answer is not forgotten.
LEMMA InterruptedStays == interrupted /\ [BleNext]_bleVars => interrupted'
  <1>1. BleModemTaskStep \/ ble_modem_task_notify \/ PppChanges => UNCHANGED interrupted
    BY DEF BleModemTaskStep, GetMessage, LockModem, UnlockModem, OpenModem, CloseModem,
       ReadHeader, CopyChunk, SendAck, SimTransReceive, SendResponseChunk,
       ble_modem_task_notify, PppChanges
  <1>2. PhoneStep /\ interrupted => interrupted'
    BY DEF PhoneStep, PhoneConnects, PhoneDisconnects, PhoneSetsUp, PhoneOpens, PhoneCloses,
       PhoneRequests, PhoneContinues, PhoneReceives, PhoneGivesUp
  <1> QED
    BY <1>1, <1>2 DEF BleNext

\* BleNext: every step of the task, the stack's thread, the phone and the PPP connection leads
\* from one stage of an exchange to the same or the next.
LEMMA ExchangeStep ==
    BleTypeInv /\ ExchangeInv /\ [BleNext]_bleVars => ExchangeInv'
  <1> SUFFICES ASSUME BleTypeInv, ExchangeInv, [BleNext]_bleVars PROVE ExchangeInv'
    OBVIOUS
  <1>1. ConnectionOK /\ ConnectionOK'
    BY ConnectionStep DEF ExchangeInv
  <1>2. ASSUME ~interrupted' PROVE Undisturbed'
    <2>1. ~interrupted
      BY <1>2, InterruptedStays
    <2>2. Undisturbed
      BY <2>1 DEF ExchangeInv
    <2>3. CASE BleModemTaskStep
      BY <1>1, <2>2, <2>3, GetMessageKeeps, LockKeeps, UnlockKeeps, OpenKeeps, CloseKeeps,
         ReadHeaderKeeps, CopyChunkKeeps, SendAckKeeps, SimTransReceiveKeeps,
         SendResponseChunkKeeps DEF BleModemTaskStep
    <2>4. CASE ble_modem_task_notify
      BY <2>2, <2>4, NotifyTaskKeeps
    <2>5. CASE PhoneStep
      BY <1>1, <1>2, <2>2, <2>5, ConnectingKeeps, OpenCloseAskedKeeps, RequestsKeeps,
         ContinuesKeeps, ReceivesKeeps, GivesUpKeeps DEF PhoneStep
    <2>6. CASE PppChanges \/ UNCHANGED bleVars
      BY <2>2, <2>6, PppChangesKeeps
    <2> QED
      BY <2>3, <2>4, <2>5, <2>6 DEF BleNext
  <1> QED
    BY <1>1, <1>2 DEF ExchangeInv

\* The attributes, the queue, the task and the notifications on their way are always at one of
\* the stages of an exchange, unless a connection has ended before an answer.
THEOREM ExchangeCorrect == BleSpec => []ExchangeInv
  <1>1. BleInit => ExchangeInv
    BY ExchangeInit
  <1> QED
    BY <1>1, ExchangeStep, TypesHold, PTL DEF BleSpec

\* ReadHeader, CopyChunk and RequestDone: unless a connection has ended before an answer, what
\* the modem is given is the phone's request, all its chunks in order and nothing of another,
\* and it has not been given it before.
THEOREM RequestsWhole == BleSpec => []RequestsAreWhole
  <1>1. ExchangeInv => RequestsAreWhole
    BY StageByPlace DEF ExchangeInv, Executes, Requesting, Parts, RequestsAreWhole
  <1> QED
    BY <1>1, ExchangeCorrect, PTL

\* update_gatt_db_modem_transreceive(): what a phone has received of a response is its
\* beginning, and the whole of it once the phone takes it to be complete.
THEOREM ResponsesOrdered == BleSpec => []ResponsesInOrder
  <1>1. ExchangeInv => ResponsesInOrder
    BY DEF ExchangeInv, Undisturbed, ReceivedOK, ResponsesInOrder
  <1> QED
    BY <1>1, ExchangeCorrect, PTL

\* ble_modem_task_notify() and the three functions that notify: a phone that waits while nothing
\* is under way has been refused, or has opened what was open or closed what was not.
THEOREM SilenceRefused == BleSpec => []SilenceIsRefusal
  <1>1. BleTypeInv /\ ExchangeInv => SilenceIsRefusal
    <2> SUFFICES ASSUME BleTypeInv, ExchangeInv, Quiet, phone.pc \in Waiting, ~interrupted
                 PROVE  \/ refused
                        \/ phone.pc = "closing" /\ hModem = INVALID_HANDLE
                        \/ phone.pc = "opening" /\ hModem # INVALID_HANDLE
      BY DEF SilenceIsRefusal
    <2>1. OpenAnswered \/ CloseAnswered \/ Responded
      BY DEF ExchangeInv, Undisturbed, Stage, Idle, OpenAsked, OpenRuns, CloseAsked, ChunkAsked,
         ChunkCopied, ChunkAcked, Executes, Responds, Pending, Waiting, Quiet, HandlersIdle
    <2>2. CASE OpenAnswered \/ CloseAnswered
      BY <2>2 DEF OpenAnswered, CloseAnswered, Quiet
    <2>3. CASE Responded
      <3>1. ~(Len(air) > Acks)
        BY DEF Quiet, Acks
      <3> QED
        BY <2>3, <3>1 DEF Responded
    <2> QED
      BY <2>1, <2>2, <2>3
  <1> QED
    BY <1>1, TypesHold, ExchangeCorrect, PTL

\* ble_lock_modem() and ble_unlock_modem(): unless a connection has ended before an answer, an
\* open modem is in command mode.
THEOREM CommandModeHeld == BleSpec => []CommandModeWhileOpen
  <1>1. ExchangeInv => CommandModeWhileOpen
    BY DEF ExchangeInv, Undisturbed, ModemOK, CommandModeWhileOpen
  <1> QED
    BY <1>1, ExchangeCorrect, PTL

\* ble_modem_task.c:356, 476 and 491: unless a connection has ended before an answer, no
\* assertion fails, however small the queue.
THEOREM AssertionsHold == BleSpec => []NoAssertionFails
  <1>1. ExchangeInv => NoAssertionFails
    BY DEF ExchangeInv, Undisturbed, NoAssertionFails
  <1> QED
    BY <1>1, ExchangeCorrect, PTL


-----------------------------------------------------------------------------
(* The refinement of ModemService *)

AbstractStep == [Service!ServiceNext]_(Service!serviceVars)

\* What the service shows of a phone that does not change what it does.
LEMMA ServiceStays ==
    ASSUME UNCHANGED <<ServicePhase, phone.handle, phone.complete, hModem, requests, given,
                       interrupted>>
    PROVE  AbstractStep
  BY DEF AbstractStep, Service!serviceVars

\* Queue, attributes, acknowledgements, the modem's mode and the response's way to the phone are
\* the modem's own affair.
LEMMA InnerStep ==
    ASSUME \/ GetMessage \/ UnlockModem \/ ReadHeader \/ CopyChunk \/ SendAck
           \/ SendResponseChunk \/ ble_modem_task_notify \/ PppChanges \/ UNCHANGED bleVars
    PROVE  AbstractStep
  <1>1. UNCHANGED <<phone, hModem, requests, given, refused, interrupted>>
    BY DEF GetMessage, UnlockModem, ReadHeader, CopyChunk, SendAck, SendResponseChunk,
       ble_modem_task_notify, PppChanges
  <1> QED
    BY <1>1, ServiceStays DEF ServicePhase

\* ble_lock_modem() runs while the phone waits for the modem to be opened, whatever comes of it.
LEMMA LockStep == ASSUME Undisturbed, LockModem PROVE AbstractStep
  <1>1. UNCHANGED <<phone, hModem, requests, given, interrupted>>
    BY DEF LockModem
  <1>2. phone.pc = "opening"
    BY StageByPlace DEF LockModem, OpenRuns
  <1> QED
    BY <1>1, <1>2, ServiceStays DEF ServicePhase

\* Modem_Open() and Modem_Close().
LEMMA OpenCloseStep ==
    ASSUME BleTypeInv, Undisturbed, OpenModem \/ CloseModem PROVE AbstractStep
  <1>1. UNCHANGED <<phone, requests, given, refused, interrupted>>
    BY DEF OpenModem, CloseModem
  <1>2. UNCHANGED ServicePhase
    BY <1>1 DEF ServicePhase
  <1>3. CASE UNCHANGED hModem
    BY <1>1, <1>2, <1>3, ServiceStays
  <1>4. CASE OpenModem /\ hModem' # hModem
    <2>1. phone.pc = "opening" /\ hModem = INVALID_HANDLE
      BY <1>4, StageByPlace DEF OpenModem, OpenRuns
    <2>2. Service!Open
      BY <1>1, <1>2, <1>4, <2>1 DEF Service!Open, ServicePhase
    <2> QED
      BY <2>2 DEF AbstractStep, Service!ServiceNext
  <1>5. CASE CloseModem /\ hModem' # hModem
    <2>1. phone.pc = "closing" /\ hModem # INVALID_HANDLE /\ hModem' = INVALID_HANDLE
      BY <1>5, StageByPlace DEF CloseModem, CloseAsked
    <2>2. Service!Close
      BY <1>1, <1>2, <2>1 DEF Service!Close, ServicePhase
    <2> QED
      BY <2>2 DEF AbstractStep, Service!ServiceNext
  <1> QED
    BY <1>3, <1>4, <1>5

\* Modem_SimTransReceive(): the modem executes what the phone has asked, or refuses it.
LEMMA SimTransReceiveStep ==
    ASSUME BleTypeInv, Undisturbed, SimTransReceive PROVE AbstractStep
  <1>1. Executes
    BY StageByPlace DEF SimTransReceive
  <1>2. /\ UNCHANGED <<phone, hModem, requests, interrupted>>
        /\ phone.pc \in {"acking", "answer"} /\ hModem # INVALID_HANDLE
        /\ given.request < requests /\ ~refused
        /\ given.request \in Nat /\ requests \in Nat
    BY <1>1 DEF SimTransReceive, Executes, AwaitsResponse, Requesting, BleTypeInv, NotesTypeOK
  <1>3. ServicePhase = "asking"
    BY <1>2 DEF ServicePhase
  <1>4. s_dataArray[Len(s_dataArray)].request = requests
    <2>1. s_dataArray = Parts(phone.size) /\ phone.size \in Nat /\ 1 <= phone.size
      BY <1>1 DEF Executes, AwaitsResponse, BleTypeInv, PhoneTypeOK, Phones
    <2>2. Len(s_dataArray) = phone.size
      BY <1>2, <2>1, NextPart
    <2> QED
      BY <2>1, <2>2 DEF Parts
  <1>5. CASE refused' = TRUE /\ UNCHANGED given
    <2>1. ServicePhase' = "refused"
      BY <1>2, <1>5 DEF ServicePhase
    <2>2. Service!Refuse
      BY <1>2, <1>3, <1>5, <2>1 DEF Service!Refuse
    <2> QED
      BY <2>2 DEF AbstractStep, Service!ServiceNext
  <1>6. CASE \E len \in ResponseLens : given' = [request |-> requests, len |-> len]
    <2>1. given'.request = requests
      BY <1>6
    <2>2. ServicePhase' = "answering"
      BY <1>2, <2>1 DEF ServicePhase
    <2>3. Service!Execute
      BY <1>2, <1>3, <2>1, <2>2 DEF Service!Execute
    <2> QED
      BY <2>3 DEF AbstractStep, Service!ServiceNext
  <1> QED
    BY <1>4, <1>5, <1>6 DEF SimTransReceive

\* The phone comes, reads the handle and goes.
LEMMA ConnectingStep ==
    ASSUME BleTypeInv, ConnectionOK, Undisturbed, ~interrupted, ~interrupted',
           PhoneConnects \/ PhoneDisconnects \/ PhoneSetsUp
    PROVE  AbstractStep
  <1>1. /\ UNCHANGED <<hModem, requests, given, refused, interrupted>>
        /\ phone \in Phones
    <2>1. interrupted = FALSE /\ phone \in Phones
      BY DEF BleTypeInv, PhoneTypeOK, NotesTypeOK
    <2>2. interrupted' = FALSE
      BY <2>1 DEF PhoneConnects, PhoneDisconnects, PhoneSetsUp
    <2> QED
      BY <2>1, <2>2 DEF PhoneConnects, PhoneDisconnects, PhoneSetsUp, Connected, Disconnected,
         EnableNotification, ExchangeMtu
  <1>2. CASE PhoneConnects
    <2>1. /\ phone.pc = "off" /\ phone'.pc = "setup" /\ phone'.handle = INVALID_HANDLE
          /\ phone'.complete = phone.complete
      BY <1>1, <1>2 DEF PhoneConnects, Phones
    <2>2. Service!Arrive
      BY <1>1, <2>1 DEF Service!Arrive, ServicePhase
    <2> QED
      BY <2>2 DEF AbstractStep, Service!ServiceNext
  <1>3. CASE PhoneDisconnects
    <2>1. /\ phone.pc \in {"setup", "ready"} /\ phone'.pc = "off"
          /\ UNCHANGED <<phone.handle, phone.complete>>
      BY <1>1, <1>3 DEF PhoneDisconnects, Phones, PhonePcs, Waiting
    <2>2. CASE phone.pc = "setup"
      BY <1>1, <2>1, <2>2, ServiceStays DEF ServicePhase
    <2>3. CASE phone.pc = "ready"
      <3>1. Service!Leave
        BY <1>1, <2>1, <2>3 DEF Service!Leave, ServicePhase
      <3> QED
        BY <3>1 DEF AbstractStep, Service!ServiceNext
    <2> QED
      BY <2>1, <2>2, <2>3
  <1>4. CASE PhoneSetsUp
    <2>1. CASE UNCHANGED phone
      BY <1>1, <2>1, ServiceStays DEF ServicePhase
    <2>2. CASE phone' # phone
      <3>1. /\ phone.pc = "setup" /\ phone'.pc = "ready" /\ phone'.handle = hModem
            /\ phone'.complete = phone.complete
        BY <1>1, <1>4, <2>2 DEF PhoneSetsUp, ReadHandle, ConnectionOK, Phones
      <3>2. Service!GetReady
        BY <1>1, <3>1 DEF Service!GetReady, ServicePhase
      <3> QED
        BY <3>2 DEF AbstractStep, Service!ServiceNext
    <2> QED
      BY <2>1, <2>2
  <1> QED
    BY <1>2, <1>3, <1>4

\* The phone writes.
LEMMA WritesStep ==
    ASSUME BleTypeInv, Undisturbed,
           PhoneOpens \/ PhoneCloses \/ PhoneRequests \/ PhoneContinues
    PROVE  AbstractStep
  <1>1. /\ UNCHANGED <<hModem, given, interrupted>>
        /\ phone \in Phones /\ requests \in Nat /\ given.request \in Nat
        /\ given.request <= requests
    BY DEF PhoneOpens, PhoneCloses, PhoneRequests, PhoneContinues, WriteOpen, WriteClose,
           WriteTransReceive, BleTypeInv, PhoneTypeOK, NotesTypeOK, Undisturbed, ReceivedOK
  <1>2. CASE PhoneOpens \/ PhoneCloses
    <2>1. /\ phone.pc = "ready" /\ phone'.pc \in {"opening", "closing"}
          /\ UNCHANGED <<phone.handle, phone.complete, requests>>
      BY <1>1, <1>2 DEF PhoneOpens, PhoneCloses, Phones
    <2>2. Service!AskModem
      BY <1>1, <2>1 DEF Service!AskModem, ServicePhase
    <2> QED
      BY <2>2 DEF AbstractStep, Service!ServiceNext
  <1>3. CASE PhoneRequests
    <2>1. /\ phone.pc = "ready" /\ phone'.pc = "acking"
          /\ phone'.handle = phone.handle /\ phone'.complete = FALSE
          /\ phone.handle # INVALID_HANDLE
          /\ requests' = requests + 1 /\ refused' = FALSE
      BY <1>1, <1>3 DEF PhoneRequests, Phones
    <2>2. hModem = phone.handle
      BY <2>1, StageByPhone DEF Idle
    <2>3. ServicePhase = "ready" /\ ServicePhase' = "asking"
      BY <1>1, <2>1 DEF ServicePhase
    <2>4. Service!Ask
      BY <1>1, <2>1, <2>2, <2>3 DEF Service!Ask
    <2> QED
      BY <2>4 DEF AbstractStep, Service!ServiceNext
  <1>4. CASE PhoneContinues
    <2>1. /\ phone.pc = "next" /\ phone'.pc = "acking"
          /\ UNCHANGED <<phone.handle, phone.complete, requests, refused>>
      BY <1>1, <1>4 DEF PhoneContinues, Phones
    <2> QED
      BY <1>1, <2>1, ServiceStays DEF ServicePhase
  <1> QED
    BY <1>2, <1>3, <1>4

\* The phone takes a notification: of a handle, of a chunk of its request that has arrived, or
\* of a chunk of the response, which is whole with the last.
LEMMA ReceivesStep ==
    ASSUME BleTypeInv, Undisturbed, PhoneReceives PROVE AbstractStep
  <1>1. /\ UNCHANGED <<hModem, requests, given, refused, interrupted>>
        /\ phone \in Phones /\ air # <<>> /\ air \in Seq(Notifications)
    BY DEF PhoneReceives, BleTypeInv, PhoneTypeOK
  <1>2. CASE OpenAnswered \/ CloseAnswered
    <2>1. /\ air = <<[of |-> "handle", value |-> hModem]>>
          /\ phone.pc \in {"opening", "closing"}
          /\ phone.pc = "closing" => hModem = INVALID_HANDLE
      BY <1>1, <1>2 DEF OpenAnswered, CloseAnswered
    <2>2. Head(air) = [of |-> "handle", value |-> hModem]
      BY <2>1
    <2>3. /\ phone'.pc = "ready" /\ phone'.handle = hModem
          /\ UNCHANGED phone.complete
      BY <1>1, <2>1, <2>2 DEF PhoneReceives, Phones
    <2>4. Service!ModemAnswered
      BY <1>1, <2>1, <2>3 DEF Service!ModemAnswered, ServicePhase
    <2> QED
      BY <2>4 DEF AbstractStep, Service!ServiceNext
  <1>3. CASE phone.pc = "acking"
    <2>1. air[1] = [of |-> "ack", value |-> 1]
      <3>1. ChunkAcked \/ AwaitsResponse
        BY <1>1, <1>3 DEF Undisturbed, Stage, Idle, OpenAsked, OpenRuns, OpenAnswered,
           CloseAsked, CloseAnswered, ChunkAsked, ChunkCopied, Executes, Responds, Responded
      <3> QED
        BY <1>3, <3>1 DEF ChunkAcked, AwaitsResponse
    <2>2. Head(air) = [of |-> "ack", value |-> 1]
      BY <1>1, <2>1, TailAt
    <2>3. /\ phone'.pc \in {"answer", "next"}
          /\ UNCHANGED <<phone.handle, phone.complete>>
      BY <1>1, <1>3, <2>2 DEF PhoneReceives, Phones
    <2> QED
      BY <1>1, <1>3, <2>3, ServiceStays DEF ServicePhase
  <1>4. CASE phone.pc = "answer"
    <2> DEFINE c == air[1].value
    <2>1. /\ Head(air) = air[1] /\ Len(air) \in Nat \ {0} /\ Acks = 0
      BY <1>1, <1>4, TailAt DEF Acks
    <2>2. /\ Responds \/ Responded
          /\ given.request = requests
          /\ StreamOf(TRUE) \/ StreamOf(FALSE)
      <3>1. Len(air) > Acks /\ Len(air) # Acks
        BY <2>1
      <3>2. \/ Responds /\ StreamOf(FALSE) /\ given = [request |-> requests, len |-> response.len]
            \/ Responded /\ StreamOf(TRUE) /\ given = [request |-> requests, len |-> StreamEnd]
        BY <1>4, <3>1, StageByPhone DEF Executes, Responds, Responded
      <3>3. \E len : given = [request |-> requests, len |-> len]
        BY <3>2, Zenon
      <3>4. given.request = requests
        BY <3>3
      <3> QED
        BY <3>2, <3>4
    <2>3. air[1].of = "transreceive"
      BY <2>1, <2>2 DEF StreamOf
    <2>4. phone' = Received(c)
      BY <1>4, <2>1, <2>3 DEF PhoneReceives
    <2>5. /\ phone'.pc = IF c.indicator = "LAST" THEN "ready" ELSE "answer"
          /\ phone'.complete = (c.indicator = "LAST")
          /\ phone'.handle = phone.handle
      BY <1>1, <2>4 DEF Received, Phones
    <2>6. ServicePhase = "answering" /\ ~phone.complete
      BY <1>4, <2>2 DEF ServicePhase, Undisturbed, ReceivedOK
    <2>7. CASE c.indicator = "LAST"
      <3>1. Service!Hear
        BY <1>1, <2>5, <2>6, <2>7 DEF Service!Hear, ServicePhase
      <3> QED
        BY <3>1 DEF AbstractStep, Service!ServiceNext
    <2>8. CASE c.indicator # "LAST"
      <3>1. phone'.pc = "answer" /\ phone'.complete = FALSE /\ phone.complete = FALSE
        BY <1>1, <2>5, <2>6, <2>8 DEF Phones
      <3> QED
        BY <1>1, <1>4, <2>5, <3>1, ServiceStays DEF ServicePhase
    <2> QED
      BY <2>7, <2>8
  <1>5. OpenAnswered \/ CloseAnswered \/ phone.pc = "acking" \/ phone.pc = "answer"
    BY <1>1 DEF Undisturbed, Stage, Idle, OpenAsked, OpenRuns, CloseAsked, ChunkAsked, ChunkCopied,
       ChunkAcked, Executes, Responds, Responded, AwaitsResponse
  <1> QED
    BY <1>2, <1>3, <1>4, <1>5

\* The phone gives up: an open or close that is over, or a request that has been refused.
LEMMA GivesUpStep ==
    ASSUME BleTypeInv, Undisturbed, PhoneGivesUp PROVE AbstractStep
  <1>1. /\ UNCHANGED <<hModem, requests, given, refused, interrupted>>
        /\ phone \in Phones /\ phone.pc \in Waiting /\ phone'.pc = "ready"
        /\ UNCHANGED <<phone.handle, phone.complete>>
        /\ Nothing /\ ble_pc = "wait" /\ air = <<>>
        /\ given.request \in Nat /\ requests \in Nat
    BY DEF PhoneGivesUp, Quiet, HandlersIdle, Nothing, BleTypeInv, PhoneTypeOK, NotesTypeOK, Phones
  <1>2. OpenAnswered \/ CloseAnswered \/ Responded
    BY <1>1 DEF Undisturbed, Stage, Idle, OpenAsked, OpenRuns, CloseAsked, ChunkAsked, ChunkCopied,
       ChunkAcked, Executes, Responds, Pending, Nothing, Waiting
  <1>3. CASE OpenAnswered \/ CloseAnswered
    <2>1. /\ phone.handle = hModem
          /\ phone.pc = "opening" \/ (phone.pc = "closing" /\ hModem = INVALID_HANDLE)
      BY <1>1, <1>3 DEF OpenAnswered, CloseAnswered
    <2>2. Service!ModemAnswered
      BY <1>1, <2>1 DEF Service!ModemAnswered, ServicePhase
    <2> QED
      BY <2>2 DEF AbstractStep, Service!ServiceNext
  <1>4. CASE Responded
    <2>1. refused /\ given.request < requests /\ phone.pc \in {"acking", "answer"}
      BY <1>1, <1>4 DEF Responded, AwaitsResponse, Acks
    <2>2. ServicePhase = "refused" /\ ServicePhase' = "ready"
      BY <1>1, <2>1 DEF ServicePhase
    <2>3. Service!GiveUp
      BY <1>1, <2>2 DEF Service!GiveUp
    <2> QED
      BY <2>3 DEF AbstractStep, Service!ServiceNext
  <1> QED
    BY <1>2, <1>3, <1>4

\* ble_modem_task() and the GATT server: whatever way a request is cut and its response sent,
\* the phone has the service ModemService describes, up to the first connection that ends
\* before an answer.
THEOREM ServiceImplemented == BleSpec => ImplementsModemService
  <1>1. BleInit => Service!ServiceInit
    BY DEF BleInit, Service!ServiceInit, ServicePhase
  <1>2. BleTypeInv /\ ExchangeInv /\ [BleNext]_bleVars => AbstractStep
    <2> SUFFICES ASSUME BleTypeInv, ExchangeInv, [BleNext]_bleVars PROVE AbstractStep
      OBVIOUS
    <2>1. CASE interrupted'
      <3>1. Service!CutOff
        BY <2>1 DEF Service!CutOff
      <3> QED
        BY <3>1 DEF AbstractStep, Service!ServiceNext
    <2>2. CASE ~interrupted'
      <3>1. ~interrupted /\ ConnectionOK /\ Undisturbed
        BY <2>2, InterruptedStays DEF ExchangeInv
      <3> QED
        BY <2>2, <3>1, InnerStep, LockStep, OpenCloseStep, SimTransReceiveStep, ConnectingStep,
           WritesStep, ReceivesStep, GivesUpStep DEF BleNext, BleModemTaskStep, PhoneStep
    <2> QED
      BY <2>1, <2>2
  <1> QED
    BY <1>1, <1>2, TypesHold, ExchangeCorrect, PTL
       DEF BleSpec, ImplementsModemService, Service!ServiceSpec, AbstractStep
=============================================================================
