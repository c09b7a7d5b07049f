---------------------------- MODULE MqttOrderProofs ----------------------------
(***************************************************************************)
(* What the queues of MqttClient hold: the notices of a lost connection    *)
(* and the switches of the button.                                         *)
(***************************************************************************)
EXTENDS MqttClientProofs

\* The tuples of UNCHANGED are abbreviations.
USE DEF vars, taskVars, statusVars, instVars, netVars, pubVars, pubqVars, subVars, subqVars,
        cbVars, conVars, boundVars, othersVars

-----------------------------------------------------------------------------
(* Positions in a queue *)

\* Appending to a queue: the new element comes last, the others stay where they are.
LEMMA AppendPositions ==
    ASSUME NEW S, NEW q \in Seq(S), NEW e \in S
    PROVE  /\ Len(Append(q, e)) = Len(q) + 1
           /\ Append(q, e)[Len(q) + 1] = e
           /\ \A i \in 1 .. Len(q) : Append(q, e)[i] = q[i]
  BY AppendProperties

\* Taking the head of a queue: the others move up by one.
LEMMA TailPositions ==
    ASSUME NEW S, NEW q \in Seq(S), q # <<>>
    PROVE  /\ Len(q) \in Nat \ {0}
           /\ Head(q) = q[1]
           /\ Len(Tail(q)) = Len(q) - 1
           /\ \A i \in 1 .. Len(q) - 1 : Tail(q)[i] = q[i + 1]
  BY HeadTailProperties, EmptySeq, LenProperties

-----------------------------------------------------------------------------
(* The button *)

LEMMA PutSwitch ==
    ASSUME NEW q \in Seq(PublisherCmds), NEW armed \in BOOLEAN
    PROVE  ArmedAfter(Append(q, "PUBLISHER_INIT"), armed)
<1> DEFINE r == Append(q, "PUBLISHER_INIT")
<1>1. Len(r) = Len(q) + 1 /\ r[Len(q) + 1] = "PUBLISHER_INIT" /\ Len(q) \in Nat
  BY AppendPositions, LenProperties DEF PublisherCmds
<1>2. Len(q) + 1 \in Switches(r)
  BY <1>1 DEF Switches
<1>3. \A i \in Switches(r) : i <= Len(q) + 1
  BY <1>1 DEF Switches
<1> QED
  BY <1>1, <1>2, <1>3 DEF ArmedAfter

\* A payload changes no switch.
LEMMA PutPayload ==
    ASSUME NEW q \in Seq(PublisherCmds), NEW p \in Payloads, NEW armed \in BOOLEAN,
           ArmedAfter(q, armed)
    PROVE  ArmedAfter(Append(q, p), armed)
<1> DEFINE r == Append(q, p)
<1>1. /\ Len(r) = Len(q) + 1 /\ r[Len(q) + 1] = p /\ Len(q) \in Nat
      /\ \A i \in 1 .. Len(q) : r[i] = q[i]
  BY AppendPositions, LenProperties DEF PublisherCmds
<1>2. p \notin {"PUBLISHER_INIT", "PUBLISHER_DEINIT"}
  BY DEF Payloads
<1>3. Switches(r) = Switches(q)
  BY <1>1, <1>2 DEF Switches
<1>4. \A i \in Switches(q) : r[i] = q[i]
  BY <1>1 DEF Switches
<1> QED
  BY <1>3, <1>4 DEF ArmedAfter

\* The command taken has its effect; what the rest of the queue will do is the same.
LEMMA GetSwitch ==
    ASSUME NEW q \in Seq(PublisherCmds), q # <<>>, NEW armed \in BOOLEAN,
           ArmedAfter(q, armed)
    PROVE  ArmedAfter(Tail(q), IF Head(q) \in Payloads THEN armed ELSE Head(q) = "PUBLISHER_INIT")
<1> DEFINE t == Tail(q)
           armed2 == IF Head(q) \in Payloads THEN armed ELSE Head(q) = "PUBLISHER_INIT"
<1>1. /\ Len(q) \in Nat \ {0} /\ Head(q) = q[1] /\ Len(t) = Len(q) - 1
      /\ \A i \in 1 .. Len(q) - 1 : t[i] = q[i + 1]
  BY TailPositions
<1>2. \A i \in 1 .. Len(q) - 1 : i \in Switches(t) <=> i + 1 \in Switches(q)
  BY <1>1 DEF Switches
<1>3. Switches(t) \subseteq 1 .. Len(q) - 1 /\ Switches(q) \subseteq 1 .. Len(q)
  BY <1>1 DEF Switches
<1>4. CASE Switches(t) # {}
  <2>1. PICK k \in Switches(t) : TRUE
    BY <1>4
  <2>2. k + 1 \in Switches(q)
    BY <1>2, <1>3, <2>1
  <2>3. PICK last \in Switches(q) :
           q[last] = "PUBLISHER_INIT" /\ \A i \in Switches(q) : i <= last
    BY <2>2 DEF ArmedAfter
  <2>4. last - 1 \in 1 .. Len(q) - 1
    BY <2>2, <2>3, <2>1, <1>1, <1>3
  <2>5. last - 1 \in Switches(t) /\ t[last - 1] = "PUBLISHER_INIT"
    BY <2>3, <2>4, <1>1, <1>2, <1>3
  <2>6. \A i \in Switches(t) : i <= last - 1
    BY <2>3, <2>4, <1>1, <1>2, <1>3
  <2> QED
    BY <2>5, <2>6 DEF ArmedAfter
<1>5. CASE Switches(t) = {}
  <2>1. Switches(q) \subseteq {1}
    <3> SUFFICES ASSUME NEW i \in Switches(q), i # 1 PROVE FALSE
      OBVIOUS
    <3>1. i - 1 \in 1 .. Len(q) - 1 /\ (i - 1) + 1 = i
      BY <1>1, <1>3
    <3>2. i - 1 \in Switches(t)
      BY <1>2, <3>1
    <3> QED
      BY <1>5, <3>2
  <2>2. Head(q) \in PublisherCmds
    BY HeadTailProperties
  <2>3. 1 \in Switches(q) <=> Head(q) \notin Payloads
    BY <1>1, <2>2 DEF Switches, PublisherCmds, Payloads
  <2>4. armed2
    <3>1. CASE Head(q) \in Payloads
      BY <2>1, <2>3, <3>1 DEF ArmedAfter
    <3>2. CASE Head(q) \notin Payloads
      BY <1>1, <2>1, <2>3, <3>2 DEF ArmedAfter
    <3> QED
      BY <3>1, <3>2
  <2> QED
    BY <1>5, <2>4 DEF ArmedAfter
<1> QED
  BY <1>4, <1>5

\* Between the notice of a loss and the put of INIT nothing is said of the button.
ButtonInv ==
    /\ pub_pc = "initq" => button_armed
    /\ mqtt_pc \in {"ops", "deinitPub"} /\ pub_pc \in {"loop", "publish", "fail"} =>
          ArmedAfter(g_publisher_task_q, button_armed)

\* Whether the button will be armed depends on the queue and the button alone.
LEMMA ButtonNext ==
    ASSUME /\ pub_pc' = "initq" => button_armed'
           /\ mqtt_pc' \in {"ops", "deinitPub"} /\ pub_pc' \in {"loop", "publish", "fail"} =>
                 ArmedAfter(g_publisher_task_q', button_armed')
    PROVE  ButtonInv'
  BY DEF ButtonInv, ArmedAfter, Switches

LEMMA ButtonUntouched ==
    ASSUME ButtonInv, UNCHANGED <<pub_pc, button_armed, g_publisher_task_q>>,
           mqtt_pc' \in {"ops", "deinitPub"} => mqtt_pc \in {"ops", "deinitPub"}
    PROVE  ButtonInv'
  BY ButtonNext DEF ButtonInv

LEMMA PublisherButton == ASSUME TypeOK, ButtonInv, PublisherStep PROVE ButtonInv'
<1>1. CASE PublisherStart
  BY <1>1, ButtonNext DEF PublisherStart
<1>2. CASE PublisherCreateQueue
  <2>1. Switches(g_publisher_task_q') = {}
    BY <1>2, EmptySeq DEF PublisherCreateQueue, Switches
  <2> QED
    BY <1>2, <2>1, ButtonNext DEF ButtonInv, PublisherCreateQueue, ArmedAfter
<1>3. CASE PublisherGet
  <2>1. g_publisher_task_q \in Seq(PublisherCmds) /\ button_armed \in BOOLEAN
    BY DEF TypeOK
  <2>2. /\ pub_pc = "loop" /\ pub_pc' # "initq" /\ mqtt_pc' = mqtt_pc
        /\ g_publisher_task_q # <<>> /\ g_publisher_task_q' = Tail(g_publisher_task_q)
        /\ button_armed' = IF Head(g_publisher_task_q) \in Payloads THEN button_armed
                           ELSE Head(g_publisher_task_q) = "PUBLISHER_INIT"
    BY <1>3 DEF PublisherGet
  <2>3. ASSUME mqtt_pc \in {"ops", "deinitPub"}
        PROVE  ArmedAfter(g_publisher_task_q', button_armed')
    BY <2>1, <2>2, <2>3, GetSwitch DEF ButtonInv
  <2> QED
    BY <2>2, <2>3, ButtonNext
<1>4. CASE PublisherPublish
  BY <1>4, ButtonNext DEF ButtonInv, PublisherPublish
<1>5. CASE PublisherReportFailure
  BY <1>5, ButtonNext DEF ButtonInv, PublisherReportFailure
<1> QED
  BY <1>1, <1>2, <1>3, <1>4, <1>5 DEF PublisherStep

LEMMA EnvironmentButton == ASSUME TypeOK, ButtonInv, EnvironmentStep PROVE ButtonInv'
<1>1. CASE isr_button_press
  <2>1. UNCHANGED <<mqtt_pc, pub_pc, button_armed>>
    BY <1>1 DEF isr_button_press
  <2>2. CASE UNCHANGED g_publisher_task_q
    BY <2>1, <2>2, ButtonUntouched
  <2>3. CASE g_publisher_task_q' = Append(g_publisher_task_q, Toggled)
    <3>1. Toggled \in Payloads
      BY DEF Toggled, Payloads
    <3>2. g_publisher_task_q \in Seq(PublisherCmds) /\ button_armed \in BOOLEAN
      BY DEF TypeOK
    <3> QED
      BY <2>1, <2>3, <3>1, <3>2, PutPayload, ButtonNext DEF ButtonInv
  <2> QED
    BY <1>1, <2>2, <2>3 DEF isr_button_press
<1>2. CASE NotifyMqtt \/ ConnectionLost \/ ForeignPublish
  BY <1>2, ButtonUntouched DEF NotifyMqtt, notifyUnchanged, ConnectionLost, ForeignPublish
<1> QED
  BY <1>1, <1>2 DEF EnvironmentStep

LEMMA OtherThreadsButton ==
    ASSUME ButtonInv, SubscriberStep \/ CallbackStep \/ ConsoleStep PROVE ButtonInv'
<1>1. CASE SubscriberStep
  BY <1>1, ButtonUntouched DEF SubscriberStep, Subscribe, SubscriberReportFailure,
              SubscriberCreateQueue, SubscriberGet
<1>2. CASE CallbackStep
  BY <1>2, ButtonUntouched DEF CallbackStep, CallbackDisconnect, CallbackMessage, CallbackLoadFlag,
              CallbackStoreFlag, CallbackPutDisconnection, CallbackPutUpdate
<1>3. CASE ConsoleStep
  BY <1>3, ButtonUntouched DEF ConsoleStep, NotifyPutExitLoop, NotifySet, notifyUnchanged
<1> QED
  BY <1>1, <1>2, <1>3

\* The reconnection ends with INIT as the last switch, and a fresh publisher has armed the
\* button before its queue is empty.
LEMMA TaskButton == ASSUME TypeOK, ButtonInv, MqttTaskStep PROVE ButtonInv'
<1>1. CASE ReinitPublisher
  <2>1. UNCHANGED <<pub_pc, button_armed>>
    BY <1>1 DEF ReinitPublisher, PutPublisherQ
  <2>2. CASE mqtt_pc' = "ops" /\ g_publisher_task_q' = Append(g_publisher_task_q, "PUBLISHER_INIT")
    <3>1. g_publisher_task_q \in Seq(PublisherCmds) /\ button_armed \in BOOLEAN
      BY DEF TypeOK
    <3> QED
      BY <2>1, <2>2, <3>1, PutSwitch, ButtonNext DEF ButtonInv
  <2>3. CASE UNCHANGED <<mqtt_pc, g_publisher_task_q>>
    BY <2>1, <2>3, ButtonUntouched
  <2> QED
    BY <1>1, <2>2, <2>3 DEF ReinitPublisher, PutPublisherQ
<1>2. CASE CreatePublisher
  BY <1>2, ButtonNext, ButtonUntouched DEF CreatePublisher
<1>3. CASE HandleCommand
  BY <1>3, ButtonUntouched DEF HandleCommand
<1>4. CASE DeinitPublisher \/ Disconnect \/ Resubscribe
  <2>1. CASE DeinitPublisher /\ publisher_q_created
    BY <2>1, ButtonNext DEF ButtonInv, DeinitPublisher, PutPublisherQ
  <2>2. CASE DeinitPublisher /\ ~publisher_q_created
    BY <2>2, ButtonUntouched DEF DeinitPublisher, PutPublisherQ
  <2>3. CASE Disconnect \/ Resubscribe
    BY <2>3, ButtonUntouched DEF Disconnect, Resubscribe
  <2> QED
    BY <1>4, <2>1, <2>2, <2>3
<1>5. CASE mqtt_init \/ CreateSubscriber \/ WaitForNotification
  BY <1>5, ButtonUntouched DEF mqtt_init, CreateSubscriber, WaitForNotification
<1>6. CASE mqtt_connect
  BY <1>6, ButtonUntouched DEF mqtt_connect, ConnectAttempt, ConnectNotified, ConnectTimeout,
              ConnectLoadFlag, ConnectStoreFlag, ConnectReturns
<1>7. CASE Cleanup
  BY <1>7, ButtonUntouched, ButtonNext DEF ButtonInv, Cleanup, DeleteSubscriber,
              DeletePublisher, CleanupConnection, CleanupResources, MarkStopped
<1> QED
  BY <1>1, <1>2, <1>3, <1>4, <1>5, <1>6, <1>7 DEF MqttTaskStep, HandleDisconnection

LEMMA ButtonStutter == ASSUME ButtonInv, UNCHANGED vars PROVE ButtonInv'
  BY ButtonUntouched

\* handle_mqtt_operations() arms the button again after every reconnection, however its
\* commands, the presses and the re-creation of the publisher's queue follow each other:
\* a publisher that works while the client serves has its button armed or is about to.
THEOREM ButtonCorrect == Spec => []ButtonRearmed
<1>1. Init => ButtonInv
  <2>1. Init => pub_pc = "none"
    BY DEF Init
  <2> QED
    BY <2>1 DEF ButtonInv
<1>2. TypeOK /\ ButtonInv /\ [Next]_vars => ButtonInv'
  BY PublisherButton, EnvironmentButton, OtherThreadsButton, TaskButton, ButtonStutter DEF Next
<1>3. ButtonInv => ButtonRearmed
  BY DEF ButtonInv, ButtonRearmed
<1> QED
  BY <1>1, <1>2, <1>3, TypeCorrect, PTL DEF Spec

-----------------------------------------------------------------------------
(* The notices of a lost connection *)

\* Positions of the notices after a put of something else, of a notice, and after a get.
LEMMA PutOther ==
    ASSUME NEW q \in Seq(MqttTaskCmds), NEW cmd \in MqttTaskCmds, cmd # "HANDLE_DISCONNECTION"
    PROVE  QueuedNotices(Append(q, cmd)) = QueuedNotices(q)
<1> DEFINE r == Append(q, cmd)
<1>1. /\ Len(r) = Len(q) + 1 /\ r[Len(q) + 1] = cmd /\ Len(q) \in Nat
      /\ \A i \in 1 .. Len(q) : r[i] = q[i]
  BY AppendPositions, LenProperties
<1> QED
  BY <1>1 DEF QueuedNotices

LEMMA PutNotice ==
    ASSUME NEW q \in Seq(MqttTaskCmds), QueuedNotices(q) = {}
    PROVE  QueuedNotices(Append(q, "HANDLE_DISCONNECTION")) = {Len(q) + 1}
<1> DEFINE r == Append(q, "HANDLE_DISCONNECTION")
<1>1. /\ Len(r) = Len(q) + 1 /\ r[Len(q) + 1] = "HANDLE_DISCONNECTION" /\ Len(q) \in Nat
      /\ \A i \in 1 .. Len(q) : r[i] = q[i]
  BY AppendPositions, LenProperties DEF MqttTaskCmds
<1> QED
  BY <1>1 DEF QueuedNotices

LEMMA GetNotice ==
    ASSUME NEW q \in Seq(MqttTaskCmds), q # <<>>
    PROVE  /\ Head(q) = "HANDLE_DISCONNECTION" <=> 1 \in QueuedNotices(q)
           /\ QueuedNotices(Tail(q)) = {i - 1 : i \in QueuedNotices(q) \ {1}}
<1> DEFINE t == Tail(q)
<1>1. /\ Len(q) \in Nat \ {0} /\ Head(q) = q[1] /\ Len(t) = Len(q) - 1
      /\ \A i \in 1 .. Len(q) - 1 : t[i] = q[i + 1]
  BY TailPositions
<1>2. \A i \in 1 .. Len(q) - 1 : i \in QueuedNotices(t) <=> i + 1 \in QueuedNotices(q)
  BY <1>1 DEF QueuedNotices
<1>3. QueuedNotices(t) \subseteq 1 .. Len(q) - 1 /\ QueuedNotices(q) \subseteq 1 .. Len(q)
  BY <1>1 DEF QueuedNotices
<1>4. ASSUME NEW i \in QueuedNotices(t) PROVE i \in {j - 1 : j \in QueuedNotices(q) \ {1}}
  <2>1. i + 1 \in QueuedNotices(q) \ {1} /\ (i + 1) - 1 = i
    BY <1>1, <1>2, <1>3
  <2> QED
    BY <2>1
<1>5. ASSUME NEW j \in QueuedNotices(q) \ {1} PROVE j - 1 \in QueuedNotices(t)
  <2>1. j - 1 \in 1 .. Len(q) - 1 /\ (j - 1) + 1 = j
    BY <1>1, <1>3
  <2> QED
    BY <1>2, <2>1
<1>6. Head(q) = "HANDLE_DISCONNECTION" <=> 1 \in QueuedNotices(q)
  BY <1>1 DEF QueuedNotices
<1> QED
  BY <1>4, <1>5, <1>6

\* Until the first command, by the place of the client task.  Nothing leads from the wait for
\* a notification back to a start.
UnconnectedPcs == {"init", "attempt", "wait", "deinitPub", "disconnect"}
ConnectedPcs == {"flagLoad", "flagStore", "createSub", "createPub", "ops", "resubscribe",
                 "reinitPub"}

NoticeInv ==
    commands = 0 =>
        /\ con_pc = "idle" /\ s_notification = "none" /\ result = "err"
        /\ mqtt_pc \in UnconnectedPcs => ~connected /\ Notices = {}
        /\ mqtt_pc \in ConnectedPcs =>
              IF connected THEN Notices = {} ELSE \E n \in Notices : Notices = {n}

CallbackHasNotice == cb_pc \in {"clear", "clearStore", "putDisc"}

LEMMA NoticesSame ==
    ASSUME event_pending' = event_pending, CallbackHasNotice' <=> CallbackHasNotice,
           QueuedNotices(g_mqtt_task_q') = QueuedNotices(g_mqtt_task_q)
    PROVE  Notices' = Notices
  BY DEF Notices, CallbackHasNotice, QueuedNotices

\* A step that leaves everything the invariant speaks of, but perhaps the place.
LEMMA NoticeUntouched ==
    ASSUME NoticeInv, Notices' = Notices,
           UNCHANGED <<commands, con_pc, s_notification, connected>>,
           commands = 0 => result' = "err",
           mqtt_pc' \in UnconnectedPcs => mqtt_pc \in UnconnectedPcs,
           mqtt_pc' \in ConnectedPcs => mqtt_pc \in ConnectedPcs
    PROVE  NoticeInv'
  BY DEF NoticeInv

LEMMA PublisherNotice == ASSUME TypeOK, NoticeInv, PublisherStep PROVE NoticeInv'
<1>1. QueuedNotices(g_mqtt_task_q') = QueuedNotices(g_mqtt_task_q)
  <2>1. CASE PublisherReportFailure
    <3>1. g_mqtt_task_q' = Append(g_mqtt_task_q, "HANDLE_MQTT_PUBLISH_FAILURE")
      BY <2>1 DEF PublisherReportFailure, PutMqttQ
    <3> QED
      BY <3>1, PutOther DEF TypeOK, MqttTaskCmds
  <2>2. CASE UNCHANGED g_mqtt_task_q
    BY <2>2
  <2> QED
    BY <2>1, <2>2 DEF PublisherStep, PublisherStart, PublisherCreateQueue, PublisherGet,
                      PublisherPublish
<1>2. UNCHANGED <<mqtt_pc, result, commands, con_pc, s_notification, connected,
                  event_pending, cb_pc>>
  BY DEF PublisherStep, PublisherStart, PublisherCreateQueue, PublisherGet, PublisherPublish,
         PublisherReportFailure
<1> QED
  BY <1>1, <1>2, NoticesSame, NoticeUntouched DEF NoticeInv, CallbackHasNotice

LEMMA SubscriberNotice == ASSUME TypeOK, NoticeInv, SubscriberStep PROVE NoticeInv'
<1>1. QueuedNotices(g_mqtt_task_q') = QueuedNotices(g_mqtt_task_q)
  <2>1. CASE SubscriberReportFailure
    <3>1. g_mqtt_task_q' = Append(g_mqtt_task_q, "HANDLE_MQTT_SUBSCRIBE_FAILURE")
      BY <2>1 DEF SubscriberReportFailure, PutMqttQ
    <3> QED
      BY <3>1, PutOther DEF TypeOK, MqttTaskCmds
  <2>2. CASE UNCHANGED g_mqtt_task_q
    BY <2>2
  <2> QED
    BY <2>1, <2>2 DEF SubscriberStep, Subscribe, SubscriberCreateQueue, SubscriberGet
<1>2. UNCHANGED <<mqtt_pc, result, commands, con_pc, s_notification, connected,
                  event_pending, cb_pc>>
  BY DEF SubscriberStep, Subscribe, SubscriberReportFailure, SubscriberCreateQueue,
         SubscriberGet
<1> QED
  BY <1>1, <1>2, NoticesSame, NoticeUntouched DEF NoticeInv, CallbackHasNotice

\* The callback carries a notice from the library to the queue.
LEMMA CallbackNotice == ASSUME TypeOK, NoticeInv, CallbackStep PROVE NoticeInv'
<1>1. UNCHANGED <<mqtt_pc, result, commands, con_pc, s_notification, connected>>
  BY DEF CallbackStep, CallbackDisconnect, CallbackMessage, CallbackLoadFlag,
         CallbackStoreFlag, CallbackPutDisconnection, CallbackPutUpdate
<1>2. CASE CallbackDisconnect
  <2>1. /\ event_pending /\ ~CallbackHasNotice
        /\ ~event_pending' /\ cb_pc' = "clear" /\ UNCHANGED g_mqtt_task_q
    BY <1>2 DEF CallbackDisconnect, CallbackHasNotice
  <2>2. /\ Notices = {-1} \cup QueuedNotices(g_mqtt_task_q)
        /\ Notices' = {0} \cup QueuedNotices(g_mqtt_task_q)
    BY <2>1 DEF Notices, CallbackHasNotice, QueuedNotices
  <2>3. -1 \notin QueuedNotices(g_mqtt_task_q)
    BY DEF QueuedNotices
  <2>4. (\E n \in Notices : Notices = {n}) => Notices' = {0}
    BY <2>2, <2>3
  <2> QED
    BY <1>1, <2>2, <2>4 DEF NoticeInv
<1>3. CASE CallbackPutDisconnection
  <2>1. /\ CallbackHasNotice /\ ~CallbackHasNotice' /\ UNCHANGED event_pending
        /\ g_mqtt_task_q' = Append(g_mqtt_task_q, "HANDLE_DISCONNECTION")
    BY <1>3 DEF CallbackPutDisconnection, PutMqttQ, CallbackHasNotice
  <2>2. 0 \in Notices
    BY <2>1 DEF Notices, CallbackHasNotice
  <2>3. ASSUME \E n \in Notices : Notices = {n}
        PROVE  \E n \in Notices' : Notices' = {n}
    <3>1. Notices = {0}
      BY <2>2, <2>3
    <3>2. ~event_pending
      BY <3>1 DEF Notices
    <3>3. QueuedNotices(g_mqtt_task_q) = {}
      BY <3>1 DEF Notices, QueuedNotices
    <3>4. QueuedNotices(g_mqtt_task_q') = {Len(g_mqtt_task_q) + 1}
      BY <2>1, <3>3, PutNotice DEF TypeOK
    <3>5. Notices' = {Len(g_mqtt_task_q) + 1}
      BY <2>1, <3>2, <3>4 DEF Notices, CallbackHasNotice, QueuedNotices
    <3> QED
      BY <3>5
  <2> QED
    BY <1>1, <2>2, <2>3 DEF NoticeInv
<1>4. CASE CallbackMessage \/ CallbackLoadFlag \/ CallbackStoreFlag \/ CallbackPutUpdate
  <2>1. /\ CallbackHasNotice' <=> CallbackHasNotice
        /\ UNCHANGED <<event_pending, g_mqtt_task_q>>
    BY <1>4 DEF CallbackMessage, CallbackLoadFlag, CallbackStoreFlag, CallbackPutUpdate,
                CallbackHasNotice
  <2> QED
    BY <1>1, <2>1, NoticesSame, NoticeUntouched DEF NoticeInv
<1> QED
  BY <1>2, <1>3, <1>4 DEF CallbackStep

LEMMA OutsideNotice ==
    ASSUME TypeOK, NoticeInv, ConsoleStep \/ EnvironmentStep PROVE NoticeInv'
<1>1. CASE ConnectionLost
  <2>1. /\ connected /\ ~connected' /\ event_pending'
        /\ UNCHANGED <<mqtt_pc, result, commands, con_pc, s_notification, cb_pc, g_mqtt_task_q>>
    BY <1>1 DEF ConnectionLost
  <2>2. Notices' = {-1} \cup Notices
    BY <2>1 DEF Notices, QueuedNotices
  <2> QED
    BY <2>1, <2>2 DEF NoticeInv
<1>2. CASE NotifyMqtt
  <2>1. commands' # 0
    BY <1>2 DEF NotifyMqtt, TypeOK
  <2> QED
    BY <2>1 DEF NoticeInv
<1>3. CASE ConsoleStep
  <2>1. con_pc # "idle" /\ UNCHANGED commands
    BY <1>3 DEF ConsoleStep, NotifyPutExitLoop, NotifySet
  <2> QED
    BY <2>1 DEF NoticeInv
<1>4. CASE isr_button_press \/ ForeignPublish
  <2>1. UNCHANGED <<mqtt_pc, result, commands, con_pc, s_notification, connected,
                    event_pending, cb_pc, g_mqtt_task_q>>
    BY <1>4 DEF isr_button_press, ForeignPublish
  <2> QED
    BY <2>1, NoticesSame, NoticeUntouched DEF NoticeInv, CallbackHasNotice
<1> QED
  BY <1>1, <1>2, <1>3, <1>4 DEF EnvironmentStep

\* The client task connects only without a notice, and takes one only when it is not
\* connected.
LEMMA TaskNotice == ASSUME TypeOK, NoticeInv, MqttTaskStep PROVE NoticeInv'
<1>1. CASE ConnectAttempt
  <2>1. UNCHANGED <<commands, con_pc, s_notification, event_pending, cb_pc, g_mqtt_task_q>>
    BY <1>1 DEF ConnectAttempt
  <2>2. Notices' = Notices
    BY <2>1, NoticesSame DEF CallbackHasNotice
  <2>3. ASSUME commands = 0
        PROVE  /\ result' = "err"
               /\ \/ connected' /\ mqtt_pc' = "flagLoad"
                  \/ ~connected' /\ mqtt_pc' \in {"wait", "deleteSub"}
    BY <1>1, <2>3 DEF ConnectAttempt, ConnectReturns, NoticeInv
  <2>4. mqtt_pc = "attempt"
    BY <1>1 DEF ConnectAttempt
  <2> QED
    BY <2>1, <2>2, <2>3, <2>4 DEF NoticeInv, UnconnectedPcs, ConnectedPcs
<1>2. CASE HandleCommand
  <2>1. /\ mqtt_pc = "ops" /\ g_mqtt_task_q # <<>> /\ g_mqtt_task_q' = Tail(g_mqtt_task_q)
        /\ UNCHANGED <<result, commands, con_pc, s_notification, connected, event_pending, cb_pc>>
    BY <1>2 DEF HandleCommand
  <2>2. /\ Head(g_mqtt_task_q) = "HANDLE_DISCONNECTION" <=> 1 \in QueuedNotices(g_mqtt_task_q)
        /\ QueuedNotices(g_mqtt_task_q') = {i - 1 : i \in QueuedNotices(g_mqtt_task_q) \ {1}}
        /\ QueuedNotices(g_mqtt_task_q) \subseteq Nat \ {0}
    <3>1. g_mqtt_task_q \in Seq(MqttTaskCmds)
      BY DEF TypeOK
    <3>2. QueuedNotices(g_mqtt_task_q) \subseteq Nat \ {0}
      BY DEF QueuedNotices
    <3> QED
      BY <2>1, <3>1, <3>2, GetNotice
  <2>3. CASE Head(g_mqtt_task_q) = "HANDLE_DISCONNECTION"
    <3>1. mqtt_pc' = "deinitPub"
      BY <1>2, <2>3 DEF HandleCommand
    <3>2. 1 \in Notices
      BY <2>2, <2>3 DEF Notices
    <3>3. ASSUME Notices = {1} PROVE Notices' = {}
      <4>1. ~event_pending /\ ~CallbackHasNotice
        BY <3>3 DEF Notices, CallbackHasNotice
      <4>2. QueuedNotices(g_mqtt_task_q) = {1}
        BY <2>2, <2>3, <3>3 DEF Notices
      <4>3. QueuedNotices(g_mqtt_task_q') = {}
        BY <2>2, <4>2
      <4> QED
        BY <2>1, <4>1, <4>3 DEF Notices, CallbackHasNotice, QueuedNotices
    <3> QED
      BY <2>1, <3>1, <3>2, <3>3 DEF NoticeInv, UnconnectedPcs, ConnectedPcs
  <2>4. CASE Head(g_mqtt_task_q) # "HANDLE_DISCONNECTION"
    <3>1. mqtt_pc' \in {"ops", "deleteSub"}
      BY <1>2, <2>1, <2>4 DEF HandleCommand
    <3>2. QueuedNotices(g_mqtt_task_q') = {i - 1 : i \in QueuedNotices(g_mqtt_task_q)}
      BY <2>2, <2>4
    <3>3. Notices = {} => Notices' = {}
      <4>1. Notices = {} => QueuedNotices(g_mqtt_task_q') = {}
        BY <3>2 DEF Notices
      <4> QED
        BY <2>1, <4>1 DEF Notices, QueuedNotices
    <3>4. ASSUME NEW n \in Notices, Notices = {n} PROVE \E m \in Notices' : Notices' = {m}
      <4>1. CASE n \in QueuedNotices(g_mqtt_task_q)
        <5>1. QueuedNotices(g_mqtt_task_q) = {n} /\ n \in Nat \ {0}
          BY <2>2, <3>4, <4>1 DEF Notices
        <5>2. QueuedNotices(g_mqtt_task_q') = {n - 1}
          BY <3>2, <5>1
        <5>3. ~event_pending /\ ~CallbackHasNotice
          BY <3>4, <5>1 DEF Notices, CallbackHasNotice
        <5>4. Notices' = {n - 1}
          BY <2>1, <5>2, <5>3 DEF Notices, CallbackHasNotice, QueuedNotices
        <5> QED
          BY <5>4
      <4>2. CASE n \notin QueuedNotices(g_mqtt_task_q)
        <5>1. QueuedNotices(g_mqtt_task_q) = {}
          BY <3>4, <4>2 DEF Notices
        <5>2. QueuedNotices(g_mqtt_task_q') = {}
          BY <3>2, <5>1
        <5>3. Notices' = Notices
          BY <2>1, <5>1, <5>2 DEF Notices, QueuedNotices
        <5> QED
          BY <3>4, <5>3
      <4> QED
        BY <4>1, <4>2
    <3> QED
      BY <2>1, <3>1, <3>3, <3>4 DEF NoticeInv, UnconnectedPcs, ConnectedPcs
  <2> QED
    BY <2>3, <2>4
<1>3. CASE Disconnect
  <2>1. UNCHANGED <<commands, con_pc, s_notification, event_pending, cb_pc, g_mqtt_task_q>>
    BY <1>3 DEF Disconnect
  <2>2. Notices' = Notices
    BY <2>1, NoticesSame DEF CallbackHasNotice
  <2> QED
    BY <1>3, <2>1, <2>2 DEF Disconnect, NoticeInv, UnconnectedPcs, ConnectedPcs
<1>4. CASE WaitForNotification \/ ConnectNotified
  <2>1. s_notification # "none" /\ UNCHANGED commands
    BY <1>4 DEF WaitForNotification, ConnectNotified
  <2> QED
    BY <2>1 DEF NoticeInv
<1>5. CASE mqtt_init
  <2>1. /\ mqtt_pc = "init" /\ mqtt_pc' \in {"attempt", "deleteSub"} /\ result' = "err"
        /\ UNCHANGED <<commands, con_pc, s_notification, connected, event_pending, cb_pc,
                       g_mqtt_task_q>>
    BY <1>5 DEF mqtt_init
  <2> QED
    BY <2>1, NoticesSame, NoticeUntouched DEF NoticeInv, CallbackHasNotice, UnconnectedPcs,
                                            ConnectedPcs
<1>6. CASE ConnectTimeout \/ ConnectLoadFlag \/ ConnectStoreFlag
  <2>1. UNCHANGED <<commands, con_pc, s_notification, connected, event_pending, cb_pc,
                    g_mqtt_task_q>>
    BY <1>6 DEF ConnectTimeout, ConnectLoadFlag, ConnectStoreFlag
  <2>2. /\ commands = 0 => result' = "err"
        /\ mqtt_pc' \in UnconnectedPcs => mqtt_pc \in UnconnectedPcs
        /\ mqtt_pc' \in ConnectedPcs => mqtt_pc \in ConnectedPcs
    BY <1>6 DEF ConnectTimeout, ConnectLoadFlag, ConnectStoreFlag, ConnectReturns, NoticeInv,
                UnconnectedPcs, ConnectedPcs
  <2> QED
    BY <2>1, <2>2, NoticesSame, NoticeUntouched DEF CallbackHasNotice
<1>7. CASE CreateSubscriber \/ CreatePublisher
  <2>1. /\ mqtt_pc \in ConnectedPcs /\ mqtt_pc' \notin UnconnectedPcs
        /\ UNCHANGED <<result, commands, con_pc, s_notification, connected, event_pending,
                       cb_pc, g_mqtt_task_q>>
    BY <1>7 DEF CreateSubscriber, CreatePublisher, ConnectedPcs, UnconnectedPcs
  <2> QED
    BY <2>1, NoticesSame, NoticeUntouched DEF NoticeInv, CallbackHasNotice
<1>8. CASE DeinitPublisher \/ Resubscribe \/ ReinitPublisher
  <2>1. UNCHANGED <<result, commands, con_pc, s_notification, connected, event_pending,
                    cb_pc, g_mqtt_task_q>>
    BY <1>8 DEF DeinitPublisher, Resubscribe, ReinitPublisher, PutPublisherQ
  <2>2. /\ mqtt_pc' \in UnconnectedPcs => mqtt_pc \in UnconnectedPcs
        /\ mqtt_pc' \in ConnectedPcs => mqtt_pc \in ConnectedPcs
    BY <1>8 DEF DeinitPublisher, Resubscribe, ReinitPublisher, PutPublisherQ, ConnectedPcs,
                UnconnectedPcs
  <2> QED
    BY <2>1, <2>2, NoticesSame, NoticeUntouched DEF NoticeInv, CallbackHasNotice
<1>9. CASE Cleanup
  <2>1. /\ mqtt_pc' \notin UnconnectedPcs \cup ConnectedPcs
        /\ UNCHANGED <<result, commands, con_pc, s_notification>>
    BY <1>9 DEF Cleanup, DeleteSubscriber, DeletePublisher, CleanupConnection,
                CleanupResources, MarkStopped, UnconnectedPcs, ConnectedPcs
  <2> QED
    BY <2>1 DEF NoticeInv
<1> QED
  BY <1>1, <1>2, <1>3, <1>4, <1>5, <1>6, <1>7, <1>8, <1>9
     DEF MqttTaskStep, mqtt_connect, HandleDisconnection

\* handle_mqtt_disconnect_event() and handle_mqtt_operations(): until the console intervenes
\* every loss of the connection is handled exactly once, for any number of losses, and a
\* client that is connected has no old notice to come.
THEOREM NoticeCorrect == Spec => []OneNoticePerDrop
<1>1. Init => NoticeInv
  <2>1. Init => /\ QueuedNotices(g_mqtt_task_q) = {} /\ ~event_pending /\ ~CallbackHasNotice
                /\ ~connected /\ con_pc = "idle" /\ s_notification = "none"
                /\ result = "err" /\ mqtt_pc = "init"
    BY EmptySeq DEF Init, QueuedNotices, CallbackHasNotice
  <2> QED
    BY <2>1 DEF NoticeInv, Notices, CallbackHasNotice, UnconnectedPcs, ConnectedPcs
<1>2. TypeOK /\ NoticeInv /\ [Next]_vars => NoticeInv'
  <2>1. UNCHANGED vars /\ NoticeInv => NoticeInv'
    BY NoticesSame, NoticeUntouched DEF NoticeInv, CallbackHasNotice
  <2> QED
    BY <2>1, PublisherNotice, SubscriberNotice, CallbackNotice, OutsideNotice, TaskNotice
       DEF Next
<1>3. NoticeInv => OneNoticePerDrop
  BY DEF NoticeInv, OneNoticePerDrop, ConnectedPcs
<1> QED
  BY <1>1, <1>2, <1>3, TypeCorrect, PTL DEF Spec
=============================================================================
