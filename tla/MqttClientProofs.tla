--------------------------- MODULE MqttClientProofs ---------------------------
(***************************************************************************)
(* Theorems about MqttClient, for every length of the queues, number of    *)
(* retries, and number of commands, presses, drops and messages.           *)
(***************************************************************************)
EXTENDS MqttClient, SequenceTheorems, TLAPS

\* The tuples of UNCHANGED are abbreviations.
USE DEF vars, taskVars, statusVars, instVars, netVars, pubVars, pubqVars, subVars, subqVars,
        cbVars, conVars, boundVars, othersVars

-----------------------------------------------------------------------------
(* Queues *)

\* Taking the head of a bounded queue.
LEMMA GetType ==
    ASSUME NEW S, NEW n \in Nat, NEW q \in Seq(S), q # <<>>, Len(q) <= n
    PROVE  Head(q) \in S /\ Tail(q) \in Seq(S) /\ Len(Tail(q)) <= n
  BY HeadTailProperties, EmptySeq

\* Appending to a queue that is not full.
LEMMA PutType ==
    ASSUME NEW S, NEW n \in Nat, NEW q \in Seq(S), NEW e \in S, ~(Len(q) >= n)
    PROVE  Append(q, e) \in Seq(S) /\ Len(Append(q, e)) <= n
  BY AppendProperties, LenProperties

\* A put to the client task's queue keeps its type.
LEMMA PutMqttQType ==
    ASSUME TypeOK, NEW cmd \in MqttTaskCmds, PutMqttQ(cmd)
    PROVE  /\ g_mqtt_task_q' \in Seq(MqttTaskCmds)
           /\ Len(g_mqtt_task_q') <= MQTT_TASK_QUEUE_LENGTH
  BY PutType, QueueAssumption DEF TypeOK, PutMqttQ, MqttQFull

-----------------------------------------------------------------------------
(* Type correctness *)

LEMMA InitType == Init => TypeOK
<1> SUFFICES ASSUME Init PROVE TypeOK
  OBVIOUS
<1>1. retry_count \in 0 .. MAX_MQTT_CONN_RETRIES - 1 /\ sub_retry \in 0 .. MAX_SUBSCRIBE_RETRIES - 1
  BY RetryAssumption DEF Init
<1>2. /\ g_mqtt_task_q \in Seq(MqttTaskCmds) /\ Len(g_mqtt_task_q) <= MQTT_TASK_QUEUE_LENGTH
      /\ g_publisher_task_q \in Seq(PublisherCmds)
      /\ Len(g_publisher_task_q) <= PUBLISHER_TASK_QUEUE_LENGTH
      /\ g_subscriber_task_q \in Seq(SubscriberCmds)
      /\ Len(g_subscriber_task_q) <= SUBSCRIBER_TASK_QUEUE_LENGTH
      /\ inflight \in Seq(ForeignPayloads)
  BY QueueAssumption, EmptySeq DEF Init
<1> QED
  BY <1>1, <1>2
     DEF Init, TypeOK, MqttPcs, Statuses, Notifications, PubPcs, SubPcs, CbPcs, ConPcs,
         Payloads, ForeignPayloads, DeadPayload, DeadCommand

LEMMA PublisherType == ASSUME TypeOK, PublisherStep PROVE TypeOK'
<1>1. CASE PublisherStart
  BY <1>1 DEF TypeOK, PublisherStart, PubPcs
<1>2. CASE PublisherCreateQueue
  <2>1. /\ g_publisher_task_q' \in Seq(PublisherCmds)
        /\ Len(g_publisher_task_q') <= PUBLISHER_TASK_QUEUE_LENGTH
    BY <1>2, EmptySeq, QueueAssumption DEF PublisherCreateQueue
  <2>2. stranded' \in SUBSET BlockedSenders
    BY <1>2 DEF TypeOK, PublisherCreateQueue, BlockedSenders
  <2> QED
    BY <1>2, <2>1, <2>2 DEF TypeOK, PublisherCreateQueue, PubPcs
<1>3. CASE PublisherGet
  <2>1. /\ g_publisher_task_q' \in Seq(PublisherCmds)
        /\ Len(g_publisher_task_q') <= PUBLISHER_TASK_QUEUE_LENGTH
    BY <1>3, GetType, QueueAssumption DEF TypeOK, PublisherGet
  <2>2. button_armed' \in BOOLEAN
    BY <1>3 DEF TypeOK, PublisherGet
  <2> QED
    BY <1>3, <2>1, <2>2 DEF TypeOK, PublisherGet, PubPcs
<1>4. CASE PublisherPublish
  <2>1. inflight' \in Seq(ForeignPayloads)
    BY <1>4, AppendProperties DEF TypeOK, PublisherPublish, ForeignPayloads
  <2> QED
    BY <1>4, <2>1 DEF TypeOK, PublisherPublish, PubPcs, DeadPayload, Payloads
<1>5. CASE PublisherReportFailure
  <2>1. /\ g_mqtt_task_q' \in Seq(MqttTaskCmds)
        /\ Len(g_mqtt_task_q') <= MQTT_TASK_QUEUE_LENGTH
    BY <1>5, PutMqttQType DEF PublisherReportFailure, MqttTaskCmds
  <2> QED
    BY <1>5, <2>1 DEF TypeOK, PublisherReportFailure, PubPcs
<1> QED
  BY <1>1, <1>2, <1>3, <1>4, <1>5 DEF PublisherStep

LEMMA SubscriberType == ASSUME TypeOK, SubscriberStep PROVE TypeOK'
<1>1. CASE Subscribe
  <2>1. sub_pc' \in SubPcs
    BY <1>1 DEF TypeOK, Subscribe, AfterSubscribe, SubscribeFailed, SubPcs
  <2>2. sub_retry' \in 0 .. MAX_SUBSCRIBE_RETRIES - 1
    BY <1>1, RetryAssumption DEF TypeOK, Subscribe, RetriesLeft
  <2>3. subscribed' \in BOOLEAN
    BY <1>1 DEF TypeOK, Subscribe
  <2>4. UNCHANGED g_current_device_state
    BY <1>1 DEF Subscribe
  <2> QED
    BY <1>1, <2>1, <2>2, <2>3, <2>4 DEF TypeOK, Subscribe
<1>2. CASE SubscriberReportFailure
  <2>1. /\ g_mqtt_task_q' \in Seq(MqttTaskCmds)
        /\ Len(g_mqtt_task_q') <= MQTT_TASK_QUEUE_LENGTH
    BY <1>2, PutMqttQType DEF SubscriberReportFailure, MqttTaskCmds
  <2> QED
    BY <1>2, <2>1 DEF TypeOK, SubscriberReportFailure, AfterSubscribe, SubPcs
<1>3. CASE SubscriberCreateQueue
  <2>1. /\ g_subscriber_task_q' \in Seq(SubscriberCmds)
        /\ Len(g_subscriber_task_q') <= SUBSCRIBER_TASK_QUEUE_LENGTH
    BY <1>3, EmptySeq, QueueAssumption DEF SubscriberCreateQueue
  <2>2. stranded' \in SUBSET BlockedSenders
    BY <1>3 DEF TypeOK, SubscriberCreateQueue
  <2> QED
    BY <1>3, <2>1, <2>2 DEF TypeOK, SubscriberCreateQueue, SubPcs
<1>4. CASE SubscriberGet
  <2>1. /\ g_subscriber_task_q' \in Seq(SubscriberCmds)
        /\ Len(g_subscriber_task_q') <= SUBSCRIBER_TASK_QUEUE_LENGTH
        /\ Head(g_subscriber_task_q) \in SubscriberCmds
    BY <1>4, GetType, QueueAssumption DEF TypeOK, SubscriberGet
  <2> QED
    BY <1>4, <2>1 DEF TypeOK, SubscriberGet, SubscriberCmds, SubPcs
<1> QED
  BY <1>1, <1>2, <1>3, <1>4 DEF SubscriberStep

LEMMA CallbackType == ASSUME TypeOK, CallbackStep PROVE TypeOK'
<1>1. CASE CallbackDisconnect
  <2>1. cb_pc' \in CbPcs /\ cb_pc' # "putUpdate"
    BY <1>1 DEF CallbackDisconnect, CbPcs
  <2>2. event_pending' \in BOOLEAN
    BY <1>1 DEF CallbackDisconnect
  <2>3. UNCHANGED <<taskVars, s_status_flag, statusVars, instVars, s_notification,
                    g_mqtt_task_q, pubVars, pubqVars, subVars, subqVars, cb_reg, cb_data,
                    conVars, connected, subscribed, inflight, stranded, fault, boundVars>>
    BY <1>1 DEF CallbackDisconnect
  <2> QED
    BY <2>1, <2>2, <2>3 DEF TypeOK
<1>2. CASE CallbackMessage
  <2>1. inflight' \in Seq(ForeignPayloads) /\ cb_data' \in ForeignPayloads
    BY <1>2, HeadTailProperties DEF TypeOK, CallbackMessage
  <2> QED
    BY <1>2, <2>1 DEF TypeOK, CallbackMessage, CbPcs
<1>3. CASE CallbackLoadFlag
  BY <1>3 DEF TypeOK, CallbackLoadFlag, CbPcs
<1>4. CASE CallbackStoreFlag
  <2>1. cb_data' \in ForeignPayloads /\ cb_pc' \in CbPcs
    BY <1>4 DEF TypeOK, CallbackStoreFlag, CbPcs, DeadPayload, ForeignPayloads, Payloads
  <2>2. cb_pc' = "putUpdate" => cb_data' \in Payloads
    BY <1>4 DEF CallbackStoreFlag
  <2> QED
    BY <1>4, <2>1, <2>2 DEF TypeOK, CallbackStoreFlag
<1>5. CASE CallbackPutDisconnection
  <2>1. /\ g_mqtt_task_q' \in Seq(MqttTaskCmds)
        /\ Len(g_mqtt_task_q') <= MQTT_TASK_QUEUE_LENGTH
    BY <1>5, PutMqttQType DEF CallbackPutDisconnection, MqttTaskCmds
  <2> QED
    BY <1>5, <2>1 DEF TypeOK, CallbackPutDisconnection, CbPcs
<1>6. CASE CallbackPutUpdate
  <2>1. /\ g_subscriber_task_q' \in Seq(SubscriberCmds)
        /\ Len(g_subscriber_task_q') <= SUBSCRIBER_TASK_QUEUE_LENGTH
    <3>1. cb_data \in SubscriberCmds
      BY <1>6 DEF TypeOK, CallbackPutUpdate, SubscriberCmds
    <3>2. CASE subscriber_q_created
      <4>1. /\ ~(Len(g_subscriber_task_q) >= SUBSCRIBER_TASK_QUEUE_LENGTH)
            /\ g_subscriber_task_q' = Append(g_subscriber_task_q, cb_data)
        BY <1>6, <3>2 DEF CallbackPutUpdate, SubscriberQFull
      <4> QED
        BY <3>1, <4>1, PutType, QueueAssumption DEF TypeOK
    <3>3. CASE ~subscriber_q_created
      BY <1>6, <3>3 DEF TypeOK, CallbackPutUpdate
    <3> QED
      BY <3>2, <3>3
  <2>2. /\ cb_pc' \in CbPcs /\ cb_data' \in ForeignPayloads
        /\ cb_pc' = "putUpdate" => cb_data' \in Payloads
        /\ fault' \in {"none", "null_queue", "double_free"}
    BY <1>6 DEF TypeOK, CallbackPutUpdate, CbPcs, DeadPayload, ForeignPayloads, Payloads
  <2> QED
    BY <1>6, <2>1, <2>2 DEF TypeOK, CallbackPutUpdate
<1> QED
  BY <1>1, <1>2, <1>3, <1>4, <1>5, <1>6 DEF CallbackStep

LEMMA ConsoleType == ASSUME TypeOK, ConsoleStep PROVE TypeOK'
<1>1. CASE NotifyPutExitLoop
  <2>1. /\ g_mqtt_task_q' \in Seq(MqttTaskCmds)
        /\ Len(g_mqtt_task_q') <= MQTT_TASK_QUEUE_LENGTH
    BY <1>1, PutMqttQType DEF NotifyPutExitLoop, MqttTaskCmds
  <2> QED
    BY <1>1, <2>1 DEF TypeOK, NotifyPutExitLoop, notifyUnchanged, ConPcs
<1>2. CASE NotifySet
  BY <1>2 DEF TypeOK, NotifySet, notifyUnchanged, ConPcs, DeadCommand, Notifications
<1> QED
  BY <1>1, <1>2 DEF ConsoleStep

LEMMA EnvironmentType == ASSUME TypeOK, EnvironmentStep PROVE TypeOK'
<1>1. CASE NotifyMqtt
  <2>1. con_pc' \in ConPcs /\ con_cmd' \in Notifications /\ commands' \in Nat
    BY <1>1, BudgetAssumption DEF TypeOK, NotifyMqtt, ConPcs
  <2> QED
    BY <1>1, <2>1 DEF TypeOK, NotifyMqtt, notifyUnchanged
<1>2. CASE isr_button_press
  <2>1. /\ g_publisher_task_q' \in Seq(PublisherCmds)
        /\ Len(g_publisher_task_q') <= PUBLISHER_TASK_QUEUE_LENGTH
    <3>1. Toggled \in PublisherCmds
      BY DEF Toggled, PublisherCmds, Payloads
    <3>2. CASE UNCHANGED g_publisher_task_q
      BY <3>2 DEF TypeOK
    <3>3. CASE /\ ~(Len(g_publisher_task_q) >= PUBLISHER_TASK_QUEUE_LENGTH)
               /\ g_publisher_task_q' = Append(g_publisher_task_q, Toggled)
      <4>1. g_publisher_task_q \in Seq(PublisherCmds)
        BY DEF TypeOK
      <4> QED
        BY <3>1, <3>3, <4>1, PutType, QueueAssumption
    <3> QED
      BY <1>2, <3>2, <3>3 DEF isr_button_press, PublisherQFull
  <2>2. fault' \in {"none", "null_queue", "double_free"} /\ presses' \in Nat
    BY <1>2 DEF TypeOK, isr_button_press
  <2> QED
    BY <1>2, <2>1, <2>2 DEF TypeOK, isr_button_press
<1>3. CASE ConnectionLost
  <2>1. connected' \in BOOLEAN /\ subscribed' \in BOOLEAN /\ event_pending' \in BOOLEAN
    BY <1>3 DEF ConnectionLost
  <2>2. inflight' \in Seq(ForeignPayloads) /\ drops' \in Nat
    BY <1>3, EmptySeq DEF TypeOK, ConnectionLost
  <2>3. UNCHANGED <<taskVars, s_status_flag, statusVars, instVars, s_notification,
                    g_mqtt_task_q, pubVars, pubqVars, subVars, subqVars, cbVars, conVars,
                    stranded, fault, commands, presses, foreign>>
    BY <1>3 DEF ConnectionLost
  <2> QED
    BY <2>1, <2>2, <2>3 DEF TypeOK
<1>4. CASE ForeignPublish
  <2>1. inflight' \in Seq(ForeignPayloads) /\ foreign' \in Nat
    BY <1>4, AppendProperties DEF TypeOK, ForeignPublish
  <2> QED
    BY <1>4, <2>1 DEF TypeOK, ForeignPublish
<1> QED
  BY <1>1, <1>2, <1>3, <1>4 DEF EnvironmentStep

LEMMA ConnectType == ASSUME TypeOK, mqtt_connect PROVE TypeOK'
<1>1. CASE ConnectAttempt
  <2>1. mqtt_pc' \in MqttPcs /\ result' \in {"ok", "err"}
    BY <1>1 DEF TypeOK, ConnectAttempt, ConnectReturns, MqttPcs, ConnectPcs,
                DisconnectionPcs, StopPcs
  <2>2. retry_count' \in 0 .. MAX_MQTT_CONN_RETRIES - 1
    BY <1>1, RetryAssumption DEF TypeOK, ConnectAttempt, ConnectReturns, RetriesLeft
  <2>3. s_mqtt_status' \in Statuses
    BY <1>1 DEF TypeOK, ConnectAttempt, ConnectReturns, Statuses
  <2>4. connected' \in BOOLEAN
    BY <1>1 DEF ConnectAttempt
  <2>5. UNCHANGED <<mqtt_reg, s_status_flag, s_mqtt_started, instVars, s_notification,
                    g_mqtt_task_q, pubVars, pubqVars, subVars, subqVars, subscribed,
                    inflight, event_pending, stranded, fault, othersVars>>
    BY <1>1 DEF ConnectAttempt
  <2> QED
    BY <2>1, <2>2, <2>3, <2>4, <2>5 DEF TypeOK
<1>2. CASE ConnectNotified
  <2>1. mqtt_pc' \in MqttPcs /\ result' \in {"ok", "err"}
    BY <1>2 DEF TypeOK, ConnectNotified, ConnectReturns, MqttPcs, ConnectPcs,
                DisconnectionPcs, StopPcs
  <2>2. retry_count' \in 0 .. MAX_MQTT_CONN_RETRIES - 1
    BY <1>2, RetryAssumption DEF TypeOK, ConnectNotified, ConnectReturns
  <2>3. s_mqtt_status' \in Statuses
    BY <1>2 DEF TypeOK, ConnectNotified, ConnectReturns, Statuses
  <2> QED
    BY <1>2, <2>1, <2>2, <2>3 DEF TypeOK, ConnectNotified
<1>3. CASE ConnectTimeout
  BY <1>3 DEF TypeOK, ConnectTimeout, MqttPcs, ConnectPcs
<1>4. CASE ConnectLoadFlag
  BY <1>4 DEF TypeOK, ConnectLoadFlag, MqttPcs, ConnectPcs, Masks
<1>5. CASE ConnectStoreFlag
  <2>1. mqtt_pc' \in MqttPcs /\ s_mqtt_status' \in Statuses
    BY <1>5 DEF TypeOK, ConnectStoreFlag, ConnectReturns, MqttPcs, DisconnectionPcs
  <2>2. retry_count' \in 0 .. MAX_MQTT_CONN_RETRIES - 1
    BY <1>5, RetryAssumption DEF ConnectStoreFlag, ConnectReturns
  <2> QED
    BY <1>5, <2>1, <2>2 DEF TypeOK, ConnectStoreFlag
<1> QED
  BY <1>1, <1>2, <1>3, <1>4, <1>5 DEF mqtt_connect

LEMMA StartType ==
    ASSUME TypeOK, mqtt_init \/ CreateSubscriber \/ CreatePublisher PROVE TypeOK'
<1>1. CASE mqtt_init
  <2>1. /\ s_status_flag' \in SUBSET Masks
        /\ s_mqtt_network_buffer' \in {"null", "live", "freed"}
        /\ libs_inited' \in BOOLEAN /\ g_mqtt_connection' \in BOOLEAN
    <3>1. PICK o \in InitOutcomes :
            /\ s_status_flag' = s_status_flag \cup o.flags
            /\ s_mqtt_network_buffer' = o.buffer
            /\ libs_inited' = ("LIBS_INITIALIZED" \in o.flags)
            /\ g_mqtt_connection' = ("MQTT_INSTANCE_CREATED" \in o.flags)
      BY <1>1 DEF mqtt_init
    <3>2. o.flags \subseteq Masks
      BY DEF InitOutcomes, Masks
    <3>3. o.buffer \in {s_mqtt_network_buffer, "null", "live"}
      BY DEF InitOutcomes
    <3> QED
      BY <3>1, <3>2, <3>3 DEF TypeOK
  <2>2. mqtt_pc' \in MqttPcs /\ s_mqtt_status' \in Statuses
    BY <1>1 DEF TypeOK, mqtt_init, MqttPcs, ConnectPcs, StopPcs, Statuses
  <2>3. retry_count' \in 0 .. MAX_MQTT_CONN_RETRIES - 1 /\ result' \in {"ok", "err"}
    BY <1>1, RetryAssumption DEF mqtt_init
  <2> QED
    BY <1>1, <2>1, <2>2, <2>3 DEF TypeOK, mqtt_init
<1>2. CASE CreateSubscriber
  BY <1>2 DEF TypeOK, CreateSubscriber, MqttPcs, StopPcs, SubPcs, Statuses
<1>3. CASE CreatePublisher
  <2>1. /\ pub_pc' \in PubPcs /\ mqtt_pc' \in MqttPcs
        /\ s_mqtt_started' \in BOOLEAN /\ s_mqtt_status' \in Statuses
    BY <1>3 DEF TypeOK, CreatePublisher, MqttPcs, StopPcs, PubPcs, Statuses
  <2>2. UNCHANGED <<mqtt_reg, result, retry_count, s_status_flag, instVars,
                    s_notification, g_mqtt_task_q, pub_data, button_armed, pubqVars,
                    subVars, subqVars, netVars, stranded, fault, othersVars>>
    BY <1>3 DEF CreatePublisher
  <2> QED
    BY <2>1, <2>2 DEF TypeOK
<1> QED
  BY <1>1, <1>2, <1>3

LEMMA OperationsType ==
    ASSUME TypeOK, HandleCommand \/ HandleDisconnection PROVE TypeOK'
<1>1. CASE HandleCommand
  <2>1. /\ g_mqtt_task_q' \in Seq(MqttTaskCmds)
        /\ Len(g_mqtt_task_q') <= MQTT_TASK_QUEUE_LENGTH
    BY <1>1, GetType, QueueAssumption DEF TypeOK, HandleCommand
  <2>2. mqtt_pc' \in MqttPcs /\ s_mqtt_status' \in Statuses
    BY <1>1 DEF TypeOK, HandleCommand, MqttPcs, DisconnectionPcs, StopPcs, Statuses
  <2> QED
    BY <1>1, <2>1, <2>2 DEF TypeOK, HandleCommand
<1>2. ASSUME NEW from, NEW cmd \in PublisherCmds, NEW to \in MqttPcs,
             PutPublisherQ(from, cmd, to)
      PROVE  TypeOK'
  <2>1. /\ g_publisher_task_q' \in Seq(PublisherCmds)
        /\ Len(g_publisher_task_q') <= PUBLISHER_TASK_QUEUE_LENGTH
    <3>1. CASE UNCHANGED g_publisher_task_q
      BY <3>1 DEF TypeOK
    <3>2. CASE /\ ~(Len(g_publisher_task_q) >= PUBLISHER_TASK_QUEUE_LENGTH)
               /\ g_publisher_task_q' = Append(g_publisher_task_q, cmd)
      <4>1. g_publisher_task_q \in Seq(PublisherCmds)
        BY DEF TypeOK
      <4> QED
        BY <3>2, <4>1, PutType, QueueAssumption
    <3> QED
      BY <1>2, <3>1, <3>2 DEF PutPublisherQ, PublisherQFull
  <2>2. mqtt_pc' \in MqttPcs /\ fault' \in {"none", "null_queue", "double_free"}
    BY <1>2 DEF TypeOK, PutPublisherQ
  <2> QED
    BY <1>2, <2>1, <2>2 DEF TypeOK, PutPublisherQ
<1>3. CASE DeinitPublisher
  BY <1>2, <1>3 DEF DeinitPublisher, PublisherCmds, MqttPcs, DisconnectionPcs
<1>4. CASE ReinitPublisher
  BY <1>2, <1>4 DEF ReinitPublisher, PublisherCmds, MqttPcs
<1>5. CASE Disconnect
  <2>1. /\ inflight' \in Seq(ForeignPayloads)
        /\ retry_count' \in 0 .. MAX_MQTT_CONN_RETRIES - 1
    BY <1>5, EmptySeq, RetryAssumption DEF Disconnect
  <2>2. /\ mqtt_pc' \in MqttPcs /\ result' \in {"ok", "err"}
        /\ connected' \in BOOLEAN /\ subscribed' \in BOOLEAN
    BY <1>5 DEF Disconnect, MqttPcs, ConnectPcs
  <2> QED
    BY <1>5, <2>1, <2>2 DEF TypeOK, Disconnect
<1>6. CASE Resubscribe
  <2>1. /\ g_subscriber_task_q' \in Seq(SubscriberCmds)
        /\ Len(g_subscriber_task_q') <= SUBSCRIBER_TASK_QUEUE_LENGTH
    <3>1. CASE UNCHANGED g_subscriber_task_q
      BY <3>1 DEF TypeOK
    <3>2. CASE /\ ~(Len(g_subscriber_task_q) >= SUBSCRIBER_TASK_QUEUE_LENGTH)
               /\ g_subscriber_task_q' = Append(g_subscriber_task_q, "SUBSCRIBE_TO_TOPIC")
      <4>1. g_subscriber_task_q \in Seq(SubscriberCmds) /\ "SUBSCRIBE_TO_TOPIC" \in SubscriberCmds
        BY DEF TypeOK, SubscriberCmds
      <4> QED
        BY <3>2, <4>1, PutType, QueueAssumption
    <3> QED
      BY <1>6, <3>1, <3>2 DEF Resubscribe, SubscriberQFull
  <2>2. mqtt_pc' \in MqttPcs /\ fault' \in {"none", "null_queue", "double_free"}
    BY <1>6 DEF TypeOK, Resubscribe, MqttPcs, DisconnectionPcs
  <2> QED
    BY <1>6, <2>1, <2>2 DEF TypeOK, Resubscribe
<1> QED
  BY <1>1, <1>3, <1>4, <1>5, <1>6 DEF HandleDisconnection

LEMMA CleanupType == ASSUME TypeOK, Cleanup \/ WaitForNotification PROVE TypeOK'
<1>1. CASE DeleteSubscriber
  BY <1>1, RetryAssumption DEF TypeOK, DeleteSubscriber, MqttPcs, StopPcs, SubPcs
<1>2. CASE DeletePublisher
  BY <1>2 DEF TypeOK, DeletePublisher, MqttPcs, StopPcs, PubPcs, DeadPayload, Payloads
<1>3. CASE CleanupConnection
  <2>1. /\ connected' \in BOOLEAN /\ subscribed' \in BOOLEAN
        /\ inflight' \in Seq(ForeignPayloads)
    BY <1>3, EmptySeq DEF TypeOK, CleanupConnection
  <2> QED
    BY <1>3, <2>1 DEF TypeOK, CleanupConnection, MqttPcs, StopPcs
<1>4. CASE CleanupResources
  <2>1. /\ s_mqtt_network_buffer' \in {"null", "live", "freed"}
        /\ fault' \in {"none", "null_queue", "double_free"}
        /\ g_mqtt_connection' \in BOOLEAN /\ mqtt_pc' \in MqttPcs
    BY <1>4 DEF TypeOK, CleanupResources, MqttPcs, StopPcs
  <2>2. /\ libs_inited' \in BOOLEAN /\ connected' \in BOOLEAN /\ subscribed' \in BOOLEAN
        /\ event_pending' \in BOOLEAN /\ inflight' \in Seq(ForeignPayloads)
    BY <1>4, EmptySeq DEF TypeOK, CleanupResources
  <2>3. /\ cb_pc' \in CbPcs /\ cb_reg' \in SUBSET Masks /\ cb_data' \in ForeignPayloads
        /\ cb_pc' = "putUpdate" => cb_data' \in Payloads
        /\ stranded' \in SUBSET BlockedSenders
    BY <1>4 DEF TypeOK, CleanupResources, CbPcs, DeadPayload, ForeignPayloads, Payloads
  <2> QED
    BY <1>4, <2>1, <2>2, <2>3 DEF TypeOK, CleanupResources
<1>5. CASE MarkStopped
  <2>1. mqtt_pc' \in MqttPcs /\ s_mqtt_started' \in BOOLEAN
    BY <1>5 DEF MarkStopped, MqttPcs
  <2> QED
    BY <1>5, <2>1 DEF TypeOK, MarkStopped
<1>6. CASE WaitForNotification
  <2>1. mqtt_pc' \in MqttPcs /\ s_mqtt_status' \in Statuses
    BY <1>6 DEF TypeOK, WaitForNotification, MqttPcs, Statuses
  <2> QED
    BY <1>6, <2>1 DEF TypeOK, WaitForNotification
<1> QED
  BY <1>1, <1>2, <1>3, <1>4, <1>5, <1>6 DEF Cleanup

LEMMA StutterType == ASSUME TypeOK, UNCHANGED vars PROVE TypeOK'
  BY DEF TypeOK

\* Type correctness: every C variable, thread and queue keeps to its range, and no queue
\* grows past the length it was created with.
THEOREM TypeCorrect == Spec => []TypeOK
<1>1. Init => TypeOK
  BY InitType
<1>2. TypeOK /\ [Next]_vars => TypeOK'
  BY PublisherType, SubscriberType, CallbackType, ConsoleType, EnvironmentType,
     ConnectType, StartType, OperationsType, CleanupType, StutterType
     DEF Next, MqttTaskStep
<1> QED
  BY <1>1, <1>2, PTL DEF Spec
-----------------------------------------------------------------------------
(* The subtasks and the resources *)

USE DEF ServingPcs, DeletingPcs, EmptyPcs, ConnectPcs, DisconnectionPcs, AllAcquired

LEMMA InitResource == Init => ResourceInv
  BY DEF Init, ResourceInv, OwnedByPlace, FlagsCoverResources, LibraryActivity, NothingHeld

\* The other threads keep a subtask alive that is alive, and hold what they held.
LEMMA PublisherResource ==
    ASSUME TypeOK, ResourceInv, PublisherStep PROVE ResourceInv'
<1>1. OwnedByPlace'
  BY DEF ResourceInv, OwnedByPlace, PublisherStep, PublisherStart, PublisherCreateQueue,
         PublisherGet, PublisherPublish, PublisherReportFailure
<1>2. FlagsCoverResources'
  BY DEF ResourceInv, FlagsCoverResources, PublisherStep, PublisherStart,
         PublisherCreateQueue, PublisherGet, PublisherPublish, PublisherReportFailure
<1>3. LibraryActivity'
  BY DEF ResourceInv, LibraryActivity, PublisherStep, PublisherStart,
         PublisherCreateQueue, PublisherGet, PublisherPublish, PublisherReportFailure
<1>4. NothingHeld'
  BY DEF ResourceInv, NothingHeld, PublisherStep, PublisherStart, PublisherCreateQueue,
         PublisherGet, PublisherPublish, PublisherReportFailure
<1> QED
  BY <1>1, <1>2, <1>3, <1>4 DEF ResourceInv

LEMMA SubscriberResource ==
    ASSUME TypeOK, ResourceInv, SubscriberStep PROVE ResourceInv'
<1>1. OwnedByPlace'
  BY DEF ResourceInv, OwnedByPlace, SubscriberStep, Subscribe, SubscriberReportFailure,
         SubscriberCreateQueue, SubscriberGet, AfterSubscribe, SubscribeFailed
<1>2. FlagsCoverResources'
  BY DEF ResourceInv, FlagsCoverResources, SubscriberStep, Subscribe,
         SubscriberReportFailure, SubscriberCreateQueue, SubscriberGet
<1>3. LibraryActivity'
  BY DEF ResourceInv, LibraryActivity, SubscriberStep, Subscribe,
         SubscriberReportFailure, SubscriberCreateQueue, SubscriberGet
<1>4. NothingHeld'
  BY DEF ResourceInv, NothingHeld, SubscriberStep, Subscribe, SubscriberReportFailure,
         SubscriberCreateQueue, SubscriberGet
<1> QED
  BY <1>1, <1>2, <1>3, <1>4 DEF ResourceInv

\* The callback stores a word that agrees with s_status_flag on the resources, because
\* mqtt_init(), which alone changes these flags, does not run while it is active.
LEMMA CallbackResource ==
    ASSUME TypeOK, ResourceInv, CallbackStep PROVE ResourceInv'
<1>1. OwnedByPlace'
  BY DEF ResourceInv, OwnedByPlace, CallbackStep, CallbackDisconnect, CallbackMessage,
         CallbackLoadFlag, CallbackStoreFlag, CallbackPutDisconnection, CallbackPutUpdate
<1>2. FlagsCoverResources'
  BY DEF ResourceInv, FlagsCoverResources, ResourceMasks, CallbackStep, CallbackDisconnect,
         CallbackMessage, CallbackLoadFlag, CallbackStoreFlag, CallbackPutDisconnection,
         CallbackPutUpdate
<1>3. LibraryActivity'
  BY DEF ResourceInv, LibraryActivity, CallbackStep, CallbackDisconnect, CallbackMessage,
         CallbackLoadFlag, CallbackStoreFlag, CallbackPutDisconnection, CallbackPutUpdate
<1>4. NothingHeld'
  BY DEF ResourceInv, NothingHeld, CallbackStep, CallbackDisconnect, CallbackMessage,
         CallbackLoadFlag, CallbackStoreFlag, CallbackPutDisconnection, CallbackPutUpdate
<1> QED
  BY <1>1, <1>2, <1>3, <1>4 DEF ResourceInv

LEMMA OutsideResource ==
    ASSUME TypeOK, ResourceInv, ConsoleStep \/ EnvironmentStep PROVE ResourceInv'
<1>1. OwnedByPlace'
  BY DEF ResourceInv, OwnedByPlace, ConsoleStep, NotifyPutExitLoop, NotifySet,
         EnvironmentStep, NotifyMqtt, notifyUnchanged, isr_button_press, ConnectionLost,
         ForeignPublish
<1>2. FlagsCoverResources'
  BY DEF ResourceInv, FlagsCoverResources, ConsoleStep, NotifyPutExitLoop, NotifySet,
         EnvironmentStep, NotifyMqtt, notifyUnchanged, isr_button_press, ConnectionLost,
         ForeignPublish
<1>3. LibraryActivity'
  BY DEF ResourceInv, LibraryActivity, ConsoleStep, NotifyPutExitLoop, NotifySet,
         EnvironmentStep, NotifyMqtt, notifyUnchanged, isr_button_press, ConnectionLost,
         ForeignPublish
<1>4. NothingHeld'
  BY DEF ResourceInv, NothingHeld, ConsoleStep, NotifyPutExitLoop, NotifySet,
         EnvironmentStep, NotifyMqtt, notifyUnchanged, isr_button_press, ConnectionLost,
         ForeignPublish
<1> QED
  BY <1>1, <1>2, <1>3, <1>4 DEF ResourceInv

\* A start acquires everything before it connects, and connects before it hires.
LEMMA StartResource ==
    ASSUME TypeOK, ResourceInv, mqtt_init \/ mqtt_connect \/ CreateSubscriber \/ CreatePublisher PROVE ResourceInv'
<1>1. CASE mqtt_init
  <2>0. cb_pc = "idle" /\ pub_pc = "none" /\ sub_pc = "none"
    BY <1>1 DEF ResourceInv, OwnedByPlace, LibraryActivity, mqtt_init
  <2>1. PICK o \in InitOutcomes :
           /\ s_status_flag' = s_status_flag \cup o.flags
           /\ s_mqtt_network_buffer' = o.buffer
           /\ libs_inited' = ("LIBS_INITIALIZED" \in o.flags)
           /\ g_mqtt_connection' = ("MQTT_INSTANCE_CREATED" \in o.flags)
           /\ mqtt_pc' = IF "MQTT_INSTANCE_CREATED" \in o.flags THEN "attempt" ELSE "deleteSub"
    BY <1>1 DEF mqtt_init
  <2>2. /\ o.buffer = "live" => "BUFFER_INITIALIZED" \in o.flags \/ o.flags = {}
        /\ o.flags = {} => o.buffer = s_mqtt_network_buffer
        /\ "MQTT_INSTANCE_CREATED" \in o.flags =>
              "LIBS_INITIALIZED" \in o.flags /\ o.buffer = "live"
    BY <2>1 DEF InitOutcomes
  <2>3. UNCHANGED <<cb_pc, pub_pc, sub_pc>>
    BY <1>1 DEF mqtt_init
  <2>4. s_mqtt_network_buffer # "live"
    BY <1>1 DEF ResourceInv, NothingHeld, mqtt_init
  <2>5. OwnedByPlace'
    BY <2>0, <2>1, <2>2, <2>3 DEF OwnedByPlace
  <2>6. FlagsCoverResources'
    BY <2>0, <2>1, <2>2, <2>3, <2>4 DEF FlagsCoverResources
  <2>7. LibraryActivity'
    BY <1>1 DEF ResourceInv, LibraryActivity, mqtt_init, InitOutcomes
  <2>8. NothingHeld'
    BY <2>1 DEF NothingHeld
  <2> QED
    BY <2>5, <2>6, <2>7, <2>8 DEF ResourceInv
<1>2. CASE ConnectAttempt
  <2>1. OwnedByPlace'
    BY <1>2 DEF ResourceInv, OwnedByPlace, ConnectAttempt, ConnectReturns
  <2>2. FlagsCoverResources'
    BY <1>2 DEF ResourceInv, FlagsCoverResources, ResourceMasks, ConnectAttempt, ConnectReturns
  <2>3. LibraryActivity'
    <3>1. libs_inited'
      BY <1>2 DEF ResourceInv, OwnedByPlace, ConnectAttempt
    <3>2. mqtt_pc' \notin EmptyPcs
      BY <1>2 DEF ConnectAttempt, ConnectReturns
    <3> QED
      BY <3>1, <3>2 DEF LibraryActivity
  <2>4. NothingHeld'
    BY <1>2 DEF ResourceInv, NothingHeld, ConnectAttempt, ConnectReturns
  <2> QED
    BY <2>1, <2>2, <2>3, <2>4 DEF ResourceInv
<1>3. CASE ConnectNotified
  <2>1. OwnedByPlace'
    BY <1>3 DEF ResourceInv, OwnedByPlace, ConnectNotified, ConnectReturns
  <2>2. FlagsCoverResources'
    BY <1>3 DEF ResourceInv, FlagsCoverResources, ResourceMasks, ConnectNotified, ConnectReturns
  <2>3. LibraryActivity'
    BY <1>3 DEF ResourceInv, LibraryActivity, ConnectNotified, ConnectReturns
  <2>4. NothingHeld'
    BY <1>3 DEF ResourceInv, NothingHeld, ConnectNotified, ConnectReturns
  <2> QED
    BY <2>1, <2>2, <2>3, <2>4 DEF ResourceInv
<1>4. CASE ConnectTimeout
  <2>1. OwnedByPlace'
    BY <1>4 DEF ResourceInv, OwnedByPlace, ConnectTimeout
  <2>2. FlagsCoverResources'
    BY <1>4 DEF ResourceInv, FlagsCoverResources, ResourceMasks, ConnectTimeout
  <2>3. LibraryActivity'
    BY <1>4 DEF ResourceInv, LibraryActivity, ConnectTimeout
  <2>4. NothingHeld'
    BY <1>4 DEF ResourceInv, NothingHeld, ConnectTimeout
  <2> QED
    BY <2>1, <2>2, <2>3, <2>4 DEF ResourceInv
<1>5. CASE ConnectLoadFlag
  <2>1. OwnedByPlace'
    BY <1>5 DEF ResourceInv, OwnedByPlace, ConnectLoadFlag
  <2>2. FlagsCoverResources'
    BY <1>5 DEF ResourceInv, FlagsCoverResources, ResourceMasks, ConnectLoadFlag
  <2>3. LibraryActivity'
    BY <1>5 DEF ResourceInv, LibraryActivity, ConnectLoadFlag
  <2>4. NothingHeld'
    BY <1>5 DEF ResourceInv, NothingHeld, ConnectLoadFlag
  <2> QED
    BY <2>1, <2>2, <2>3, <2>4 DEF ResourceInv
<1>6. CASE ConnectStoreFlag
  <2>1. OwnedByPlace'
    BY <1>6 DEF ResourceInv, OwnedByPlace, ConnectStoreFlag, ConnectReturns
  <2>2. FlagsCoverResources'
    BY <1>6 DEF ResourceInv, FlagsCoverResources, ResourceMasks, ConnectStoreFlag, ConnectReturns
  <2>3. LibraryActivity'
    BY <1>6 DEF ResourceInv, LibraryActivity, ConnectStoreFlag, ConnectReturns
  <2>4. NothingHeld'
    BY <1>6 DEF ResourceInv, NothingHeld, ConnectStoreFlag, ConnectReturns
  <2> QED
    BY <2>1, <2>2, <2>3, <2>4 DEF ResourceInv
<1>7. CASE CreateSubscriber
  <2>1. OwnedByPlace'
    BY <1>7 DEF ResourceInv, OwnedByPlace, CreateSubscriber
  <2>2. FlagsCoverResources'
    BY <1>7 DEF ResourceInv, FlagsCoverResources, ResourceMasks, CreateSubscriber
  <2>3. LibraryActivity'
    BY <1>7 DEF ResourceInv, LibraryActivity, CreateSubscriber
  <2>4. NothingHeld'
    BY <1>7 DEF ResourceInv, NothingHeld, CreateSubscriber
  <2> QED
    BY <2>1, <2>2, <2>3, <2>4 DEF ResourceInv
<1>8. CASE CreatePublisher
  <2>1. OwnedByPlace'
    BY <1>8 DEF ResourceInv, OwnedByPlace, CreatePublisher
  <2>2. FlagsCoverResources'
    BY <1>8 DEF ResourceInv, FlagsCoverResources, ResourceMasks, CreatePublisher
  <2>3. LibraryActivity'
    BY <1>8 DEF ResourceInv, LibraryActivity, CreatePublisher
  <2>4. NothingHeld'
    BY <1>8 DEF ResourceInv, NothingHeld, CreatePublisher
  <2> QED
    BY <2>1, <2>2, <2>3, <2>4 DEF ResourceInv
<1> QED
  BY <1>1, <1>2, <1>3, <1>4, <1>5, <1>6, <1>7, <1>8 DEF mqtt_connect

\* Operations and reconnections keep everything.
LEMMA OperationsResource ==
    ASSUME TypeOK, ResourceInv, HandleCommand \/ HandleDisconnection PROVE ResourceInv'
<1>1. CASE HandleCommand
  <2>1. OwnedByPlace'
    BY <1>1 DEF ResourceInv, OwnedByPlace, HandleCommand
  <2>2. FlagsCoverResources'
    BY <1>1 DEF ResourceInv, FlagsCoverResources, ResourceMasks, HandleCommand
  <2>3. LibraryActivity'
    BY <1>1 DEF ResourceInv, LibraryActivity, HandleCommand
  <2>4. NothingHeld'
    BY <1>1 DEF ResourceInv, NothingHeld, HandleCommand
  <2> QED
    BY <2>1, <2>2, <2>3, <2>4 DEF ResourceInv
<1>2. CASE DeinitPublisher
  <2>1. OwnedByPlace'
    BY <1>2 DEF ResourceInv, OwnedByPlace, DeinitPublisher, PutPublisherQ
  <2>2. FlagsCoverResources'
    BY <1>2 DEF ResourceInv, FlagsCoverResources, ResourceMasks, DeinitPublisher, PutPublisherQ
  <2>3. LibraryActivity'
    BY <1>2 DEF ResourceInv, LibraryActivity, DeinitPublisher, PutPublisherQ
  <2>4. NothingHeld'
    BY <1>2 DEF ResourceInv, NothingHeld, DeinitPublisher, PutPublisherQ
  <2> QED
    BY <2>1, <2>2, <2>3, <2>4 DEF ResourceInv
<1>3. CASE Disconnect
  <2>1. OwnedByPlace'
    BY <1>3 DEF ResourceInv, OwnedByPlace, Disconnect
  <2>2. FlagsCoverResources'
    BY <1>3 DEF ResourceInv, FlagsCoverResources, ResourceMasks, Disconnect
  <2>3. LibraryActivity'
    BY <1>3 DEF ResourceInv, LibraryActivity, Disconnect
  <2>4. NothingHeld'
    BY <1>3 DEF ResourceInv, NothingHeld, Disconnect
  <2> QED
    BY <2>1, <2>2, <2>3, <2>4 DEF ResourceInv
<1>4. CASE Resubscribe
  <2>1. OwnedByPlace'
    BY <1>4 DEF ResourceInv, OwnedByPlace, Resubscribe
  <2>2. FlagsCoverResources'
    BY <1>4 DEF ResourceInv, FlagsCoverResources, ResourceMasks, Resubscribe
  <2>3. LibraryActivity'
    BY <1>4 DEF ResourceInv, LibraryActivity, Resubscribe
  <2>4. NothingHeld'
    BY <1>4 DEF ResourceInv, NothingHeld, Resubscribe
  <2> QED
    BY <2>1, <2>2, <2>3, <2>4 DEF ResourceInv
<1>5. CASE ReinitPublisher
  <2>1. OwnedByPlace'
    BY <1>5 DEF ResourceInv, OwnedByPlace, ReinitPublisher, PutPublisherQ
  <2>2. FlagsCoverResources'
    BY <1>5 DEF ResourceInv, FlagsCoverResources, ResourceMasks, ReinitPublisher, PutPublisherQ
  <2>3. LibraryActivity'
    BY <1>5 DEF ResourceInv, LibraryActivity, ReinitPublisher, PutPublisherQ
  <2>4. NothingHeld'
    BY <1>5 DEF ResourceInv, NothingHeld, ReinitPublisher, PutPublisherQ
  <2> QED
    BY <2>1, <2>2, <2>3, <2>4 DEF ResourceInv
<1> QED
  BY <1>1, <1>2, <1>3, <1>4, <1>5 DEF HandleDisconnection

\* The subtasks go first; what the flags name goes next, and they name all that is held.
LEMMA CleanupResource ==
    ASSUME TypeOK, ResourceInv, Cleanup \/ WaitForNotification PROVE ResourceInv'
<1>1. CASE DeleteSubscriber
  <2>1. OwnedByPlace'
    BY <1>1 DEF ResourceInv, OwnedByPlace, DeleteSubscriber
  <2>2. FlagsCoverResources'
    BY <1>1 DEF ResourceInv, FlagsCoverResources, ResourceMasks, DeleteSubscriber
  <2>3. LibraryActivity'
    BY <1>1 DEF ResourceInv, LibraryActivity, DeleteSubscriber
  <2>4. NothingHeld'
    BY <1>1 DEF ResourceInv, NothingHeld, DeleteSubscriber
  <2> QED
    BY <2>1, <2>2, <2>3, <2>4 DEF ResourceInv
<1>2. CASE DeletePublisher
  <2>1. OwnedByPlace'
    BY <1>2 DEF ResourceInv, OwnedByPlace, DeletePublisher
  <2>2. FlagsCoverResources'
    BY <1>2 DEF ResourceInv, FlagsCoverResources, ResourceMasks, DeletePublisher
  <2>3. LibraryActivity'
    BY <1>2 DEF ResourceInv, LibraryActivity, DeletePublisher
  <2>4. NothingHeld'
    BY <1>2 DEF ResourceInv, NothingHeld, DeletePublisher
  <2> QED
    BY <2>1, <2>2, <2>3, <2>4 DEF ResourceInv
<1>3. CASE CleanupConnection
  <2>1. OwnedByPlace'
    BY <1>3 DEF ResourceInv, OwnedByPlace, CleanupConnection
  <2>2. FlagsCoverResources'
    BY <1>3 DEF ResourceInv, FlagsCoverResources, ResourceMasks, CleanupConnection
  <2>3. LibraryActivity'
    BY <1>3 DEF ResourceInv, LibraryActivity, CleanupConnection
  <2>4. NothingHeld'
    BY <1>3 DEF ResourceInv, NothingHeld, CleanupConnection
  <2> QED
    BY <2>1, <2>2, <2>3, <2>4 DEF ResourceInv
<1>4. CASE CleanupResources
  <2>1. OwnedByPlace'
    BY <1>4 DEF ResourceInv, OwnedByPlace, CleanupResources
  <2>2. FlagsCoverResources'
    BY <1>4 DEF ResourceInv, FlagsCoverResources, ResourceMasks, CleanupResources
  <2>3. LibraryActivity'
    <3>1. CASE "LIBS_INITIALIZED" \in s_status_flag
      <4>1. /\ cb_pc' = "idle" /\ inflight' = <<>>
            /\ event_pending' = FALSE /\ connected' = FALSE
        BY <1>4, <3>1 DEF CleanupResources
      <4> QED
        BY <4>1 DEF LibraryActivity
    <3>2. CASE "LIBS_INITIALIZED" \notin s_status_flag
      <4>1. ~libs_inited
        BY <3>2 DEF ResourceInv, FlagsCoverResources
      <4>2. UNCHANGED <<cb_pc, inflight, event_pending, connected>>
        BY <1>4, <3>2 DEF CleanupResources
      <4> QED
        BY <4>1, <4>2 DEF ResourceInv, LibraryActivity
    <3> QED
      BY <3>1, <3>2
  <2>4. NothingHeld'
    <3>1. ~libs_inited'
      BY <1>4 DEF ResourceInv, FlagsCoverResources, CleanupResources
    <3>2. ~g_mqtt_connection'
      BY <1>4 DEF ResourceInv, FlagsCoverResources, CleanupResources
    <3>3. s_mqtt_network_buffer' # "live"
      BY <1>4 DEF ResourceInv, FlagsCoverResources, CleanupResources
    <3> QED
      BY <3>1, <3>2, <3>3 DEF NothingHeld
  <2> QED
    BY <2>1, <2>2, <2>3, <2>4 DEF ResourceInv
<1>5. CASE MarkStopped
  <2>1. OwnedByPlace'
    BY <1>5 DEF ResourceInv, OwnedByPlace, MarkStopped
  <2>2. FlagsCoverResources'
    BY <1>5 DEF ResourceInv, FlagsCoverResources, ResourceMasks, MarkStopped
  <2>3. LibraryActivity'
    BY <1>5 DEF ResourceInv, LibraryActivity, MarkStopped
  <2>4. NothingHeld'
    BY <1>5 DEF ResourceInv, NothingHeld, MarkStopped
  <2> QED
    BY <2>1, <2>2, <2>3, <2>4 DEF ResourceInv
<1>6. CASE WaitForNotification
  <2>1. OwnedByPlace'
    BY <1>6 DEF ResourceInv, OwnedByPlace, WaitForNotification
  <2>2. FlagsCoverResources'
    BY <1>6 DEF ResourceInv, FlagsCoverResources, ResourceMasks, WaitForNotification
  <2>3. LibraryActivity'
    BY <1>6 DEF ResourceInv, LibraryActivity, WaitForNotification
  <2>4. NothingHeld'
    BY <1>6 DEF ResourceInv, NothingHeld, WaitForNotification
  <2> QED
    BY <2>1, <2>2, <2>3, <2>4 DEF ResourceInv
<1> QED
  BY <1>1, <1>2, <1>3, <1>4, <1>5, <1>6 DEF Cleanup

LEMMA StutterResource == ASSUME ResourceInv, UNCHANGED vars PROVE ResourceInv'
  BY DEF ResourceInv, OwnedByPlace, FlagsCoverResources, LibraryActivity, NothingHeld

\* The flags that mqtt_cleanup() goes by name everything mqtt_init() acquired and the
\* subtasks exist only with all of it, whatever the order in which the client task, the
\* callback and the console change the state they share.
THEOREM ResourcesCorrect == Spec => []ResourceInv
<1>1. Init => ResourceInv
  BY InitResource
<1>2. TypeOK /\ ResourceInv /\ [Next]_vars => ResourceInv'
  BY PublisherResource, SubscriberResource, CallbackResource, OutsideResource,
     StartResource, OperationsResource, CleanupResource, StutterResource
     DEF Next, MqttTaskStep
<1> QED
  BY <1>1, <1>2, TypeCorrect, PTL DEF Spec

\* A publisher or subscriber thread never runs without the library, the instance and the
\* allocated buffer it uses through g_mqtt_connection: mqtt_client_task() creates them
\* after and deletes them before, on every path.
THEOREM SubtasksLive == Spec => []SubtasksOnlyWhileInstanceLive
<1>1. ResourceInv => SubtasksOnlyWhileInstanceLive
  BY DEF ResourceInv, OwnedByPlace, SubtasksOnlyWhileInstanceLive
<1> QED
  BY <1>1, ResourcesCorrect, PTL

\* Where a start or a run has ended, and after it, nothing is left behind: no thread, no
\* library, no instance, no allocated buffer, no connection and no undelivered event.
THEOREM StoppedClean == Spec => []NothingHeldWhenStopped
<1>1. ResourceInv => NothingHeldWhenStopped
  BY DEF ResourceInv, OwnedByPlace, LibraryActivity, NothingHeld, NothingHeldWhenStopped
<1> QED
  BY <1>1, ResourcesCorrect, PTL
=============================================================================
