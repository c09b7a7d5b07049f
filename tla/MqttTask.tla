------------------------------- MODULE MqttTask -------------------------------
(***************************************************************************)
(* mqtt_task.c: the client task's thread, and notify_mqtt() as the console *)
(* thread calls it.                                                        *)
(*                                                                         *)
(* mqtt_pc names the place in mqtt_client_task():                          *)
(*   init                   mqtt_init()                                    *)
(*   attempt, wait          the loop of mqtt_connect()                     *)
(*   flagLoad, flagStore    s_status_flag |= MQTT_CONNECTION_SUCCESS       *)
(*   createSub, createPub   mqtt_create_subtasks()                         *)
(*   ops                    the loop of handle_mqtt_operations()           *)
(*   deinitPub, disconnect, resubscribe, reinitPub                         *)
(*                          the case HANDLE_DISCONNECTION, around the      *)
(*                          call of mqtt_connect()                         *)
(*   deleteSub, deletePub   mqtt_delete_subtasks()                         *)
(*   cleanupConn, cleanup   mqtt_cleanup()                                 *)
(*   stopped                s_mqtt_started = false                         *)
(*   idle                   waiting for a notification                     *)
(*   ended                  the thread has terminated itself               *)
(***************************************************************************)
EXTENDS MqttState

ConnectPcs == {"attempt", "wait", "flagLoad", "flagStore"}
DisconnectionPcs == {"deinitPub", "disconnect", "resubscribe", "reinitPub"}
StopPcs == {"deleteSub", "deletePub", "cleanupConn", "cleanup", "stopped"}
MqttPcs == {"init", "createSub", "createPub", "ops", "idle", "ended"}
           \cup ConnectPcs \cup DisconnectionPcs \cup StopPcs

\* mqtt_connect() has two callers; s_mqtt_started tells which.
ReconnectingNow == s_mqtt_started

\* What other threads own and no step of the client task's thread touches.
othersVars == <<cbVars, conVars, boundVars>>

-----------------------------------------------------------------------------
(* mqtt_init() *)

\* (mutant) The flag of the buffer is set with the one of the instance.
InitOutcomesFlagLate ==
    { [flags |-> {}, buffer |-> s_mqtt_network_buffer],
      [flags |-> {"LIBS_INITIALIZED"}, buffer |-> "null"],
      [flags |-> {"LIBS_INITIALIZED"}, buffer |-> "live"],
      [flags |-> {"LIBS_INITIALIZED", "BUFFER_INITIALIZED", "MQTT_INSTANCE_CREATED"},
       buffer |-> "live"] }

\* The four ways it can end: no library, no memory, no instance, or success.  A flag is
\* set as each part is done, and none of these three is ever cleared.
InitOutcomes ==
    { [flags |-> {}, buffer |-> s_mqtt_network_buffer],
      [flags |-> {"LIBS_INITIALIZED"}, buffer |-> "null"],
      [flags |-> {"LIBS_INITIALIZED", "BUFFER_INITIALIZED"}, buffer |-> "live"],
      [flags |-> {"LIBS_INITIALIZED", "BUFFER_INITIALIZED", "MQTT_INSTANCE_CREATED"},
       buffer |-> "live"] }

mqtt_init ==
    /\ mqtt_pc = "init"
    /\ \E o \in InitOutcomes :
          /\ s_status_flag' = s_status_flag \cup o.flags
          /\ s_mqtt_network_buffer' = o.buffer
          /\ libs_inited' = ("LIBS_INITIALIZED" \in o.flags)
          /\ g_mqtt_connection' = ("MQTT_INSTANCE_CREATED" \in o.flags)
          /\ IF "MQTT_INSTANCE_CREATED" \in o.flags
             THEN /\ mqtt_pc' = "attempt"
                  /\ UNCHANGED s_mqtt_status
             ELSE /\ mqtt_pc' = "deleteSub"
                  /\ s_mqtt_status' = "FAILED_TO_START"
    /\ result' = "err"
    /\ retry_count' = 0
    /\ UNCHANGED <<mqtt_reg, s_mqtt_started, s_notification, g_mqtt_task_q, pubVars,
                   pubqVars, subVars, subqVars, netVars, stranded, fault, othersVars>>

-----------------------------------------------------------------------------
(* mqtt_connect() *)

\* It returns: a start goes on with the subtasks or fails, a reconnection goes on with
\* the subscription or leaves handle_mqtt_operations().
ConnectReturns(res) ==
    /\ mqtt_pc' = IF res = "err" THEN "deleteSub"
                  ELSE IF ReconnectingNow THEN "resubscribe" ELSE "createSub"
    /\ s_mqtt_status' = IF res = "ok" THEN s_mqtt_status
                        ELSE IF ReconnectingNow THEN "STOPPED" ELSE "FAILED_TO_START"
    /\ retry_count' = 0

\* One turn of the loop: the default network may not be there, in which case result
\* keeps the value it has; else the connection is tried.  When the turns are used up
\* result is what mqtt_connect() returns.
ConnectAttempt ==
    /\ mqtt_pc = "attempt"
    /\ \E outcome \in {"not_ready", "err", "ok"} :
          /\ connected' = (outcome = "ok")
          /\ LET res == IF outcome = "not_ready" THEN result ELSE outcome IN
                IF outcome = "ok"
                THEN /\ mqtt_pc' = "flagLoad"
                     /\ UNCHANGED <<s_mqtt_status, result, retry_count>>
                ELSE IF RetriesLeft(retry_count, MAX_MQTT_CONN_RETRIES)
                     THEN /\ mqtt_pc' = "wait"
                          /\ result' = res
                          /\ retry_count' = retry_count + 1
                          /\ UNCHANGED s_mqtt_status
                     ELSE /\ ConnectReturns(res)
                          /\ result' = "err"
    /\ UNCHANGED <<mqtt_reg, s_status_flag, s_mqtt_started, instVars, s_notification,
                   g_mqtt_task_q, pubVars, pubqVars, subVars, subqVars, subscribed,
                   inflight, event_pending, stranded, fault, othersVars>>

\* Before a retry the task waits for a notification, which makes result a success
\* whatever its value is, or for the interval to pass.
ConnectNotified ==
    /\ mqtt_pc = "wait"
    /\ s_notification # "none"
    /\ s_notification' = "none"
    /\ IF s_notification = "STOP_APP"
       THEN /\ ConnectReturns("err")
            /\ result' = "err"
       ELSE /\ mqtt_pc' = "attempt"
            /\ result' = "ok"
            /\ UNCHANGED <<s_mqtt_status, retry_count>>
    /\ UNCHANGED <<mqtt_reg, s_status_flag, s_mqtt_started, instVars,
                   g_mqtt_task_q, pubVars, pubqVars, subVars, subqVars, netVars,
                   stranded, fault, othersVars>>

\* (mutant) The loop counter starts again after every wait.
ConnectTimeoutResets ==
    /\ mqtt_pc = "wait"
    /\ s_notification = "none"
    /\ result' = "err"
    /\ retry_count' = 0
    /\ mqtt_pc' = "attempt"
    /\ UNCHANGED <<mqtt_reg, s_status_flag, statusVars, instVars, s_notification,
                   g_mqtt_task_q, pubVars, pubqVars, subVars, subqVars, netVars,
                   stranded, fault, othersVars>>

ConnectTimeout ==
    /\ mqtt_pc = "wait"
    /\ s_notification = "none"
    /\ result' = "err"
    /\ mqtt_pc' = "attempt"
    /\ UNCHANGED <<mqtt_reg, retry_count, s_status_flag, statusVars, instVars,
                   s_notification, g_mqtt_task_q, pubVars, pubqVars, subVars, subqVars,
                   netVars, stranded, fault, othersVars>>

\* s_status_flag |= MQTT_CONNECTION_SUCCESS, a load and a store between which the
\* callback may run; then mqtt_connect() returns success.
ConnectLoadFlag ==
    /\ mqtt_pc = "flagLoad"
    /\ mqtt_reg' = s_status_flag \cup {"MQTT_CONNECTION_SUCCESS"}
    /\ mqtt_pc' = "flagStore"
    /\ UNCHANGED <<result, retry_count, s_status_flag, statusVars, instVars,
                   s_notification, g_mqtt_task_q, pubVars, pubqVars, subVars, subqVars,
                   netVars, stranded, fault, othersVars>>

ConnectStoreFlag ==
    /\ mqtt_pc = "flagStore"
    /\ s_status_flag' = mqtt_reg
    /\ mqtt_reg' = {}
    /\ ConnectReturns("ok")
    /\ result' = "err"
    /\ UNCHANGED <<s_mqtt_started, instVars, s_notification,
                   g_mqtt_task_q, pubVars, pubqVars, subVars, subqVars, netVars,
                   stranded, fault, othersVars>>

mqtt_connect ==
    \/ ConnectAttempt
    \/ ConnectNotified
    \/ ConnectTimeout
    \/ ConnectLoadFlag
    \/ ConnectStoreFlag
-----------------------------------------------------------------------------
(* mqtt_create_subtasks() *)

\* A thread is created, or it is not and the start has failed.
CreateSubscriber ==
    /\ mqtt_pc = "createSub"
    /\ \/ /\ sub_pc' = "subscribe0"
          /\ mqtt_pc' = "createPub"
          /\ UNCHANGED s_mqtt_status
       \/ /\ mqtt_pc' = "deleteSub"
          /\ s_mqtt_status' = "FAILED_TO_START"
          /\ UNCHANGED sub_pc
    /\ UNCHANGED <<mqtt_reg, result, retry_count, s_status_flag, s_mqtt_started,
                   instVars, s_notification, g_mqtt_task_q, pubVars, pubqVars, sub_retry,
                   g_current_device_state, subqVars, netVars, stranded, fault, othersVars>>

\* After TASK_CREATION_DELAY_MS, whatever the subscriber thread has done by then.
CreatePublisher ==
    /\ mqtt_pc = "createPub"
    /\ \/ /\ pub_pc' = "init"
          /\ mqtt_pc' = "ops"
          /\ s_mqtt_started' = TRUE
          /\ s_mqtt_status' = "STARTED"
       \/ /\ mqtt_pc' = "deleteSub"
          /\ s_mqtt_status' = "FAILED_TO_START"
          /\ UNCHANGED <<pub_pc, s_mqtt_started>>
    /\ UNCHANGED <<mqtt_reg, result, retry_count, s_status_flag, instVars,
                   s_notification, g_mqtt_task_q, pub_data, button_armed, pubqVars,
                   subVars, subqVars, netVars, stranded, fault, othersVars>>

-----------------------------------------------------------------------------
(* handle_mqtt_operations() *)

\* One command.  The failures the subtasks report are not acted on.
HandleCommand ==
    /\ mqtt_pc = "ops"
    /\ g_mqtt_task_q # <<>>
    /\ g_mqtt_task_q' = Tail(g_mqtt_task_q)
    /\ CASE Head(g_mqtt_task_q) = "HANDLE_DISCONNECTION" ->
              mqtt_pc' = "deinitPub" /\ UNCHANGED s_mqtt_status
         [] Head(g_mqtt_task_q) = "HANDLE_EXIT_LOOP" ->
              mqtt_pc' = "deleteSub" /\ s_mqtt_status' = "STOPPED"
         [] OTHER ->
              UNCHANGED <<mqtt_pc, s_mqtt_status>>
    /\ UNCHANGED <<mqtt_reg, result, retry_count, s_status_flag, s_mqtt_started,
                   instVars, s_notification, pubVars, pubqVars, subVars, subqVars,
                   netVars, stranded, fault, othersVars>>

\* A put to the publisher's or the subscriber's queue waits while the queue is full; a
\* queue that is not there stops the program.
PutPublisherQ(from, cmd, to) ==
    /\ mqtt_pc = from
    /\ "mqtt" \notin stranded
    /\ IF publisher_q_created
       THEN /\ ~PublisherQFull
            /\ g_publisher_task_q' = Append(g_publisher_task_q, cmd)
            /\ mqtt_pc' = to
            /\ UNCHANGED fault
       ELSE /\ fault' = "null_queue"
            /\ UNCHANGED <<mqtt_pc, g_publisher_task_q>>
    /\ UNCHANGED <<mqtt_reg, result, retry_count, s_status_flag, statusVars, instVars,
                   s_notification, g_mqtt_task_q, pubVars, publisher_q_created, subVars,
                   subqVars, netVars, stranded, othersVars>>

DeinitPublisher == PutPublisherQ("deinitPub", "PUBLISHER_DEINIT", "disconnect")

\* (mutant) publisher_q_data, which still holds the command put before, is not changed.
ReinitPublisherStaleCmd == PutPublisherQ("reinitPub", "PUBLISHER_DEINIT", "ops")

ReinitPublisher == PutPublisherQ("reinitPub", "PUBLISHER_INIT", "ops")

\* cy_mqtt_disconnect(), then mqtt_connect() from its first attempt.
Disconnect ==
    /\ mqtt_pc = "disconnect"
    /\ connected' = FALSE
    /\ subscribed' = FALSE
    /\ inflight' = <<>>
    /\ result' = "err"
    /\ retry_count' = 0
    /\ mqtt_pc' = "attempt"
    /\ UNCHANGED <<mqtt_reg, s_status_flag, statusVars, instVars, s_notification,
                   g_mqtt_task_q, pubVars, pubqVars, subVars, subqVars, event_pending,
                   stranded, fault, othersVars>>

Resubscribe ==
    /\ mqtt_pc = "resubscribe"
    /\ "mqtt" \notin stranded
    /\ IF subscriber_q_created
       THEN /\ ~SubscriberQFull
            /\ g_subscriber_task_q' = Append(g_subscriber_task_q, "SUBSCRIBE_TO_TOPIC")
            /\ mqtt_pc' = "reinitPub"
            /\ UNCHANGED fault
       ELSE /\ fault' = "null_queue"
            /\ UNCHANGED <<mqtt_pc, g_subscriber_task_q>>
    /\ UNCHANGED <<mqtt_reg, result, retry_count, s_status_flag, statusVars, instVars,
                   s_notification, g_mqtt_task_q, pubVars, pubqVars, subVars,
                   subscriber_q_created, netVars, stranded, othersVars>>

HandleDisconnection ==
    \/ DeinitPublisher
    \/ Disconnect
    \/ Resubscribe
    \/ ReinitPublisher

-----------------------------------------------------------------------------
(* The cleanup section of mqtt_client_task() *)

\* (mutant) The subtasks are deleted only when the start was complete.
DeleteSubscriberIfStarted ==
    /\ mqtt_pc = "deleteSub"
    /\ sub_pc' = IF s_mqtt_started THEN "none" ELSE sub_pc
    /\ sub_retry' = 0
    /\ mqtt_pc' = "deletePub"
    /\ UNCHANGED <<mqtt_reg, result, retry_count, s_status_flag, statusVars, instVars,
                   s_notification, g_mqtt_task_q, pubVars, pubqVars,
                   g_current_device_state, subqVars, netVars, stranded, fault, othersVars>>

\* mqtt_delete_subtasks() terminates a thread wherever it is, the subscriber first.
\* Neither the button's interrupt nor the queues are touched.
DeleteSubscriber ==
    /\ mqtt_pc = "deleteSub"
    /\ sub_pc' = "none"
    /\ sub_retry' = 0
    /\ mqtt_pc' = "deletePub"
    /\ UNCHANGED <<mqtt_reg, result, retry_count, s_status_flag, statusVars, instVars,
                   s_notification, g_mqtt_task_q, pubVars, pubqVars,
                   g_current_device_state, subqVars, netVars, stranded, fault, othersVars>>

\* (mutant) The handle is not compared with NULL: joining no thread never returns.
DeletePublisherNoCheck ==
    /\ mqtt_pc = "deletePub"
    /\ pub_pc # "none"
    /\ pub_pc' = "none"
    /\ pub_data' = DeadPayload
    /\ mqtt_pc' = "cleanupConn"
    /\ UNCHANGED <<mqtt_reg, result, retry_count, s_status_flag, statusVars, instVars,
                   s_notification, g_mqtt_task_q, button_armed, pubqVars,
                   subVars, subqVars, netVars, stranded, fault, othersVars>>

DeletePublisher ==
    /\ mqtt_pc = "deletePub"
    /\ pub_pc' = "none"
    /\ pub_data' = DeadPayload
    /\ mqtt_pc' = "cleanupConn"
    /\ UNCHANGED <<mqtt_reg, result, retry_count, s_status_flag, statusVars, instVars,
                   s_notification, g_mqtt_task_q, button_armed, pubqVars,
                   subVars, subqVars, netVars, stranded, fault, othersVars>>

\* mqtt_cleanup(), as s_status_flag says; the flags stay as they are.  First the
\* connection.
CleanupConnection ==
    /\ mqtt_pc = "cleanupConn"
    /\ mqtt_pc' = "cleanup"
    /\ IF "MQTT_CONNECTION_SUCCESS" \in s_status_flag
       THEN /\ connected' = FALSE
            /\ subscribed' = FALSE
            /\ inflight' = <<>>
       ELSE UNCHANGED <<connected, subscribed, inflight>>
    /\ UNCHANGED <<mqtt_reg, result, retry_count, s_status_flag, statusVars, instVars,
                   s_notification, g_mqtt_task_q, pubVars, pubqVars, subVars, subqVars,
                   event_pending, stranded, fault, othersVars>>

\* Then the instance, the buffer and the library, and with the library the thread that
\* runs the callback, wherever it is, and the event it has not been given.
CleanupResources ==
    /\ mqtt_pc = "cleanup"
    /\ mqtt_pc' = "stopped"
    /\ g_mqtt_connection' =
          (g_mqtt_connection /\ "MQTT_INSTANCE_CREATED" \notin s_status_flag)
    /\ IF "BUFFER_INITIALIZED" \in s_status_flag
       THEN /\ s_mqtt_network_buffer' =
                  IF s_mqtt_network_buffer = "null" THEN "null" ELSE "freed"
            /\ fault' = IF s_mqtt_network_buffer = "freed" THEN "double_free" ELSE fault
       ELSE UNCHANGED <<s_mqtt_network_buffer, fault>>
    /\ IF "LIBS_INITIALIZED" \in s_status_flag
       THEN /\ libs_inited' = FALSE
            /\ connected' = FALSE
            /\ subscribed' = FALSE
            /\ inflight' = <<>>
            /\ event_pending' = FALSE
            /\ cb_pc' = "idle"
            /\ cb_reg' = {}
            /\ cb_data' = DeadPayload
            /\ stranded' = stranded \ {"cb"}
       ELSE UNCHANGED <<libs_inited, netVars, cbVars, stranded>>
    /\ UNCHANGED <<mqtt_reg, result, retry_count, s_status_flag, statusVars,
                   s_notification, g_mqtt_task_q, pubVars, pubqVars, subVars, subqVars,
                   conVars, boundVars>>

MarkStopped ==
    /\ mqtt_pc = "stopped"
    /\ s_mqtt_started' = FALSE
    /\ mqtt_pc' = "idle"
    /\ UNCHANGED <<mqtt_reg, result, retry_count, s_status_flag, s_mqtt_status, instVars,
                   s_notification, g_mqtt_task_q, pubVars, pubqVars, subVars, subqVars,
                   netVars, stranded, fault, othersVars>>

Cleanup ==
    \/ DeleteSubscriber
    \/ DeletePublisher
    \/ CleanupConnection
    \/ CleanupResources
    \/ MarkStopped

\* The wait for the next notification: a start or a restart goes round the outer loop,
\* a stop is ignored, a shutdown ends the thread.
WaitForNotification ==
    /\ mqtt_pc = "idle"
    /\ s_notification # "none"
    /\ s_notification' = "none"
    /\ CASE s_notification = "STOP_APP" ->
              UNCHANGED <<mqtt_pc, s_mqtt_status>>
         [] s_notification = "SHUTDOWN_APP" ->
              mqtt_pc' = "ended" /\ UNCHANGED s_mqtt_status
         [] OTHER ->
              mqtt_pc' = "init" /\ s_mqtt_status' = "STARTING"
    /\ UNCHANGED <<mqtt_reg, result, retry_count, s_status_flag, s_mqtt_started, instVars,
                   g_mqtt_task_q, pubVars, pubqVars, subVars, subqVars, netVars,
                   stranded, fault, othersVars>>

MqttTaskStep ==
    \/ mqtt_init
    \/ mqtt_connect
    \/ CreateSubscriber
    \/ CreatePublisher
    \/ HandleCommand
    \/ HandleDisconnection
    \/ Cleanup
    \/ WaitForNotification

-----------------------------------------------------------------------------
(* notify_mqtt(), called by the console's menu *)

ConPcs == {"idle", "put", "set"}

notifyUnchanged ==
    UNCHANGED <<taskVars, s_status_flag, statusVars, instVars, pubVars, pubqVars,
                subVars, subqVars, cbVars, netVars, stranded, fault, presses, drops,
                foreign>>

\* The user chooses a command.  A start returns at once when s_mqtt_started; the other
\* commands then have a message to put first.
NotifyMqtt ==
    /\ con_pc = "idle"
    /\ commands < MaxCommands
    /\ commands' = commands + 1
    /\ \E cmd \in ConsoleCommands :
          IF cmd = "START_APP" /\ s_mqtt_started
          THEN UNCHANGED conVars
          ELSE /\ con_cmd' = cmd
               /\ con_pc' = IF s_mqtt_started THEN "put" ELSE "set"
    /\ UNCHANGED <<s_notification, g_mqtt_task_q>>
    /\ notifyUnchanged

NotifyPutExitLoop ==
    /\ con_pc = "put"
    /\ PutMqttQ("HANDLE_EXIT_LOOP")
    /\ con_pc' = "set"
    /\ UNCHANGED <<con_cmd, s_notification, commands>>
    /\ notifyUnchanged

\* cy_notification_set(): a value not yet taken is overwritten.
NotifySet ==
    /\ con_pc = "set"
    /\ s_notification' = con_cmd
    /\ con_pc' = "idle"
    /\ con_cmd' = DeadCommand
    /\ UNCHANGED <<g_mqtt_task_q, commands>>
    /\ notifyUnchanged
=============================================================================
