---------------------------- MODULE SubscriberTask ----------------------------
(***************************************************************************)
(* subscriber_task.c: the thread that subscribes to the topic and sets the *)
(* LED.  subscribe_to_topic() runs in two places: before the thread has    *)
(* made its queue ("subscribe0") and on command ("subscribe").             *)
(***************************************************************************)
EXTENDS MqttState

SubPcs == {"none", "subscribe0", "fail0", "initq", "loop", "subscribe", "fail"}

\* Where the thread goes when subscribe_to_topic() returns, and when it has failed.
AfterSubscribe(pc) == IF pc \in {"subscribe0", "fail0"} THEN "initq" ELSE "loop"
SubscribeFailed(pc) == IF pc = "subscribe0" THEN "fail0" ELSE "fail"

\* One turn of the retry loop around cy_mqtt_subscribe().  A subscription whose
\* acknowledgement is lost has failed for the caller and may exist at the broker.
Subscribe ==
    /\ sub_pc \in {"subscribe0", "subscribe"}
    /\ \E registered, ok \in BOOLEAN :
          /\ ok => registered
          /\ registered => connected
          /\ subscribed' = (subscribed \/ registered)
          /\ IF ok THEN /\ sub_pc' = AfterSubscribe(sub_pc)
                        /\ sub_retry' = 0
             ELSE IF RetriesLeft(sub_retry, MAX_SUBSCRIBE_RETRIES)
                  THEN /\ sub_retry' = sub_retry + 1
                       /\ UNCHANGED sub_pc
                  ELSE /\ sub_pc' = SubscribeFailed(sub_pc)
                       /\ sub_retry' = 0
    /\ UNCHANGED <<taskVars, s_status_flag, statusVars, instVars, s_notification,
                   g_mqtt_task_q, pubVars, pubqVars, g_current_device_state, subqVars,
                   cbVars, conVars, connected, inflight, event_pending, stranded,
                   fault, boundVars>>

SubscriberReportFailure ==
    /\ sub_pc \in {"fail0", "fail"}
    /\ PutMqttQ("HANDLE_MQTT_SUBSCRIBE_FAILURE")
    /\ sub_pc' = AfterSubscribe(sub_pc)
    /\ UNCHANGED <<taskVars, s_status_flag, statusVars, instVars, s_notification,
                   pubVars, pubqVars, sub_retry, g_current_device_state, subqVars,
                   cbVars, conVars, netVars, stranded, fault, boundVars>>

\* As in the publisher: the queue is replaced, and a sender blocked on the one of an
\* earlier subscriber thread stays blocked.
SubscriberCreateQueue ==
    /\ sub_pc = "initq"
    /\ \E stuck \in SUBSET BlockedSenders :
          /\ stuck # {} => subscriber_q_created /\ SubscriberQFull
          /\ "mqtt" \in stuck => mqtt_pc = "resubscribe"
          /\ "cb" \in stuck => cb_pc = "putUpdate"
          /\ stranded' = stranded \cup stuck
    /\ g_subscriber_task_q' = <<>>
    /\ subscriber_q_created' = TRUE
    /\ sub_pc' = "loop"
    /\ UNCHANGED <<taskVars, s_status_flag, statusVars, instVars, s_notification,
                   g_mqtt_task_q, pubVars, pubqVars, sub_retry, g_current_device_state,
                   cbVars, conVars, netVars, fault, boundVars>>

SubscriberGet ==
    /\ sub_pc = "loop"
    /\ g_subscriber_task_q # <<>>
    /\ LET cmd == Head(g_subscriber_task_q) IN
          IF cmd = "SUBSCRIBE_TO_TOPIC"
          THEN /\ sub_pc' = "subscribe"
               /\ UNCHANGED g_current_device_state
          ELSE /\ g_current_device_state' = cmd
               /\ UNCHANGED sub_pc
    /\ g_subscriber_task_q' = Tail(g_subscriber_task_q)
    /\ UNCHANGED <<taskVars, s_status_flag, statusVars, instVars, s_notification,
                   g_mqtt_task_q, pubVars, pubqVars, sub_retry, subscriber_q_created,
                   cbVars, conVars, netVars, stranded, fault, boundVars>>

SubscriberStep ==
    \/ Subscribe
    \/ SubscriberReportFailure
    \/ SubscriberCreateQueue
    \/ SubscriberGet
=============================================================================
