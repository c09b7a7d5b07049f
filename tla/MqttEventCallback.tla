--------------------------- MODULE MqttEventCallback ---------------------------
(***************************************************************************)
(* mqtt_event_callback() of mqtt_task.c with the two functions it calls,   *)
(* run by the MQTT library's event thread; and the library and broker as   *)
(* the source uses them (external): a connection that is lost raises one   *)
(* DISCONNECT event, and messages arrive in the order they were sent.      *)
(***************************************************************************)
EXTENDS MqttState

CbPcs == {"idle", "clear", "clearStore", "putDisc", "mark", "markStore", "putUpdate"}

\* What other publishers may send on the topic: the two payloads or anything else.
ForeignPayloads == Payloads \cup {"OTHER"}

\* The link or the broker goes away.
ConnectionLost ==
    /\ connected
    /\ drops < MaxDrops
    /\ drops' = drops + 1
    /\ connected' = FALSE
    /\ subscribed' = FALSE
    /\ inflight' = <<>>
    /\ event_pending' = TRUE
    /\ UNCHANGED <<taskVars, s_status_flag, statusVars, instVars, s_notification,
                   g_mqtt_task_q, pubVars, pubqVars, subVars, subqVars, cbVars, conVars,
                   stranded, fault, commands, presses, foreign>>

\* Another client publishes on the topic we subscribe to.
ForeignPublish ==
    /\ connected
    /\ subscribed
    /\ foreign < MaxForeign
    /\ foreign' = foreign + 1
    /\ \E p \in ForeignPayloads : inflight' = Append(inflight, p)
    /\ UNCHANGED <<taskVars, s_status_flag, statusVars, instVars, s_notification,
                   g_mqtt_task_q, pubVars, pubqVars, subVars, subqVars, cbVars, conVars,
                   connected, subscribed, event_pending, stranded, fault, commands,
                   presses, drops>>

\* The event thread calls mqtt_event_callback() with the next event.
CallbackDisconnect ==
    /\ cb_pc = "idle"
    /\ event_pending
    /\ event_pending' = FALSE
    /\ cb_pc' = "clear"
    /\ UNCHANGED <<taskVars, s_status_flag, statusVars, instVars, s_notification,
                   g_mqtt_task_q, pubVars, pubqVars, subVars, subqVars, cb_reg, cb_data,
                   conVars, connected, subscribed, inflight, stranded, fault, boundVars>>

CallbackMessage ==
    /\ cb_pc = "idle"
    /\ inflight # <<>>
    /\ inflight' = Tail(inflight)
    /\ cb_data' = Head(inflight)
    /\ cb_pc' = "mark"
    /\ UNCHANGED <<taskVars, s_status_flag, statusVars, instVars, s_notification,
                   g_mqtt_task_q, pubVars, pubqVars, subVars, subqVars, cb_reg,
                   conVars, connected, subscribed, event_pending, stranded, fault,
                   boundVars>>

\* (mutant) An event that finds the flag cleared is taken for one already handled.
CallbackLoadFlagIgnoresCleared ==
    /\ cb_pc \in {"clear", "mark"}
    /\ IF cb_pc = "clear" /\ "MQTT_CONNECTION_SUCCESS" \notin s_status_flag
       THEN /\ cb_pc' = "idle"
            /\ UNCHANGED cb_reg
       ELSE /\ cb_reg' = IF cb_pc = "clear"
                         THEN s_status_flag \ {"MQTT_CONNECTION_SUCCESS"}
                         ELSE s_status_flag
            /\ cb_pc' = IF cb_pc = "clear" THEN "clearStore" ELSE "markStore"
    /\ UNCHANGED <<taskVars, s_status_flag, statusVars, instVars, s_notification,
                   g_mqtt_task_q, pubVars, pubqVars, subVars, subqVars, cb_data,
                   conVars, netVars, stranded, fault, boundVars>>

\* s_status_flag &= ~MQTT_CONNECTION_SUCCESS and s_status_flag |= MQTT_MSG_RECEIVED load
\* the word, change it and store it; the word is shared with the client task.
CallbackLoadFlag ==
    /\ cb_pc \in {"clear", "mark"}
    /\ cb_reg' = IF cb_pc = "clear" THEN s_status_flag \ {"MQTT_CONNECTION_SUCCESS"}
                 ELSE s_status_flag
    /\ cb_pc' = IF cb_pc = "clear" THEN "clearStore" ELSE "markStore"
    /\ UNCHANGED <<taskVars, s_status_flag, statusVars, instVars, s_notification,
                   g_mqtt_task_q, pubVars, pubqVars, subVars, subqVars, cb_data,
                   conVars, netVars, stranded, fault, boundVars>>

\* A message that is neither payload is reported and dropped.
CallbackStoreFlag ==
    /\ cb_pc \in {"clearStore", "markStore"}
    /\ s_status_flag' = cb_reg
    /\ cb_reg' = {}
    /\ cb_pc' = IF cb_pc = "clearStore" THEN "putDisc"
                ELSE IF cb_data \in Payloads THEN "putUpdate" ELSE "idle"
    /\ cb_data' = IF cb_data \in Payloads THEN cb_data ELSE DeadPayload
    /\ UNCHANGED <<taskVars, statusVars, instVars, s_notification, g_mqtt_task_q, pubVars,
                   pubqVars, subVars, subqVars, conVars, netVars, stranded, fault,
                   boundVars>>

CallbackPutDisconnection ==
    /\ cb_pc = "putDisc"
    /\ PutMqttQ("HANDLE_DISCONNECTION")
    /\ cb_pc' = "idle"
    /\ UNCHANGED <<taskVars, s_status_flag, statusVars, instVars, s_notification, pubVars,
                   pubqVars, subVars, subqVars, cb_reg, cb_data, conVars, netVars,
                   stranded, fault, boundVars>>

\* mqtt_subscription_callback() gives the new state to the subscriber thread and waits
\* while its queue is full; a queue that is not there stops the program.
CallbackPutUpdate ==
    /\ cb_pc = "putUpdate"
    /\ "cb" \notin stranded
    /\ IF subscriber_q_created
       THEN /\ ~SubscriberQFull
            /\ g_subscriber_task_q' = Append(g_subscriber_task_q, cb_data)
            /\ cb_pc' = "idle"
            /\ cb_data' = DeadPayload
            /\ UNCHANGED fault
       ELSE /\ fault' = "null_queue"
            /\ UNCHANGED <<cb_pc, cb_data, g_subscriber_task_q>>
    /\ UNCHANGED <<taskVars, s_status_flag, statusVars, instVars, s_notification,
                   g_mqtt_task_q, pubVars, pubqVars, subVars, subscriber_q_created,
                   cb_reg, conVars, netVars, stranded, boundVars>>

CallbackStep ==
    \/ CallbackDisconnect
    \/ CallbackMessage
    \/ CallbackLoadFlag
    \/ CallbackStoreFlag
    \/ CallbackPutDisconnection
    \/ CallbackPutUpdate
=============================================================================
