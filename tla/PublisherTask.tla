---------------------------- MODULE PublisherTask ----------------------------
(***************************************************************************)
(* publisher_task.c: the thread that publishes, and the button's interrupt *)
(* service routine that gives it something to publish.                     *)
(***************************************************************************)
EXTENDS MqttState

PubPcs == {"none", "init", "initq", "loop", "publish", "fail"}

\* publisher_init(), on entry to the thread: the interrupt may fire from here on,
\* before the queue it writes to is created.
PublisherStart ==
    /\ pub_pc = "init"
    /\ button_armed' = TRUE
    /\ pub_pc' = "initq"
    /\ UNCHANGED <<taskVars, s_status_flag, statusVars, instVars, s_notification,
                   g_mqtt_task_q, pub_data, pubqVars, subVars, subqVars, cbVars,
                   conVars, netVars, stranded, fault, boundVars>>

\* cy_rtos_init_queue(): the handle is overwritten with a new, empty queue.  The queue
\* of an earlier publisher thread is neither emptied nor deleted, so a sender that is
\* blocked on it stays blocked; one that has not called put yet will use the new queue.
PublisherCreateQueue ==
    /\ pub_pc = "initq"
    /\ \E stuck \in SUBSET {"mqtt"} :
          /\ stuck # {} => /\ publisher_q_created
                           /\ PublisherQFull
                           /\ mqtt_pc \in {"deinitPub", "reinitPub"}
          /\ stranded' = stranded \cup stuck
    /\ g_publisher_task_q' = <<>>
    /\ publisher_q_created' = TRUE
    /\ pub_pc' = "loop"
    /\ UNCHANGED <<taskVars, s_status_flag, statusVars, instVars, s_notification,
                   g_mqtt_task_q, pub_data, button_armed, subVars, subqVars, cbVars,
                   conVars, netVars, fault, boundVars>>

\* One turn of the loop: INIT arms the button, DEINIT disarms it, a payload is published.
PublisherGet ==
    /\ pub_pc = "loop"
    /\ g_publisher_task_q # <<>>
    /\ LET cmd == Head(g_publisher_task_q) IN
          /\ button_armed' = IF cmd \in Payloads THEN button_armed
                             ELSE cmd = "PUBLISHER_INIT"
          /\ pub_pc' = IF cmd \in Payloads THEN "publish" ELSE "loop"
          /\ pub_data' = IF cmd \in Payloads THEN cmd ELSE pub_data
    /\ g_publisher_task_q' = Tail(g_publisher_task_q)
    /\ UNCHANGED <<taskVars, s_status_flag, statusVars, instVars, s_notification,
                   g_mqtt_task_q, publisher_q_created, subVars, subqVars, cbVars,
                   conVars, netVars, stranded, fault, boundVars>>

\* cy_mqtt_publish(), retried inside the library.  The broker sends what reaches it back
\* to us when we are subscribed; a publish whose acknowledgement is lost has failed
\* for the caller, whether or not the message was delivered.
PublisherPublish ==
    /\ pub_pc = "publish"
    /\ \E delivered, ok \in BOOLEAN :
          /\ ok => delivered
          /\ delivered => connected
          /\ inflight' = IF delivered /\ subscribed
                         THEN Append(inflight, pub_data) ELSE inflight
          /\ pub_pc' = IF ok THEN "loop" ELSE "fail"
    /\ pub_data' = DeadPayload
    /\ UNCHANGED <<taskVars, s_status_flag, statusVars, instVars, s_notification,
                   g_mqtt_task_q, button_armed, pubqVars, subVars, subqVars,
                   cbVars, conVars, connected, subscribed, event_pending, stranded,
                   fault, boundVars>>

\* The failure is reported; the thread waits while the client task's queue is full.
PublisherReportFailure ==
    /\ pub_pc = "fail"
    /\ PutMqttQ("HANDLE_MQTT_PUBLISH_FAILURE")
    /\ pub_pc' = "loop"
    /\ UNCHANGED <<taskVars, s_status_flag, statusVars, instVars, s_notification,
                   pub_data, button_armed, pubqVars, subVars, subqVars, cbVars,
                   conVars, netVars, stranded, fault, boundVars>>

PublisherStep ==
    \/ PublisherStart
    \/ PublisherCreateQueue
    \/ PublisherGet
    \/ PublisherPublish
    \/ PublisherReportFailure

-----------------------------------------------------------------------------
\* The payload an interrupt asks for: the opposite of the state last received.
Toggled == IF g_current_device_state = "ON" THEN "OFF" ELSE "ON"

\* isr_button_press(): an interrupt does not wait, so the press is lost when the queue is
\* full; a queue that is not there stops the program (configASSERT in the RTOS).
isr_button_press ==
    /\ button_armed
    /\ presses < MaxPresses
    /\ presses' = presses + 1
    /\ IF publisher_q_created
       THEN /\ g_publisher_task_q' = IF PublisherQFull THEN g_publisher_task_q
                                     ELSE Append(g_publisher_task_q, Toggled)
            /\ UNCHANGED fault
       ELSE /\ fault' = "null_queue"
            /\ UNCHANGED g_publisher_task_q
    /\ UNCHANGED <<taskVars, s_status_flag, statusVars, instVars, s_notification,
                   g_mqtt_task_q, pubVars, publisher_q_created, subVars, subqVars,
                   cbVars, conVars, netVars, stranded, commands, drops, foreign>>
=============================================================================
