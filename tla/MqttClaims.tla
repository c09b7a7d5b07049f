------------------------------ MODULE MqttClaims ------------------------------
(***************************************************************************)
(* What the README and the comments of the source say of the MQTT client,  *)
(* stated over the model.  Each is refuted by a run: the code does         *)
(* something else (see the findings in README.md).                         *)
(***************************************************************************)
EXTENDS MqttClient

Contains(q, cmd) == \E i \in 1 .. Len(q) : q[i] = cmd

\* mqtt_task.c:278: mqtt_cleanup() "invokes the deinit and cleanup functions for various
\* operations based on the s_status_flag".  What it frees is allocated.
BufferFreedOnce == fault # "double_free"

\* publisher_task.c:256 and subscriber_task.c:276: "Create a message queue to communicate
\* with other tasks and callbacks."  Whoever communicates through a queue finds it created:
\* the interrupt, the client task and the library's callback.
PutQueueExists == fault # "null_queue"

\* mqtt_task.c:358: mqtt_connect() returns "CY_RSLT_SUCCESS upon a successful MQTT
\* connection, else an error code".  A start that goes on to the subtasks is connected,
\* or has lost the connection since and has been or will be told.
ConnectSuccessMeansConnected ==
    mqtt_pc = "createSub" /\ ~connected =>
        \/ event_pending
        \/ cb_pc \in {"clear", "clearStore", "putDisc"}
        \/ Contains(g_mqtt_task_q, "HANDLE_DISCONNECTION")

\* README.md:16, on an unexpected disconnection: "the application executes a reconnection
\* mechanism to restore the connection".  It cannot when the client task waits for a place
\* in the queue of a subtask that waits for a place in the client task's queue.
NoCircularWait == ~CircularWait
=============================================================================
