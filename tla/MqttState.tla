----------------------------- MODULE MqttState -----------------------------
(***************************************************************************)
(* The state shared by the MQTT client task, its publisher and subscriber  *)
(* subtasks, the event callback the MQTT library runs, the console thread  *)
(* that calls notify_mqtt(), and the button interrupt.  One module per     *)
(* thread extends this one; MqttClient composes them.                      *)
(*                                                                         *)
(* An action is the code between two accesses to shared state: a thread    *)
(* may be preempted between any two of them (the RTOS is preemptive and    *)
(* time-slices threads of one priority).                                   *)
(***************************************************************************)
EXTENDS Integers, Sequences

CONSTANTS
    MQTT_TASK_QUEUE_LENGTH,         \* 3 in the code
    PUBLISHER_TASK_QUEUE_LENGTH,    \* 3 in the code
    SUBSCRIBER_TASK_QUEUE_LENGTH,   \* 1 in the code
    MAX_MQTT_CONN_RETRIES,          \* 150 in the code
    MAX_SUBSCRIBE_RETRIES,          \* 3 in the code
    ConsoleCommands,                \* the notifications the console may send
    MaxCommands,                    \* bound: console commands in a behaviour
    MaxPresses,                     \* bound: button interrupts
    MaxDrops,                       \* bound: connections lost
    MaxForeign                      \* bound: messages of other publishers

Notifications == {"START_APP", "STOP_APP", "RESTART_APP", "SHUTDOWN_APP"}

ASSUME QueueAssumption ==
    /\ MQTT_TASK_QUEUE_LENGTH \in Nat \ {0}
    /\ PUBLISHER_TASK_QUEUE_LENGTH \in Nat \ {0}
    /\ SUBSCRIBER_TASK_QUEUE_LENGTH \in Nat \ {0}

ASSUME RetryAssumption ==
    /\ MAX_MQTT_CONN_RETRIES \in Nat \ {0}
    /\ MAX_SUBSCRIBE_RETRIES \in Nat \ {0}

ASSUME BudgetAssumption ==
    /\ ConsoleCommands \subseteq Notifications
    /\ MaxCommands \in Nat
    /\ MaxPresses \in Nat
    /\ MaxDrops \in Nat
    /\ MaxForeign \in Nat

VARIABLES
    \* mqtt_task.c
    mqtt_pc,                \* where mqtt_client_task() is
    mqtt_reg,               \* its register in s_status_flag |= ...
    result,                 \* mqtt_connect()'s local variable
    retry_count,            \* mqtt_connect()'s loop counter
    s_status_flag,          \* the set of the masks whose bit is 1
    s_mqtt_started,
    s_mqtt_status,
    s_mqtt_network_buffer,  \* "null", "live" or "freed"
    g_mqtt_connection,      \* the handle is not NULL
    s_notification,         \* the value not yet taken, "none" when there is none
    g_mqtt_task_q,
    \* publisher_task.c
    pub_pc,                 \* where publisher_task() is, "none" without a thread
    pub_data,               \* the payload it is publishing
    button_armed,           \* the button's interrupt and its callback are enabled
    g_publisher_task_q,
    publisher_q_created,    \* g_publisher_task_q is not NULL
    \* subscriber_task.c
    sub_pc,
    sub_retry,              \* subscribe_to_topic()'s loop counter
    g_subscriber_task_q,
    subscriber_q_created,
    g_current_device_state,
    \* the library's event thread, inside mqtt_event_callback()
    cb_pc,
    cb_reg,
    cb_data,
    \* the console thread, inside notify_mqtt()
    con_pc,
    con_cmd,
    \* the MQTT library and the broker (external)
    libs_inited,
    connected,              \* the broker connection is up
    subscribed,             \* the broker has our subscription
    inflight,               \* messages on their way from the broker to us
    event_pending,          \* a DISCONNECT event waits for the event thread
    \* the RTOS (external)
    stranded,               \* threads blocked on a queue that has been replaced
    fault,                  \* the program has been stopped, or is undefined
    \* the bounds
    commands, presses, drops, foreign

taskVars   == <<mqtt_pc, mqtt_reg, result, retry_count>>
statusVars == <<s_mqtt_started, s_mqtt_status>>
instVars   == <<libs_inited, g_mqtt_connection, s_mqtt_network_buffer>>
netVars    == <<connected, subscribed, inflight, event_pending>>
pubVars    == <<pub_pc, pub_data, button_armed>>
pubqVars   == <<g_publisher_task_q, publisher_q_created>>
subVars    == <<sub_pc, sub_retry, g_current_device_state>>
subqVars   == <<g_subscriber_task_q, subscriber_q_created>>
cbVars     == <<cb_pc, cb_reg, cb_data>>
conVars    == <<con_pc, con_cmd>>
boundVars  == <<commands, presses, drops, foreign>>

vars == <<taskVars, s_status_flag, statusVars, instVars, s_notification,
          g_mqtt_task_q, pubVars, pubqVars, subVars, subqVars, cbVars, conVars,
          netVars, stranded, fault, boundVars>>

-----------------------------------------------------------------------------
\* The masks of s_status_flag.  MQTT_MSG_RECEIVED is left out: it is written and
\* never read.  (That write still loads and stores the whole word: see the callback.)
Masks == {"LIBS_INITIALIZED", "BUFFER_INITIALIZED", "MQTT_INSTANCE_CREATED",
          "MQTT_CONNECTION_SUCCESS"}

\* mqtt_task_cmd_t
MqttTaskCmds == {"HANDLE_MQTT_PUBLISH_FAILURE", "HANDLE_MQTT_SUBSCRIBE_FAILURE",
                 "HANDLE_DISCONNECTION", "HANDLE_EXIT_LOOP"}

\* The two payloads the client knows, and the states of the LED: MQTT_DEVICE_ON_MESSAGE
\* and MQTT_DEVICE_OFF_MESSAGE.
Payloads == {"ON", "OFF"}

\* publisher_data_t: a command, or PUBLISH_MQTT_MSG written as its payload.
PublisherCmds == {"PUBLISHER_INIT", "PUBLISHER_DEINIT"} \cup Payloads

\* subscriber_data_t: a command, or UPDATE_DEVICE_STATE written as its state.
\* UNSUBSCRIBE_FROM_TOPIC is never sent.
SubscriberCmds == {"SUBSCRIBE_TO_TOPIC"} \cup Payloads

\* common_status_t, the values mqtt_task.c gives s_mqtt_status.
Statuses == {"STARTING", "STARTED", "STOPPED", "FAILED_TO_START"}

\* The senders that may be blocked on a full queue of a subtask.
BlockedSenders == {"mqtt", "cb"}

\* A local variable no statement reads any more is given back the value it starts with,
\* so that states differ only where the program does.
DeadPayload == "OFF"
DeadCommand == "STOP_APP"

MqttQFull == Len(g_mqtt_task_q) >= MQTT_TASK_QUEUE_LENGTH
PublisherQFull == Len(g_publisher_task_q) >= PUBLISHER_TASK_QUEUE_LENGTH
SubscriberQFull == Len(g_subscriber_task_q) >= SUBSCRIBER_TASK_QUEUE_LENGTH

\* (mutant) One turn too many.
RetriesLeftOffByOne(count, max) == count + 1 <= max

\* for (retry_count = 0; retry_count < max; retry_count++): whether there is another turn.
RetriesLeft(count, max) == count + 1 < max

\* (mutant) The put does not wait: a command is lost when the queue is full.
PutMqttQNoWait(cmd) ==
    g_mqtt_task_q' = IF MqttQFull THEN g_mqtt_task_q ELSE Append(g_mqtt_task_q, cmd)

\* cy_rtos_put_queue(&g_mqtt_task_q, cmd, CY_RTOS_NEVER_TIMEOUT): the caller waits
\* while the queue is full, so the action is disabled.
PutMqttQ(cmd) ==
    /\ ~MqttQFull
    /\ g_mqtt_task_q' = Append(g_mqtt_task_q, cmd)
=============================================================================
