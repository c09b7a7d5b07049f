------------------------------ MODULE MqttClient ------------------------------
(***************************************************************************)
(* The MQTT client application: its threads, the callback, the interrupt,  *)
(* the console and the environment, composed; and what is required of it.  *)
(***************************************************************************)
EXTENDS PublisherTask, SubscriberTask, MqttEventCallback, MqttTask

\* The client task has created its notification and its queue; nothing else exists.
Init ==
    /\ mqtt_pc = "init"
    /\ mqtt_reg = {}
    /\ result = "err"
    /\ retry_count = 0
    /\ s_status_flag = {}
    /\ s_mqtt_started = FALSE
    /\ s_mqtt_status = "STARTING"
    /\ s_mqtt_network_buffer = "null"
    /\ g_mqtt_connection = FALSE
    /\ s_notification = "none"
    /\ g_mqtt_task_q = <<>>
    /\ pub_pc = "none"
    /\ pub_data = DeadPayload
    /\ button_armed = FALSE
    /\ g_publisher_task_q = <<>>
    /\ publisher_q_created = FALSE
    /\ sub_pc = "none"
    /\ sub_retry = 0
    /\ g_subscriber_task_q = <<>>
    /\ subscriber_q_created = FALSE
    /\ g_current_device_state = "OFF"
    /\ cb_pc = "idle"
    /\ cb_reg = {}
    /\ cb_data = DeadPayload
    /\ con_pc = "idle"
    /\ con_cmd = DeadCommand
    /\ libs_inited = FALSE
    /\ connected = FALSE
    /\ subscribed = FALSE
    /\ inflight = <<>>
    /\ event_pending = FALSE
    /\ stranded = {}
    /\ fault = "none"
    /\ commands = 0
    /\ presses = 0
    /\ drops = 0
    /\ foreign = 0

ConsoleStep == NotifyPutExitLoop \/ NotifySet

\* What the user, the network and other clients may do, and need not.
EnvironmentStep ==
    \/ NotifyMqtt
    \/ isr_button_press
    \/ ConnectionLost
    \/ ForeignPublish

\* A program that is stopped, or whose heap is corrupt, takes no step the code describes.
Next ==
    /\ fault = "none"
    /\ \/ MqttTaskStep
       \/ PublisherStep
       \/ SubscriberStep
       \/ CallbackStep
       \/ ConsoleStep
       \/ EnvironmentStep

Spec == Init /\ [][Next]_vars

\* Every thread that can run does: the scheduler is preemptive, the library's calls time
\* out, and the timed waits end.  No thread of a higher priority spins, in a build without
\* Wi-Fi or until the Wi-Fi task is shut down (WifiSpins in Connectivity).
Fairness ==
    /\ WF_vars(fault = "none" /\ MqttTaskStep)
    /\ WF_vars(fault = "none" /\ PublisherStep)
    /\ WF_vars(fault = "none" /\ SubscriberStep)
    /\ WF_vars(fault = "none" /\ CallbackStep)
    /\ WF_vars(fault = "none" /\ ConsoleStep)

FairSpec == Spec /\ Fairness

-----------------------------------------------------------------------------
\* The type of every variable: the range each C variable, queue and thread has.
TypeOK ==
    /\ mqtt_pc \in MqttPcs
    /\ mqtt_reg \in SUBSET Masks
    /\ result \in {"ok", "err"}
    /\ retry_count \in 0 .. MAX_MQTT_CONN_RETRIES - 1
    /\ s_status_flag \in SUBSET Masks
    /\ s_mqtt_started \in BOOLEAN
    /\ s_mqtt_status \in Statuses
    /\ s_mqtt_network_buffer \in {"null", "live", "freed"}
    /\ g_mqtt_connection \in BOOLEAN
    /\ s_notification \in Notifications \cup {"none"}
    /\ g_mqtt_task_q \in Seq(MqttTaskCmds)
    /\ Len(g_mqtt_task_q) <= MQTT_TASK_QUEUE_LENGTH
    /\ pub_pc \in PubPcs
    /\ pub_data \in Payloads
    /\ button_armed \in BOOLEAN
    /\ g_publisher_task_q \in Seq(PublisherCmds)
    /\ Len(g_publisher_task_q) <= PUBLISHER_TASK_QUEUE_LENGTH
    /\ publisher_q_created \in BOOLEAN
    /\ sub_pc \in SubPcs
    /\ sub_retry \in 0 .. MAX_SUBSCRIBE_RETRIES - 1
    /\ g_subscriber_task_q \in Seq(SubscriberCmds)
    /\ Len(g_subscriber_task_q) <= SUBSCRIBER_TASK_QUEUE_LENGTH
    /\ subscriber_q_created \in BOOLEAN
    /\ g_current_device_state \in Payloads
    /\ cb_pc \in CbPcs
    /\ cb_reg \in SUBSET Masks
    /\ cb_data \in ForeignPayloads
    /\ cb_pc = "putUpdate" => cb_data \in Payloads
    /\ con_pc \in ConPcs
    /\ con_cmd \in Notifications
    /\ libs_inited \in BOOLEAN
    /\ connected \in BOOLEAN
    /\ subscribed \in BOOLEAN
    /\ inflight \in Seq(ForeignPayloads)
    /\ event_pending \in BOOLEAN
    /\ stranded \in SUBSET BlockedSenders
    /\ fault \in {"none", "null_queue", "double_free"}
    /\ commands \in Nat
    /\ presses \in Nat
    /\ drops \in Nat
    /\ foreign \in Nat

\* mqtt_client_task(), mqtt_delete_subtasks() and mqtt_cleanup(): the subtasks, which use
\* the connection handle without a lock, exist only while the library is up, the handle
\* is a created instance and the buffer it was created with is allocated, through every
\* failed, stopped and repeated start.
SubtasksOnlyWhileInstanceLive ==
    pub_pc # "none" \/ sub_pc # "none" =>
        /\ libs_inited
        /\ g_mqtt_connection
        /\ s_mqtt_network_buffer = "live"

\* mqtt_cleanup() and CHECK_RESULT: wherever a start or a run ended, a task that waits for
\* a notification holds no thread, library, instance, buffer or connection, although
\* the flags that say what to release are never reset.
NothingHeldWhenStopped ==
    mqtt_pc \in {"stopped", "idle", "ended"} =>
        /\ pub_pc = "none" /\ sub_pc = "none" /\ cb_pc = "idle"
        /\ ~libs_inited /\ ~g_mqtt_connection /\ ~connected /\ ~event_pending
        /\ s_mqtt_network_buffer # "live"

\* Whether the button will be armed once the commands in the publisher's queue are done: as
\* the last switch in it says, or as it is when there is none.
Switches(q) == {i \in 1 .. Len(q) : q[i] \in {"PUBLISHER_INIT", "PUBLISHER_DEINIT"}}

ArmedAfter(q, armed) ==
    \/ Switches(q) = {} /\ armed
    \/ \E last \in Switches(q) :
          q[last] = "PUBLISHER_INIT" /\ \A i \in Switches(q) : i <= last

\* handle_mqtt_operations() and publisher_task(): when no reconnection is under way, a
\* running publisher has its button armed or will have, in whatever order
\* disconnections, restarts and the re-creation of its queue came.
ButtonRearmed ==
    mqtt_pc = "ops" /\ pub_pc \in {"loop", "publish", "fail"} =>
        ArmedAfter(g_publisher_task_q, button_armed)

\* The notices of a lost connection on their way to the client task, by where they are: the
\* event that waits, the callback that has it, the places in the queue.
QueuedNotices(q) == {i \in 1 .. Len(q) : q[i] = "HANDLE_DISCONNECTION"}

Notices ==
    (IF event_pending THEN {-1} ELSE {})
    \cup (IF cb_pc \in {"clear", "clearStore", "putDisc"} THEN {0} ELSE {})
    \cup QueuedNotices(g_mqtt_task_q)

\* handle_mqtt_disconnect_event() and handle_mqtt_operations(): until the console
\* intervenes, a client that believes it is connected is, or exactly one notice of the
\* loss is on its way: none is lost, none is handled twice.
OneNoticePerDrop ==
    commands = 0 /\ mqtt_pc \in {"flagLoad", "flagStore", "createSub", "createPub", "ops",
                                 "resubscribe", "reinitPub"}
        => IF connected THEN Notices = {} ELSE \E n \in Notices : Notices = {n}

\* mqtt_client_task(): a start, the first or a later one, ends with the client serving
\* its queue or waiting for the next notification, whatever fails on the way.
StartTerminates ==
    mqtt_pc = "init" ~> mqtt_pc \in {"ops", "idle"} \/ fault # "none"

\* The client task and a subtask each wait, with no timeout, for a place in the other's
\* full queue.
CircularWait ==
    /\ MqttQFull
    /\ \/ /\ mqtt_pc \in {"deinitPub", "reinitPub"}
          /\ publisher_q_created /\ PublisherQFull /\ pub_pc = "fail"
       \/ /\ mqtt_pc = "resubscribe"
          /\ subscriber_q_created /\ SubscriberQFull /\ sub_pc = "fail"

\* The case HANDLE_DISCONNECTION: a client that has lost its connection gets it back or
\* gives up.  A circular wait (see NoCircularWait in MqttClaims) is all that can keep it
\* from that.
DropIsHandled ==
    mqtt_pc = "ops" /\ ~connected
        ~> connected \/ mqtt_pc = "idle" \/ fault # "none" \/ CircularWait

-----------------------------------------------------------------------------
(* The client task implements MqttLifecycle. *)

LifecyclePhase ==
    CASE mqtt_pc = "idle" -> "resting"
      [] mqtt_pc = "ended" -> "ended"
      [] mqtt_pc \in StopPcs -> "stopping"
      [] OTHER -> IF s_mqtt_started THEN "started" ELSE "starting"

HeldResources ==
    (IF libs_inited THEN {"library"} ELSE {})
    \cup (IF s_mqtt_network_buffer = "live" THEN {"buffer"} ELSE {})
    \cup (IF g_mqtt_connection THEN {"instance"} ELSE {})

RunningWorkers ==
    (IF pub_pc # "none" THEN {"publisher"} ELSE {})
    \cup (IF sub_pc # "none" THEN {"subscriber"} ELSE {})

Lifecycle == INSTANCE MqttLifecycle WITH
    Resources <- {"library", "buffer", "instance"},
    Workers <- {"publisher", "subscriber"},
    phase <- LifecyclePhase,
    held <- HeldResources,
    workers <- RunningWorkers,
    halted <- fault # "none"

\* mqtt_client_task() with all it calls goes through the phases of the abstract
\* specification: it hires with everything acquired, releases with nobody left, starts
\* again only from rest.
ImplementsLifecycle == Lifecycle!LifecycleSpec

\* Once the task has begun to stop it comes to rest, wherever the subtasks were.
StopCompletes == Lifecycle!StopCompletes
-----------------------------------------------------------------------------
(* The inductive invariant behind SubtasksOnlyWhileInstanceLive and              *)
(* NothingHeldWhenStopped.                                                       *)

\* Where the client task is with everything mqtt_init() acquires, where it is on its way
\* to mqtt_cleanup(), and where it has nothing.
ServingPcs == {"createSub", "createPub", "ops"} \cup ConnectPcs \cup DisconnectionPcs
DeletingPcs == {"deleteSub", "deletePub"}
EmptyPcs == {"init", "stopped", "idle", "ended"}

AllAcquired == libs_inited /\ g_mqtt_connection /\ s_mqtt_network_buffer = "live"

\* The subtasks and the resources, by the place of the client task.
OwnedByPlace ==
    /\ mqtt_pc \in ServingPcs => AllAcquired
    /\ mqtt_pc \in DeletingPcs /\ (pub_pc # "none" \/ sub_pc # "none") => AllAcquired
    /\ mqtt_pc \notin ServingPcs \cup DeletingPcs => pub_pc = "none" /\ sub_pc = "none"
    /\ mqtt_pc = "deletePub" => sub_pc = "none"

\* What is held has its flag, and the two copies of the word that a thread may store back
\* agree with it on these flags.
ResourceMasks == {"LIBS_INITIALIZED", "BUFFER_INITIALIZED", "MQTT_INSTANCE_CREATED"}

FlagsCoverResources ==
    /\ libs_inited => "LIBS_INITIALIZED" \in s_status_flag
    /\ s_mqtt_network_buffer = "live" => "BUFFER_INITIALIZED" \in s_status_flag
    /\ g_mqtt_connection => "MQTT_INSTANCE_CREATED" \in s_status_flag
    /\ cb_pc \in {"clearStore", "markStore"} =>
          \A m \in ResourceMasks : m \in cb_reg <=> m \in s_status_flag
    /\ mqtt_pc = "flagStore" =>
          \A m \in ResourceMasks : m \in mqtt_reg <=> m \in s_status_flag

\* The callback and the connection live only while the library does, and never where
\* mqtt_init() writes the flags.
LibraryActivity ==
    cb_pc # "idle" \/ event_pending \/ connected \/ inflight # <<>> =>
        libs_inited /\ mqtt_pc \notin EmptyPcs

NothingHeld == mqtt_pc \in EmptyPcs =>
    ~libs_inited /\ ~g_mqtt_connection /\ s_mqtt_network_buffer # "live"

\* mqtt_init(), mqtt_cleanup() and the callback's and mqtt_connect()'s unprotected changes
\* of s_status_flag: the flags that mqtt_cleanup() goes by never miss a resource that is
\* held, although two threads load, change and store the same word.
ResourceInv == OwnedByPlace /\ FlagsCoverResources /\ LibraryActivity /\ NothingHeld
=============================================================================
