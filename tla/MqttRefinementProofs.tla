------------------------- MODULE MqttRefinementProofs -------------------------
(***************************************************************************)
(* MqttClient implements MqttLifecycle: the initial states map to initial  *)
(* states, and every step maps to a step of the abstract specification or  *)
(* leaves its variables as they are.                                       *)
(***************************************************************************)
EXTENDS MqttClientProofs

\* The tuples of UNCHANGED are abbreviations.
USE DEF vars, taskVars, statusVars, instVars, netVars, pubVars, pubqVars, subVars, subqVars,
        cbVars, conVars, boundVars, othersVars

-----------------------------------------------------------------------------
(* What ResourceInv does not say: s_mqtt_started, which tells a start from a             *)
(* reconnection, by the place of the client task, and the subtasks during a start.       *)

StartedByPlace ==
    /\ mqtt_pc \in {"init", "createSub", "createPub", "idle", "ended"} => ~s_mqtt_started
    /\ mqtt_pc \in {"ops"} \cup DisconnectionPcs => s_mqtt_started
    /\ mqtt_pc \in ConnectPcs \cup {"createSub"} /\ ~s_mqtt_started =>
          pub_pc = "none" /\ sub_pc = "none"
    /\ mqtt_pc = "createPub" => pub_pc = "none" /\ sub_pc # "none"

\* Only the client task creates and deletes the subtasks.
LEMMA OthersKeepSubtasks ==
    ASSUME PublisherStep \/ SubscriberStep \/ CallbackStep \/ ConsoleStep \/ EnvironmentStep
    PROVE  /\ UNCHANGED <<mqtt_pc, s_mqtt_started>>
           /\ pub_pc' = "none" <=> pub_pc = "none"
           /\ sub_pc' = "none" <=> sub_pc = "none"
           /\ UNCHANGED <<libs_inited, g_mqtt_connection, s_mqtt_network_buffer>>
           /\ fault' \in {fault, "null_queue"}
<1>1. CASE PublisherStep
  BY <1>1 DEF PublisherStep, PublisherStart, PublisherCreateQueue, PublisherGet,
              PublisherPublish, PublisherReportFailure
<1>2. CASE SubscriberStep
  BY <1>2 DEF SubscriberStep, Subscribe, SubscriberReportFailure, SubscriberCreateQueue,
              SubscriberGet, AfterSubscribe, SubscribeFailed
<1>3. CASE CallbackStep
  BY <1>3 DEF CallbackStep, CallbackDisconnect, CallbackMessage, CallbackLoadFlag,
              CallbackStoreFlag, CallbackPutDisconnection, CallbackPutUpdate
<1>4. CASE ConsoleStep
  BY <1>4 DEF ConsoleStep, NotifyPutExitLoop, NotifySet, notifyUnchanged
<1>5. CASE EnvironmentStep
  BY <1>5 DEF EnvironmentStep, NotifyMqtt, notifyUnchanged, isr_button_press, ConnectionLost,
              ForeignPublish
<1> QED
  BY <1>1, <1>2, <1>3, <1>4, <1>5

USE DEF ConnectPcs, DisconnectionPcs

LEMMA TaskStarted ==
    ASSUME ResourceInv, StartedByPlace, MqttTaskStep PROVE StartedByPlace'
<1>1. CASE mqtt_init
  BY <1>1 DEF mqtt_init, StartedByPlace, ResourceInv, OwnedByPlace, ServingPcs, DeletingPcs
<1>2. CASE mqtt_connect
  BY <1>2 DEF mqtt_connect, ConnectAttempt, ConnectNotified, ConnectTimeout, ConnectLoadFlag,
              ConnectStoreFlag, ConnectReturns, ReconnectingNow, StartedByPlace
<1>3. CASE CreateSubscriber \/ CreatePublisher
  BY <1>3 DEF CreateSubscriber, CreatePublisher, StartedByPlace
<1>4. CASE HandleCommand
  BY <1>4 DEF HandleCommand, StartedByPlace
<1>5. CASE HandleDisconnection
  BY <1>5 DEF HandleDisconnection, DeinitPublisher, Disconnect, Resubscribe, ReinitPublisher,
              PutPublisherQ, StartedByPlace
<1>6. CASE Cleanup
  BY <1>6 DEF Cleanup, DeleteSubscriber, DeletePublisher, CleanupConnection, CleanupResources,
              MarkStopped, StartedByPlace
<1>7. CASE WaitForNotification
  BY <1>7 DEF WaitForNotification, StartedByPlace
<1> QED
  BY <1>1, <1>2, <1>3, <1>4, <1>5, <1>6, <1>7 DEF MqttTaskStep

LEMMA StartedCorrect == Spec => []StartedByPlace
<1>1. Init => StartedByPlace
  BY DEF Init, StartedByPlace
<1>2. ResourceInv /\ StartedByPlace /\ [Next]_vars => StartedByPlace'
  <2>1. UNCHANGED vars /\ StartedByPlace => StartedByPlace'
    BY DEF StartedByPlace
  <2>2. ASSUME StartedByPlace,
               PublisherStep \/ SubscriberStep \/ CallbackStep \/ ConsoleStep \/ EnvironmentStep
        PROVE  StartedByPlace'
    BY <2>2, OthersKeepSubtasks DEF StartedByPlace
  <2> QED
    BY <2>1, <2>2, TaskStarted DEF Next
<1> QED
  BY <1>1, <1>2, ResourcesCorrect, PTL DEF Spec

-----------------------------------------------------------------------------
(* The steps of the abstract specification *)

StepInv == TypeOK /\ ResourceInv /\ ResourceInv' /\ StartedByPlace /\ StartedByPlace' /\ fault = "none"

AbstractStep == [Lifecycle!LifecycleNext]_(Lifecycle!lifecycleVars)

USE DEF LifecyclePhase, HeldResources, RunningWorkers, StopPcs

LEMMA OthersStep ==
    ASSUME fault = "none",
           PublisherStep \/ SubscriberStep \/ CallbackStep \/ ConsoleStep \/ EnvironmentStep
    PROVE  AbstractStep
<1>1. UNCHANGED <<LifecyclePhase, HeldResources, RunningWorkers>>
  BY OthersKeepSubtasks
<1>2. CASE fault' = "none"
  BY <1>1, <1>2 DEF AbstractStep, Lifecycle!lifecycleVars
<1>3. CASE fault' # "none"
  <2>1. Lifecycle!Halt
    BY <1>1, <1>3 DEF Lifecycle!Halt
  <2> QED
    BY <2>1 DEF AbstractStep, Lifecycle!LifecycleNext
<1> QED
  BY <1>2, <1>3

\* mqtt_init() acquires.
LEMMA InitStep == ASSUME StepInv, mqtt_init PROVE AbstractStep
<1>1. /\ LifecyclePhase = "starting" /\ HeldResources = {} /\ fault' = fault
      /\ UNCHANGED RunningWorkers
  BY DEF StepInv, StartedByPlace, ResourceInv, NothingHeld, EmptyPcs, mqtt_init
<1>2. HeldResources' \in SUBSET {"library", "buffer", "instance"}
  OBVIOUS
<1>3. /\ LifecyclePhase' \in {"starting", "stopping"}
      /\ LifecyclePhase' = "starting" => HeldResources' = {"library", "buffer", "instance"}
  <2>1. mqtt_pc' = "attempt" \/ mqtt_pc' = "deleteSub"
    BY DEF mqtt_init
  <2>2. mqtt_pc' = "attempt" => AllAcquired'
    BY DEF StepInv, ResourceInv, OwnedByPlace, ServingPcs
  <2> QED
    BY <2>1, <2>2 DEF AllAcquired, StepInv, StartedByPlace, mqtt_init
<1>4. Lifecycle!Acquire
  BY <1>1, <1>2, <1>3 DEF Lifecycle!Acquire
<1> QED
  BY <1>4 DEF AbstractStep, Lifecycle!LifecycleNext, StepInv

\* A step that changes nothing but perhaps from starting or started to stopping.
LEMMA GiveUpStep ==
    ASSUME fault = "none", UNCHANGED <<HeldResources, RunningWorkers, fault>>,
           \/ UNCHANGED LifecyclePhase
           \/ LifecyclePhase \in {"starting", "started"} /\ LifecyclePhase' = "stopping"
    PROVE  AbstractStep
<1>1. CASE UNCHANGED LifecyclePhase
  BY <1>1 DEF AbstractStep, Lifecycle!lifecycleVars
<1>2. CASE LifecyclePhase \in {"starting", "started"} /\ LifecyclePhase' = "stopping"
  <2>1. Lifecycle!GiveUp
    BY <1>2 DEF Lifecycle!GiveUp
  <2> QED
    BY <2>1 DEF AbstractStep, Lifecycle!LifecycleNext
<1> QED
  BY <1>1, <1>2

LEMMA ConnectStep == ASSUME StepInv, mqtt_connect PROVE AbstractStep
<1>1. UNCHANGED <<HeldResources, RunningWorkers, fault, s_mqtt_started>>
  BY DEF mqtt_connect, ConnectAttempt, ConnectNotified, ConnectTimeout, ConnectLoadFlag,
         ConnectStoreFlag
<1>2. /\ mqtt_pc \in ConnectPcs
      /\ mqtt_pc' \in ConnectPcs \cup {"deleteSub", "resubscribe", "createSub"}
  BY DEF mqtt_connect, ConnectAttempt, ConnectNotified, ConnectTimeout, ConnectLoadFlag,
         ConnectStoreFlag, ConnectReturns
<1> QED
  BY <1>1, <1>2, GiveUpStep DEF StepInv

\* mqtt_create_subtasks() hires the subscriber, then the publisher.
LEMMA CreateStep == ASSUME StepInv, CreateSubscriber \/ CreatePublisher PROVE AbstractStep
<1>1. /\ LifecyclePhase = "starting" /\ HeldResources = {"library", "buffer", "instance"}
      /\ UNCHANGED <<HeldResources, fault>> /\ pub_pc = "none"
      /\ CreateSubscriber => sub_pc = "none"
      /\ CreatePublisher => sub_pc # "none"
  BY DEF StepInv, StartedByPlace, ResourceInv, OwnedByPlace, ServingPcs, AllAcquired,
         CreateSubscriber, CreatePublisher
<1>2. CASE mqtt_pc' = "deleteSub"
  <2>1. UNCHANGED RunningWorkers /\ LifecyclePhase' = "stopping"
    BY <1>2 DEF CreateSubscriber, CreatePublisher
  <2> QED
    BY <1>1, <2>1, GiveUpStep DEF StepInv
<1>3. CASE CreateSubscriber /\ mqtt_pc' # "deleteSub"
  <2>1. /\ RunningWorkers = {} /\ RunningWorkers' = {"subscriber"}
        /\ LifecyclePhase' = "starting"
    BY <1>1, <1>3 DEF CreateSubscriber
  <2>2. Lifecycle!Hire
    BY <1>1, <2>1 DEF Lifecycle!Hire
  <2> QED
    BY <2>2 DEF AbstractStep, Lifecycle!LifecycleNext, StepInv
<1>4. CASE CreatePublisher /\ mqtt_pc' # "deleteSub"
  <2>1. /\ RunningWorkers = {"subscriber"} /\ RunningWorkers' = {"publisher", "subscriber"}
        /\ LifecyclePhase' = "started"
    BY <1>1, <1>4 DEF CreatePublisher
  <2>2. Lifecycle!Hire
    BY <1>1, <2>1 DEF Lifecycle!Hire
  <2> QED
    BY <2>2 DEF AbstractStep, Lifecycle!LifecycleNext, StepInv
<1> QED
  BY <1>2, <1>3, <1>4

LEMMA OperationsStep ==
    ASSUME StepInv, HandleCommand \/ HandleDisconnection PROVE AbstractStep
<1>1. UNCHANGED <<HeldResources, RunningWorkers, s_mqtt_started>>
  BY DEF HandleCommand, HandleDisconnection, DeinitPublisher, Disconnect, Resubscribe,
         ReinitPublisher, PutPublisherQ
<1>2. /\ mqtt_pc \in {"ops"} \cup DisconnectionPcs
      /\ mqtt_pc' \in {"ops", "deleteSub", "attempt"} \cup DisconnectionPcs
  BY DEF HandleCommand, HandleDisconnection, DeinitPublisher, Disconnect, Resubscribe,
         ReinitPublisher, PutPublisherQ
<1>3. s_mqtt_started
  BY <1>2 DEF StepInv, StartedByPlace
<1>4. CASE fault' = fault
  BY <1>1, <1>2, <1>3, <1>4, GiveUpStep DEF StepInv
<1>5. CASE fault' # fault
  <2>1. UNCHANGED mqtt_pc /\ fault' = "null_queue"
    BY <1>5 DEF HandleCommand, HandleDisconnection, DeinitPublisher, Disconnect, Resubscribe,
                ReinitPublisher, PutPublisherQ
  <2>2. Lifecycle!Halt
    BY <1>1, <2>1 DEF Lifecycle!Halt
  <2> QED
    BY <2>2 DEF AbstractStep, Lifecycle!LifecycleNext, StepInv
<1> QED
  BY <1>4, <1>5

\* mqtt_delete_subtasks() dismisses, mqtt_cleanup() releases.
LEMMA CleanupStep == ASSUME StepInv, Cleanup PROVE AbstractStep
<1>1. CASE DeleteSubscriber \/ DeletePublisher
  <2>1. /\ LifecyclePhase = "stopping" /\ LifecyclePhase' = "stopping"
        /\ UNCHANGED <<HeldResources, fault>>
    BY <1>1 DEF DeleteSubscriber, DeletePublisher
  <2>2. \/ UNCHANGED RunningWorkers
        \/ \E w \in RunningWorkers : RunningWorkers' = RunningWorkers \ {w}
    BY <1>1 DEF DeleteSubscriber, DeletePublisher
  <2>3. UNCHANGED RunningWorkers \/ Lifecycle!Dismiss
    BY <2>1, <2>2 DEF Lifecycle!Dismiss
  <2> QED
    BY <2>1, <2>3 DEF AbstractStep, Lifecycle!LifecycleNext, Lifecycle!lifecycleVars, StepInv
<1>2. CASE CleanupConnection
  <2>1. UNCHANGED <<LifecyclePhase, HeldResources, RunningWorkers, fault>>
    BY <1>2 DEF CleanupConnection
  <2> QED
    BY <2>1, GiveUpStep DEF StepInv
<1>3. CASE CleanupResources
  <2>1. /\ LifecyclePhase = "stopping" /\ LifecyclePhase' = "stopping"
        /\ RunningWorkers = {} /\ RunningWorkers' = {} /\ HeldResources' = {}
    BY <1>3 DEF CleanupResources, StepInv, ResourceInv, OwnedByPlace, NothingHeld, EmptyPcs,
                ServingPcs, DeletingPcs
  <2>2. Lifecycle!Release
    BY <2>1 DEF Lifecycle!Release
  <2> QED
    BY <2>2 DEF AbstractStep, Lifecycle!LifecycleNext, StepInv
<1>4. CASE MarkStopped
  <2>1. /\ LifecyclePhase = "stopping" /\ LifecyclePhase' = "resting"
        /\ RunningWorkers = {} /\ HeldResources = {}
        /\ UNCHANGED <<RunningWorkers, HeldResources, fault>>
    BY <1>4 DEF MarkStopped, StepInv, ResourceInv, OwnedByPlace, NothingHeld, EmptyPcs,
                ServingPcs, DeletingPcs
  <2>2. Lifecycle!Rest
    BY <2>1 DEF Lifecycle!Rest
  <2> QED
    BY <2>2 DEF AbstractStep, Lifecycle!LifecycleNext, StepInv
<1> QED
  BY <1>1, <1>2, <1>3, <1>4 DEF Cleanup

LEMMA WaitStep == ASSUME StepInv, WaitForNotification PROVE AbstractStep
<1>1. /\ LifecyclePhase = "resting"
      /\ UNCHANGED <<RunningWorkers, HeldResources, fault, s_mqtt_started>>
      /\ mqtt_pc' \in {"idle", "ended", "init"}
  BY DEF WaitForNotification
<1>2. LifecyclePhase' \in {"resting", "ended", "starting"}
  BY <1>1 DEF StepInv, StartedByPlace
<1>3. UNCHANGED LifecyclePhase \/ Lifecycle!End \/ Lifecycle!Restart
  BY <1>1, <1>2 DEF Lifecycle!End, Lifecycle!Restart
<1> QED
  BY <1>1, <1>3 DEF AbstractStep, Lifecycle!LifecycleNext, Lifecycle!lifecycleVars, StepInv

\* mqtt_client_task() with everything it calls, whatever the other threads, the network and
\* the console do: it hires with everything acquired, releases with nobody left, and starts
\* again only from rest.
THEOREM LifecycleImplemented == Spec => ImplementsLifecycle
<1>1. Init => Lifecycle!LifecycleInit
  BY DEF Init, Lifecycle!LifecycleInit
<1>2. /\ TypeOK /\ ResourceInv /\ ResourceInv' /\ StartedByPlace /\ StartedByPlace'
      /\ [Next]_vars
      => AbstractStep
  <2>1. UNCHANGED vars => AbstractStep
    BY DEF AbstractStep, Lifecycle!lifecycleVars
  <2> QED
    BY <2>1, OthersStep, InitStep, ConnectStep, CreateStep, OperationsStep, CleanupStep,
       WaitStep DEF Next, MqttTaskStep, StepInv
<1> QED
  BY <1>1, <1>2, TypeCorrect, ResourcesCorrect, StartedCorrect, PTL
     DEF Spec, ImplementsLifecycle, Lifecycle!LifecycleSpec, AbstractStep
=============================================================================
