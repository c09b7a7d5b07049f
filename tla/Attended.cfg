CONSTANTS
    MQTT_TASK_QUEUE_LENGTH = 3
    PUBLISHER_TASK_QUEUE_LENGTH = 3
    SUBSCRIBER_TASK_QUEUE_LENGTH = 1
    MAX_MQTT_CONN_RETRIES = 2
    MAX_SUBSCRIBE_RETRIES = 1
    ConsoleCommands <- MCAllCommands
    MaxCommands = 2
    MaxPresses = 0
    MaxDrops = 1
    MaxForeign = 0
SPECIFICATION FairSpec
INVARIANTS
    SubtasksOnlyWhileInstanceLive
    NothingHeldWhenStopped
    ResourceInv
PROPERTIES
    StartTerminates
    StopCompletes
    ImplementsLifecycle
CHECK_DEADLOCK FALSE
