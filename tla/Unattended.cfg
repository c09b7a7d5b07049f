CONSTANTS
    MQTT_TASK_QUEUE_LENGTH = 2
    PUBLISHER_TASK_QUEUE_LENGTH = 1
    SUBSCRIBER_TASK_QUEUE_LENGTH = 1
    MAX_MQTT_CONN_RETRIES = 2
    MAX_SUBSCRIBE_RETRIES = 2
    ConsoleCommands = {}
    MaxCommands = 0
    MaxPresses = 2
    MaxDrops = 2
    MaxForeign = 1
SPECIFICATION FairSpec
INVARIANTS
    TypeOK
    ButtonRearmed
    OneNoticePerDrop
PROPERTIES
    DropIsHandled
CHECK_DEADLOCK FALSE
