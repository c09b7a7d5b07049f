CONSTANTS
    MQTT_TASK_QUEUE_LENGTH = 3
    PUBLISHER_TASK_QUEUE_LENGTH = 3
    SUBSCRIBER_TASK_QUEUE_LENGTH = 1
    MAX_MQTT_CONN_RETRIES = 2
    MAX_SUBSCRIBE_RETRIES = 1
    ConsoleCommands = {}
    MaxCommands = 0
    MaxPresses = 1
    MaxDrops = 1
    MaxForeign = 1
SPECIFICATION Spec
INVARIANT
    PutQueueExists
CHECK_DEADLOCK FALSE
