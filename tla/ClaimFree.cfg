CONSTANTS
    MQTT_TASK_QUEUE_LENGTH = 3
    PUBLISHER_TASK_QUEUE_LENGTH = 3
    SUBSCRIBER_TASK_QUEUE_LENGTH = 1
    MAX_MQTT_CONN_RETRIES = 2
    MAX_SUBSCRIBE_RETRIES = 1
    ConsoleCommands <- MCRestart
    MaxCommands = 1
    MaxPresses = 0
    MaxDrops = 0
    MaxForeign = 0
SPECIFICATION Spec
INVARIANT
    BufferFreedOnce
CHECK_DEADLOCK FALSE
