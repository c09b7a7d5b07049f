CONSTANTS
    BLE_MODEM_TASK_QUEUE_SIZE = 2
    DEFAULT_GATT_MTU_SIZE = 6
    TRANSRECEIVE_LEN = 9
    ClientMtus <- MCMtus
    RequestSizes <- MCRequestSizes
    ResponseLens <- MCResponseLens
    MaxConnections = 2
    MaxRequests = 2
    MaxOpens = 2
    MaxPppChanges = 2
SPECIFICATION BleFairSpec
INVARIANTS
    BleTypeOK
    RequestsAreWhole
    ResponsesInOrder
    SilenceIsRefusal
    CommandModeWhileOpen
    ModeRestored
    NoAssertionFails
PROPERTIES
    WaitEnds
    ImplementsModemService
CHECK_DEADLOCK FALSE
