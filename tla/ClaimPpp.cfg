CONSTANTS
    MAX_PPP_CONN_RETRIES = 3
    IoCommands <- MCMenu
    MaxIoCommands = 2
    MaxLosses = 1
SPECIFICATION PppFairSpec
PROPERTY
    LossIsActedOn
CHECK_DEADLOCK FALSE
