CONSTANTS
    MAX_PPP_CONN_RETRIES = 2
    IoCommands <- MCStopOrRestart
    MaxIoCommands = 2
    MaxLosses = 1
    MAX_WIFI_CONN_RETRIES = 2
    WifiCommands <- IoNotifications
    MaxWifiCommands = 2
    MaxTold = 2
    FeatureSets <- MCBuilds
SPECIFICATION ConnFairSpec
INVARIANTS
    PppTypeOK
    AddressMatchesConnection
    LossIsNoticed
    WifiTypeOK
    WifiAddressMatches
    MenusFitBuild
PROPERTIES
    StartsEnd
    StopIsObeyed
    ImplementIoLifecycle
CHECK_DEADLOCK FALSE
