----------------------------- MODULE MCMqttClient -----------------------------
EXTENDS MqttClient
MCAllCommands == {"START_APP", "STOP_APP", "RESTART_APP", "SHUTDOWN_APP"}
=============================================================================
