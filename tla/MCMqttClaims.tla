----------------------------- MODULE MCMqttClaims -----------------------------
EXTENDS MqttClaims
MCRestart == {"RESTART_APP"}
=============================================================================
