------------------------------ MODULE MCPppTask ------------------------------
EXTENDS PppTask
MCMenu == {"START_IO", "STOP_IO", "RESTART_IO"}
=============================================================================
