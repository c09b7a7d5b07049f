----------------------------- MODULE MCConnectivity -----------------------------
EXTENDS Connectivity
MCStopOrRestart == {"STOP_IO", "RESTART_IO", "SHUTDOWN_IO"}
\* Every set of I/Os and every set of application features at least once; the menus of the
\* applications touch no I/O task, so the build with both I/Os leaves them out.
MCBuilds == {{"PPP", "WIFI"}, {"PPP", "APPS", "MQTT"}, {"PPP"}, {"WIFI", "APPS"},
             {"WIFI", "MQTT"}, {"APPS", "MQTT"}, {}}
=============================================================================
