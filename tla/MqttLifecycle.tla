----------------------------- MODULE MqttLifecycle -----------------------------
(***************************************************************************)
(* What the MQTT client task promises, without its queues, flags, retries  *)
(* and interleavings: it acquires what it needs, hires two workers,        *)
(* serves, dismisses the workers, releases everything, rests.              *)
(***************************************************************************)
CONSTANTS Resources, Workers

VARIABLES phase, held, workers, halted

lifecycleVars == <<phase, held, workers, halted>>

Phases == {"starting", "started", "stopping", "resting", "ended"}

LifecycleInit ==
    /\ phase = "starting"
    /\ held = {}
    /\ workers = {}
    /\ halted = FALSE

\* Some of the resources, from nothing.
Acquire ==
    /\ phase = "starting"
    /\ held = {}
    /\ held' \in SUBSET Resources
    /\ phase' \in {"starting", "stopping"}
    /\ phase' = "starting" => held' = Resources
    /\ UNCHANGED <<workers, halted>>

\* One worker at a time, and only with every resource; with the last one it is started.
Hire ==
    /\ phase = "starting"
    /\ held = Resources
    /\ \E w \in Workers \ workers : workers' = workers \cup {w}
    /\ phase' = IF workers' = Workers THEN "started" ELSE "starting"
    /\ UNCHANGED <<held, halted>>

GiveUp ==
    /\ phase \in {"starting", "started"}
    /\ phase' = "stopping"
    /\ UNCHANGED <<held, workers, halted>>

Dismiss ==
    /\ phase = "stopping"
    /\ \E w \in workers : workers' = workers \ {w}
    /\ UNCHANGED <<phase, held, halted>>

\* Everything at once, and only when no worker is left to use it.
Release ==
    /\ phase = "stopping"
    /\ workers = {}
    /\ held' = {}
    /\ halted' \in BOOLEAN
    /\ UNCHANGED <<phase, workers>>

Rest ==
    /\ phase = "stopping"
    /\ workers = {}
    /\ held = {}
    /\ phase' = "resting"
    /\ UNCHANGED <<held, workers, halted>>

Restart ==
    /\ phase = "resting"
    /\ phase' = "starting"
    /\ UNCHANGED <<held, workers, halted>>

End ==
    /\ phase = "resting"
    /\ phase' = "ended"
    /\ UNCHANGED <<held, workers, halted>>

\* The program stops, at any time.
Halt ==
    /\ halted' = TRUE
    /\ UNCHANGED <<phase, held, workers>>

LifecycleNext ==
    /\ ~halted
    /\ \/ Acquire \/ Hire \/ GiveUp \/ Dismiss \/ Release \/ Rest
       \/ Restart \/ End \/ Halt

LifecycleSpec == LifecycleInit /\ [][LifecycleNext]_lifecycleVars

\* A stop, for whatever reason, is completed.
StopCompletes == phase = "stopping" ~> phase = "resting" \/ halted
=============================================================================
