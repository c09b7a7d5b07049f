------------------------------ MODULE IoLifecycle ------------------------------
(***************************************************************************)
(* What an I/O task promises, whichever network it keeps and however many  *)
(* attempts, notifications and failures that takes: it holds one           *)
(* connection at a time, it serves only with an address, and it never asks *)
(* for another connection before it has closed the one it has.             *)
(***************************************************************************)
VARIABLES phase, address

ioVars == <<phase, address>>

IoInit ==
    /\ phase \in {"starting", "ended"}
    /\ address = "zero"

\* A connection has been made; there was none.
Acquire ==
    /\ phase = "starting" /\ address = "zero"
    /\ address' = "set"
    /\ UNCHANGED phase

Serve ==
    /\ phase = "starting" /\ address = "set"
    /\ phase' = "serving"
    /\ UNCHANGED address

\* A start that gives up has nothing to close.
GiveUp ==
    /\ phase = "starting" /\ address = "zero"
    /\ phase' = "resting"
    /\ UNCHANGED address

Close ==
    /\ phase = "serving"
    /\ phase' = "closing"
    /\ UNCHANGED address

Closed ==
    /\ phase = "closing"
    /\ phase' \in {"resting", "starting", "ended"}
    /\ address' = "zero"

\* The next start, or the end.
Resume ==
    /\ phase = "resting"
    /\ phase' \in {"starting", "ended"}
    /\ UNCHANGED address

IoNext == Acquire \/ Serve \/ GiveUp \/ Close \/ Closed \/ Resume

IoSpec == IoInit /\ [][IoNext]_ioVars
=============================================================================
