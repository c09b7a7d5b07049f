------------------------------ MODULE ModemService ------------------------------
(***************************************************************************)
(* What the modem over BLE promises a phone, however its writes are cut,   *)
(* queued, acknowledged and answered: an open or a close ends with the     *)
(* phone taking the modem for what it is; a request is executed by an open *)
(* modem, once, while the phone waits for it; a response the phone has     *)
(* whole is one to what it asked last; and whoever waits is answered or    *)
(* refused.  When a connection ends before an answer the promise is off.   *)
(***************************************************************************)
EXTENDS Naturals

VARIABLES
    phase,      \* what the phone is waiting for, or "away" or "ready"
    view,       \* whether the phone takes the modem to be open
    open,       \* whether it is
    asked,      \* the number of the last request
    executed,   \* and of the last that the modem has executed
    heard,      \* whether the phone has the whole response to the last one
    off         \* the promise

serviceVars == <<phase, view, open, asked, executed, heard, off>>

ServiceInit ==
    /\ phase = "away" /\ view = FALSE /\ open = FALSE
    /\ asked = 0 /\ executed = 0 /\ heard = FALSE
    /\ off = FALSE

\* Another phone, or the same one, knows nothing yet.
Arrive ==
    /\ phase = "away"
    /\ view' = FALSE
    /\ UNCHANGED <<phase, open, asked, executed, heard, off>>

GetReady ==
    /\ phase = "away"
    /\ phase' = "ready" /\ view' = open
    /\ UNCHANGED <<open, asked, executed, heard, off>>

Leave ==
    /\ phase = "ready"
    /\ phase' = "away"
    /\ UNCHANGED <<view, open, asked, executed, heard, off>>

AskModem ==
    /\ phase = "ready"
    /\ phase' \in {"opening", "closing"}
    /\ UNCHANGED <<view, open, asked, executed, heard, off>>

\* The modem is opened for a phone that waits for it, and closed for one that does.
Open ==
    /\ phase = "opening" /\ ~open
    /\ open' = TRUE
    /\ UNCHANGED <<phase, view, asked, executed, heard, off>>

Close ==
    /\ phase = "closing" /\ open
    /\ open' = FALSE
    /\ UNCHANGED <<phase, view, asked, executed, heard, off>>

\* A close ends with a closed modem; an open may be refused.
ModemAnswered ==
    /\ phase = "opening" \/ (phase = "closing" /\ ~open)
    /\ phase' = "ready" /\ view' = open
    /\ UNCHANGED <<open, asked, executed, heard, off>>

Ask ==
    /\ phase = "ready" /\ view /\ open
    /\ phase' = "asking" /\ asked' = asked + 1 /\ heard' = FALSE
    /\ UNCHANGED <<view, open, executed, off>>

Execute ==
    /\ phase = "asking" /\ open /\ executed < asked
    /\ phase' = "answering" /\ executed' = asked
    /\ UNCHANGED <<view, open, asked, heard, off>>

Refuse ==
    /\ phase = "asking"
    /\ phase' = "refused"
    /\ UNCHANGED <<view, open, asked, executed, heard, off>>

\* The phone has the whole response.
Hear ==
    /\ phase = "answering"
    /\ phase' = "ready" /\ heard' = TRUE
    /\ UNCHANGED <<view, open, asked, executed, off>>

\* Only a refused request is given up.
GiveUp ==
    /\ phase = "refused"
    /\ phase' = "ready"
    /\ UNCHANGED <<view, open, asked, executed, heard, off>>

\* A connection ends before an answer: from then on, anything.
CutOff == off'

ServiceNext ==
    \/ Arrive \/ GetReady \/ Leave
    \/ AskModem \/ Open \/ Close \/ ModemAnswered
    \/ Ask \/ Execute \/ Refuse \/ Hear \/ GiveUp
    \/ CutOff

ServiceSpec == ServiceInit /\ [][ServiceNext]_serviceVars
=============================================================================
