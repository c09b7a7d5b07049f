------------------------------ MODULE PppProofs ------------------------------
(***************************************************************************)
(* Theorems of PppTask, for every number of turns, set of console commands *)
(* and bound on events.                                                    *)
(***************************************************************************)
EXTENDS PppTask, TLAPS

StopOrRestart == {"STOP_IO", "RESTART_IO", "SHUTDOWN_IO"}

\* What s_ppp_connected and the address are at each place of ppp_task(): what connect_to_ppp()
\* stores precedes the flag, and what a notification ends is cleared with it.
PlaceInv ==
    /\ ppp_pc \in {"prompt", "connect", "reject", "ended"} =>
           ~s_ppp_connected /\ s_ppp_ip_addr = "zero"
    /\ ppp_pc = "connected" => ~s_ppp_connected /\ s_ppp_ip_addr = "set"

\* AddressMatchesConnection does not say why it will hold where the task waits next.
PppInv == PppTypeOK /\ PlaceInv /\ AddressMatchesConnection

\* LossIsNoticed, from the moment there is a connection to lose.
NoticeInv ==
    ppp_pc = "connected" \/ (ppp_pc = "idle" /\ s_ppp_connected) =>
        link \/ lost_pending \/ s_notification \in StopOrRestart

-----------------------------------------------------------------------------
\* PppTypeOK in two parts, the numbers and the rest.
NumbersOK ==
    /\ conn_retries \in 0 .. MAX_PPP_CONN_RETRIES - 1
    /\ io_commands \in Nat
    /\ losses \in Nat

ValuesOK ==
    /\ ppp_pc \in {"prompt", "connect", "reject", "connected", "idle", "disconnect", "ended"}
    /\ ulNotifiedValue \in IoNotifications \cup {"none"}
    /\ s_notification \in IoNotifications \cup {"none"}
    /\ s_ppp_connected \in BOOLEAN
    /\ s_ppp_status \in IoStatuses
    /\ s_ppp_ip_addr \in {"zero", "set"}
    /\ link \in BOOLEAN
    /\ lost_pending \in BOOLEAN

LEMMA TypeParts == PppTypeOK <=> NumbersOK /\ ValuesOK
BY DEF PppTypeOK, NumbersOK, ValuesOK

\* Every step keeps the numbers in their range, one case for each action.
LEMMA NumbersStep == NumbersOK /\ [PppNext]_pppVars => NumbersOK'
<1> SUFFICES ASSUME NumbersOK, [PppNext]_pppVars PROVE NumbersOK'
  OBVIOUS
<1> USE PppAssumption DEF PppAssumption, NumbersOK
<1>1. CASE Prompt
  BY <1>1 DEF Prompt, ConnectFails, extVars
<1>2. CASE ConnectModem
  BY <1>2 DEF ConnectModem, ConnectFails, NextTurn
<1>3. CASE RejectAddress
  BY <1>3 DEF RejectAddress, ConnectFails, NextTurn
<1>4. CASE Connected
  BY <1>4 DEF Connected, extVars
<1>5. CASE TakeNotification
  BY <1>5 DEF TakeNotification, AfterNotification, extVars
<1>6. CASE Disconnect
  BY <1>6 DEF Disconnect, AfterNotification
<1>7. CASE user_ip_lost
  BY <1>7 DEF user_ip_lost, notify_ppp, localVars, sharedVars
<1>8. CASE ConsoleNotifies
  BY <1>8 DEF ConsoleNotifies, TellPpp, notify_ppp, localVars, sharedVars
<1>9. CASE LinkLost
  BY <1>9 DEF LinkLost, localVars, sharedVars
<1>10. CASE UNCHANGED pppVars
  BY <1>10 DEF pppVars, localVars, sharedVars, extVars
<1> QED
  BY <1>1, <1>2, <1>3, <1>4, <1>5, <1>6, <1>7, <1>8, <1>9, <1>10
     DEF PppNext, PppTaskStep

\* Every step keeps the other types.
LEMMA ValuesStep == ValuesOK /\ [PppNext]_pppVars => ValuesOK'
<1> SUFFICES ASSUME ValuesOK, [PppNext]_pppVars PROVE ValuesOK'
  OBVIOUS
<1> USE PppAssumption DEF PppAssumption, ValuesOK, IoNotifications, IoStatuses
<1>1. CASE Prompt
  BY <1>1 DEF Prompt, ConnectFails, extVars
<1>2. CASE ConnectModem
  BY <1>2, ZenonT(30) DEF ConnectModem, ConnectFails, NextTurn
<1>3. CASE RejectAddress
  BY <1>3, ZenonT(30) DEF RejectAddress, ConnectFails, NextTurn
<1>4. CASE Connected
  BY <1>4 DEF Connected, extVars
<1>5. CASE TakeNotification
  BY <1>5 DEF TakeNotification, AfterNotification, extVars
<1>6. CASE Disconnect
  BY <1>6 DEF Disconnect, AfterNotification
<1>7. CASE user_ip_lost
  BY <1>7 DEF user_ip_lost, notify_ppp, localVars, sharedVars
<1>8. CASE ConsoleNotifies
  BY <1>8 DEF ConsoleNotifies, TellPpp, notify_ppp, localVars, sharedVars
<1>9. CASE LinkLost
  BY <1>9, ZenonT(30) DEF LinkLost, localVars, sharedVars
<1>10. CASE UNCHANGED pppVars
  BY <1>10 DEF pppVars, localVars, sharedVars, extVars
<1> QED
  BY <1>1, <1>2, <1>3, <1>4, <1>5, <1>6, <1>7, <1>8, <1>9, <1>10
     DEF PppNext, PppTaskStep

\* Every step keeps what the flag and the address are at each place.
LEMMA PlaceStep ==
    PppTypeOK /\ PlaceInv /\ AddressMatchesConnection /\ [PppNext]_pppVars
        => PlaceInv' /\ AddressMatchesConnection'
<1> SUFFICES ASSUME PppTypeOK, PlaceInv, AddressMatchesConnection, [PppNext]_pppVars
             PROVE  PlaceInv' /\ AddressMatchesConnection'
  OBVIOUS
<1> USE DEF PppTypeOK, PlaceInv, AddressMatchesConnection
<1>1. CASE Prompt
  BY <1>1 DEF Prompt, ConnectFails, extVars
<1>2. CASE ConnectModem
  BY <1>2 DEF ConnectModem, ConnectFails, NextTurn
<1>3. CASE RejectAddress
  BY <1>3 DEF RejectAddress, ConnectFails, NextTurn
<1>4. CASE Connected
  BY <1>4 DEF Connected, extVars
<1>5. CASE TakeNotification
  BY <1>5 DEF TakeNotification, AfterNotification, extVars
<1>6. CASE Disconnect
  BY <1>6 DEF Disconnect, AfterNotification
<1>7. CASE user_ip_lost
  BY <1>7 DEF user_ip_lost, notify_ppp, localVars, sharedVars
<1>8. CASE ConsoleNotifies
  BY <1>8 DEF ConsoleNotifies, TellPpp, notify_ppp, localVars, sharedVars
<1>9. CASE LinkLost
  BY <1>9 DEF LinkLost, localVars, sharedVars
<1>10. CASE UNCHANGED pppVars
  BY <1>10 DEF pppVars, localVars, sharedVars, extVars
<1> QED
  BY <1>1, <1>2, <1>3, <1>4, <1>5, <1>6, <1>7, <1>8, <1>9, <1>10
     DEF PppNext, PppTaskStep

\* The invariant holds from the start of connect_to_ppp().
LEMMA PppInvariant == PppSpec => []PppInv
<1>1. PppInit => PppTypeOK
  <2>1. PppInit => NumbersOK
    BY PppAssumption DEF PppAssumption, PppInit, NumbersOK
  <2>2. PppInit => ValuesOK
    BY DEF PppInit, ValuesOK, FirstStatus, IoStatuses
  <2> QED
    BY <2>1, <2>2, TypeParts
<1>2. PppInit => PlaceInv /\ AddressMatchesConnection
  BY DEF PppInit, PlaceInv, AddressMatchesConnection
<1>3. PppInv /\ [PppNext]_pppVars => PppInv'
  <2>1. PppTypeOK /\ [PppNext]_pppVars => PppTypeOK'
    BY NumbersStep, ValuesStep, TypeParts DEF PppTypeOK, NumbersOK, ValuesOK
  <2> QED
    BY <2>1, PlaceStep DEF PppInv
<1> QED
  BY <1>1, <1>2, <1>3, PTL DEF PppSpec, PppInv

\* Every variable of the PPP task keeps to its type; the turns of connect_to_ppp() stay
\* below MAX_PPP_CONN_RETRIES.
THEOREM PppTypeCorrect == PppSpec => []PppTypeOK
<1>1. PppInv => PppTypeOK
  BY DEF PppInv
<1> QED
  BY <1>1, PppInvariant, PTL

\* Where the task waits, the address, the flag and the status it shows agree.
THEOREM AddressCorrect == PppSpec => []AddressMatchesConnection
<1>1. PppInv => AddressMatchesConnection
  BY DEF PppInv
<1> QED
  BY <1>1, PppInvariant, PTL

-----------------------------------------------------------------------------
\* Without a start from the console, a lost connection stays noticed until it is acted on.
LEMMA NoticeStep ==
    ASSUME "START_IO" \notin IoCommands
    PROVE  PppInv /\ NoticeInv /\ [PppNext]_pppVars => NoticeInv'
<1> SUFFICES ASSUME PppInv, NoticeInv, [PppNext]_pppVars PROVE NoticeInv'
  OBVIOUS
<1> USE PppAssumption DEF PppAssumption, PppInv, PppTypeOK, PlaceInv, NoticeInv,
        IoNotifications, StopOrRestart
<1>1. CASE Prompt
  BY <1>1 DEF Prompt, ConnectFails, extVars
<1>2. CASE ConnectModem
  BY <1>2 DEF ConnectModem, ConnectFails, NextTurn
<1>3. CASE RejectAddress
  BY <1>3 DEF RejectAddress, ConnectFails, NextTurn
<1>4. CASE Connected
  BY <1>4 DEF Connected, extVars
<1>5. CASE TakeNotification
  BY <1>5 DEF TakeNotification, AfterNotification, extVars
<1>6. CASE Disconnect
  BY <1>6 DEF Disconnect, AfterNotification
<1>7. CASE user_ip_lost
  BY <1>7 DEF user_ip_lost, notify_ppp, localVars, sharedVars
<1>8. CASE ConsoleNotifies
  BY <1>8 DEF ConsoleNotifies, TellPpp, notify_ppp, localVars, sharedVars
<1>9. CASE LinkLost
  BY <1>9 DEF LinkLost, localVars, sharedVars
<1>10. CASE UNCHANGED pppVars
  BY <1>10 DEF pppVars, localVars, sharedVars, extVars
<1> QED
  BY <1>1, <1>2, <1>3, <1>4, <1>5, <1>6, <1>7, <1>8, <1>9, <1>10 DEF PppNext, PppTaskStep

\* user_ip_lost() writes to a word the console writes too: as long as the console sends no
\* start, what the task finds there makes it act on the loss.
THEOREM LossNoticed ==
    ASSUME "START_IO" \notin IoCommands
    PROVE  PppSpec => []LossIsNoticed
<1>1. PppInit => NoticeInv
  BY DEF PppInit, NoticeInv
<1>2. PppInv /\ NoticeInv /\ [PppNext]_pppVars => NoticeInv'
  BY NoticeStep
<1>3. PppInv /\ NoticeInv => LossIsNoticed
  BY DEF NoticeInv, LossIsNoticed, StopOrRestart, PppInv, PppTypeOK
<1> QED
  BY <1>1, <1>2, <1>3, PppInvariant, PTL DEF PppSpec
=============================================================================
