--------------------------- MODULE ConnectivityProofs ---------------------------
(***************************************************************************)
(* Theorems of the I/O side.  Each I/O task keeps its promises in the      *)
(* composition because every step of the composition is, for that task, a  *)
(* step of its own or none; so what is proved of PppSpec and of WifiSpec   *)
(* holds of ConnSpec.                                                      *)
(***************************************************************************)
EXTENDS Connectivity, PppProofs, FiniteSetTheorems

\* What the flag and the address are at each place of wifi_task().
WifiPlaceInv ==
    /\ wifi_pc \in {"prompt", "connect", "ended"} =>
           ~s_wifi_connected /\ s_wifi_ip_addr = "zero"
    /\ wifi_pc = "connected" => ~s_wifi_connected /\ s_wifi_ip_addr = "set"

WifiInv == WifiTypeOK /\ WifiPlaceInv /\ WifiAddressMatches

-----------------------------------------------------------------------------
(* The Wi-Fi task *)

\* WifiTypeOK in two parts, the numbers and the rest.
WifiNumbersOK ==
    /\ wifi_retries \in 0 .. MAX_WIFI_CONN_RETRIES - 1
    /\ wifi_commands \in Nat

WifiValuesOK ==
    /\ wifi_pc \in {"prompt", "connect", "connected", "idle", "disconnect", "ended"}
    /\ wifi_value \in IoNotifications \cup {"none"}
    /\ wifi_notification \in IoNotifications \cup {"none"}
    /\ s_wifi_connected \in BOOLEAN
    /\ s_wifi_status \in IoStatuses
    /\ s_wifi_ip_addr \in {"zero", "set"}

LEMMA WifiTypeParts == WifiTypeOK <=> WifiNumbersOK /\ WifiValuesOK
BY DEF WifiTypeOK, WifiNumbersOK, WifiValuesOK

\* Every step keeps the numbers in their range.
LEMMA WifiNumbersStep == WifiNumbersOK /\ [WifiNext]_wifiVars => WifiNumbersOK'
<1> SUFFICES ASSUME WifiNumbersOK, [WifiNext]_wifiVars PROVE WifiNumbersOK'
  OBVIOUS
<1> USE WifiAssumption DEF WifiAssumption, WifiNumbersOK
<1>1. CASE WifiPrompt
  BY <1>1 DEF WifiPrompt, WifiConnectFails
<1>2. CASE ConnectAp
  BY <1>2 DEF ConnectAp, WifiConnectFails
<1>3. CASE WifiConnected
  BY <1>3 DEF WifiConnected
<1>4. CASE TakeWifiNotification
  BY <1>4 DEF TakeWifiNotification, AfterWifiNotification
<1>5. CASE DisconnectAp
  BY <1>5 DEF DisconnectAp, AfterWifiNotification
<1>6. ASSUME NEW cmd \in WifiCommands, TellWifi(cmd) PROVE WifiNumbersOK'
  BY <1>6 DEF TellWifi, notify_wifi
<1>7. CASE UNCHANGED wifiVars
  BY <1>7 DEF wifiVars
<1> QED
  BY <1>1, <1>2, <1>3, <1>4, <1>5, <1>6, <1>7 DEF WifiNext, WifiTaskStep

\* Every step keeps the other types.
LEMMA WifiValuesStep == WifiValuesOK /\ [WifiNext]_wifiVars => WifiValuesOK'
<1> SUFFICES ASSUME WifiValuesOK, [WifiNext]_wifiVars PROVE WifiValuesOK'
  OBVIOUS
<1> USE WifiAssumption DEF WifiAssumption, WifiValuesOK, IoNotifications, IoStatuses
<1>1. CASE WifiPrompt
  BY <1>1 DEF WifiPrompt, WifiConnectFails
<1>2. CASE ConnectAp
  BY <1>2 DEF ConnectAp, WifiConnectFails
<1>3. CASE WifiConnected
  BY <1>3 DEF WifiConnected
<1>4. CASE TakeWifiNotification
  BY <1>4 DEF TakeWifiNotification, AfterWifiNotification
<1>5. CASE DisconnectAp
  BY <1>5 DEF DisconnectAp, AfterWifiNotification
<1>6. ASSUME NEW cmd \in WifiCommands, TellWifi(cmd) PROVE WifiValuesOK'
  BY <1>6 DEF TellWifi, notify_wifi
<1>7. CASE UNCHANGED wifiVars
  BY <1>7 DEF wifiVars
<1> QED
  BY <1>1, <1>2, <1>3, <1>4, <1>5, <1>6, <1>7 DEF WifiNext, WifiTaskStep

\* Every step keeps what the flag and the address are at each place.
LEMMA WifiPlaceStep == WifiInv /\ [WifiNext]_wifiVars => WifiPlaceInv' /\ WifiAddressMatches'
<1> SUFFICES ASSUME WifiInv, [WifiNext]_wifiVars
             PROVE  WifiPlaceInv' /\ WifiAddressMatches'
  OBVIOUS
<1> USE DEF WifiInv, WifiTypeOK, WifiPlaceInv, WifiAddressMatches
<1>1. CASE WifiPrompt
  BY <1>1 DEF WifiPrompt, WifiConnectFails
<1>2. CASE ConnectAp
  BY <1>2 DEF ConnectAp, WifiConnectFails
<1>3. CASE WifiConnected
  BY <1>3 DEF WifiConnected
<1>4. CASE TakeWifiNotification
  BY <1>4 DEF TakeWifiNotification, AfterWifiNotification
<1>5. CASE DisconnectAp
  BY <1>5 DEF DisconnectAp, AfterWifiNotification
<1>6. ASSUME NEW cmd \in WifiCommands, TellWifi(cmd)
      PROVE  WifiPlaceInv' /\ WifiAddressMatches'
  BY <1>6 DEF TellWifi, notify_wifi
<1>7. CASE UNCHANGED wifiVars
  BY <1>7 DEF wifiVars
<1> QED
  BY <1>1, <1>2, <1>3, <1>4, <1>5, <1>6, <1>7 DEF WifiNext, WifiTaskStep

LEMMA WifiInvariant == WifiSpec => []WifiInv
<1>1. WifiInit => WifiTypeOK
  <2>1. WifiInit => WifiNumbersOK
    BY WifiAssumption DEF WifiAssumption, WifiInit, WifiNumbersOK
  <2>2. WifiInit => WifiValuesOK
    BY DEF WifiInit, WifiValuesOK, FirstStatus, IoStatuses
  <2> QED
    BY <2>1, <2>2, WifiTypeParts
<1>2. WifiInit => WifiPlaceInv /\ WifiAddressMatches
  BY DEF WifiInit, WifiPlaceInv, WifiAddressMatches
<1>3. WifiInv /\ [WifiNext]_wifiVars => WifiInv'
  <2>1. WifiTypeOK /\ [WifiNext]_wifiVars => WifiTypeOK'
    BY WifiNumbersStep, WifiValuesStep, WifiTypeParts
       DEF WifiTypeOK, WifiNumbersOK, WifiValuesOK
  <2> QED
    BY <2>1, WifiPlaceStep DEF WifiInv
<1> QED
  BY <1>1, <1>2, <1>3, PTL DEF WifiSpec, WifiInv

-----------------------------------------------------------------------------
(* The composition *)

\* The menus leave both I/O tasks alone, or send one of them a notification.
LEMMA ConsoleTells ==
    ConsoleStep =>
        \/ UNCHANGED <<pppVars, wifiVars>>
        \/ ConsoleNotifies /\ UNCHANGED wifiVars
        \/ (\E cmd \in WifiCommands : TellWifi(cmd)) /\ UNCHANGED pppVars
<1> DEFINE Told ==
        \/ UNCHANGED <<pppVars, wifiVars>>
        \/ ConsoleNotifies /\ UNCHANGED wifiVars
        \/ (\E cmd \in WifiCommands : TellWifi(cmd)) /\ UNCHANGED pppVars
<1> SUFFICES ASSUME ConsoleStep PROVE Told
  OBVIOUS
<1>1. PICK key \in Keys : \/ MainMenu(key) \/ IoTypesMenu(key) \/ IoTasksMenu(key)
                          \/ AppsTypesMenu(key) \/ AppsTasksMenu(key)
  BY DEF ConsoleStep
<1>2. CASE MainMenu(key)
  BY <1>2 DEF MainMenu, DrawIoTypes, Assert, ioTaskVars
<1>3. CASE IoTypesMenu(key)
  BY <1>3 DEF IoTypesMenu, ioTaskVars
<1>4. CASE IoTasksMenu(key)
  <2>1. ASSUME NEW cmd, notify_io_task(cmd) PROVE Told
    BY <2>1 DEF notify_io_task, Assert, ioTaskVars, ConsoleNotifies, TellPpp, TellWifi
  <2>2. set_default_io \/ DrawIoTypes \/ Assert => Told
    BY DEF set_default_io, DrawIoTypes, Assert, ioTaskVars
  <2> QED
    BY <1>4, <2>1, <2>2 DEF IoTasksMenu
<1>5. CASE AppsTypesMenu(key)
  BY <1>5 DEF AppsTypesMenu, Assert, ioTaskVars
<1>6. CASE AppsTasksMenu(key)
  BY <1>6 DEF AppsTasksMenu, ioTaskVars
<1> QED
  BY <1>1, <1>2, <1>3, <1>4, <1>5, <1>6

\* A step of the composition is a step of the PPP task or does not touch it.
LEMMA PppPart == ConnSpec => PppSpec
<1>1. ConnInit => PppInit
  BY DEF ConnInit
<1>2. [ConnNext]_connVars => [PppNext]_pppVars
  <2> SUFFICES ASSUME [ConnNext]_connVars PROVE PppNext \/ UNCHANGED pppVars
    OBVIOUS
  <2>1. CASE PppSide
    BY <2>1 DEF PppSide, PppNext
  <2>2. CASE WifiSide
    BY <2>2 DEF WifiSide
  <2>3. CASE ConsoleStep
    BY <2>3, ConsoleTells DEF PppNext
  <2>4. CASE ShutDownIo
    BY <2>4 DEF ShutDownIo, PppNext, ConsoleNotifies, TellPpp
  <2>5. CASE UNCHANGED connVars
    BY <2>5 DEF connVars
  <2> QED
    BY <2>1, <2>2, <2>3, <2>4, <2>5 DEF ConnNext
<1> QED
  BY <1>1, <1>2, PTL DEF ConnSpec, PppSpec

\* A step of the composition is a step of the Wi-Fi task or does not touch it.
LEMMA WifiPart == ConnSpec => WifiSpec
<1>1. ConnInit => WifiInit
  BY DEF ConnInit
<1>2. [ConnNext]_connVars => [WifiNext]_wifiVars
  <2> SUFFICES ASSUME [ConnNext]_connVars PROVE WifiNext \/ UNCHANGED wifiVars
    OBVIOUS
  <2>1. CASE PppSide
    BY <2>1 DEF PppSide
  <2>2. CASE WifiSide
    BY <2>2 DEF WifiSide, WifiNext
  <2>3. CASE ConsoleStep
    BY <2>3, ConsoleTells DEF WifiNext
  <2>4. CASE ShutDownIo
    BY <2>4 DEF ShutDownIo, WifiNext, TellWifi
  <2>5. CASE UNCHANGED connVars
    BY <2>5 DEF connVars
  <2> QED
    BY <2>1, <2>2, <2>3, <2>4, <2>5 DEF ConnNext
<1> QED
  BY <1>1, <1>2, PTL DEF ConnSpec, WifiSpec

\* Every variable of the Wi-Fi task keeps to its type, in the composition.
THEOREM WifiTypeCorrect == ConnSpec => []WifiTypeOK
<1>1. WifiInv => WifiTypeOK
  BY DEF WifiInv
<1> QED
  BY <1>1, WifiInvariant, WifiPart, PTL

\* Where wifi_task() waits, its address, its flag and its status agree, whatever the console
\* and the other I/O do.
THEOREM WifiAddressCorrect == ConnSpec => []WifiAddressMatches
<1>1. WifiInv => WifiAddressMatches
  BY DEF WifiInv
<1> QED
  BY <1>1, WifiInvariant, WifiPart, PTL

\* A loss that the connection manager reports is not lost among the notifications of a
\* console that sends PPP no start, although Wi-Fi, its menus and its commands run beside it.
THEOREM LossNoticedInComposition ==
    ASSUME "START_IO" \notin IoCommands
    PROVE  ConnSpec => []LossIsNoticed
BY LossNoticed, PppPart, PTL

-----------------------------------------------------------------------------
(* IoLifecycle *)

\* Every step of ppp_task() is a step of IoLifecycle or none.
LEMMA PppStepsAllowed == PppInv /\ [PppNext]_pppVars => [PppIo!IoNext]_(PppIo!ioVars)
<1> SUFFICES ASSUME PppInv, [PppNext]_pppVars
             PROVE  PppIo!IoNext \/ UNCHANGED <<PppPhase, s_ppp_ip_addr>>
  BY DEF PppIo!ioVars
<1> USE DEF PppInv, PppTypeOK, PlaceInv, AddressMatchesConnection, PppPhase, PppIo!IoNext
<1>1. CASE Prompt
  BY <1>1 DEF Prompt, ConnectFails, PppIo!GiveUp
<1>2. CASE ConnectModem
  BY <1>2 DEF ConnectModem, ConnectFails, NextTurn, PppIo!Acquire, PppIo!GiveUp
<1>3. CASE RejectAddress
  BY <1>3 DEF RejectAddress, ConnectFails, NextTurn, PppIo!GiveUp
<1>4. CASE Connected
  BY <1>4 DEF Connected, PppIo!Serve
<1>5. CASE TakeNotification
  BY <1>5 DEF TakeNotification, AfterNotification, PppIo!Resume, PppIo!Close
<1>6. CASE Disconnect
  BY <1>6 DEF Disconnect, AfterNotification, PppIo!Closed
<1>7. CASE user_ip_lost
  BY <1>7 DEF user_ip_lost, localVars, sharedVars
<1>8. CASE ConsoleNotifies
  BY <1>8 DEF ConsoleNotifies, TellPpp, localVars, sharedVars
<1>9. CASE LinkLost
  BY <1>9 DEF LinkLost, localVars, sharedVars
<1>10. CASE UNCHANGED pppVars
  BY <1>10 DEF pppVars, localVars, sharedVars
<1> QED
  BY <1>1, <1>2, <1>3, <1>4, <1>5, <1>6, <1>7, <1>8, <1>9, <1>10 DEF PppNext, PppTaskStep

\* Every step of wifi_task() is a step of IoLifecycle or none.
LEMMA WifiStepsAllowed == WifiInv /\ [WifiNext]_wifiVars => [WifiIo!IoNext]_(WifiIo!ioVars)
<1> SUFFICES ASSUME WifiInv, [WifiNext]_wifiVars
             PROVE  WifiIo!IoNext \/ UNCHANGED <<WifiPhase, s_wifi_ip_addr>>
  BY DEF WifiIo!ioVars
<1> USE DEF WifiInv, WifiTypeOK, WifiPlaceInv, WifiAddressMatches, WifiPhase, WifiIo!IoNext
<1>1. CASE WifiPrompt
  BY <1>1 DEF WifiPrompt, WifiConnectFails, WifiIo!GiveUp
<1>2. CASE ConnectAp
  BY <1>2 DEF ConnectAp, WifiConnectFails, WifiIo!Acquire, WifiIo!GiveUp
<1>3. CASE WifiConnected
  BY <1>3 DEF WifiConnected, WifiIo!Serve
<1>4. CASE TakeWifiNotification
  BY <1>4 DEF TakeWifiNotification, AfterWifiNotification, WifiIo!Resume, WifiIo!Close
<1>5. CASE DisconnectAp
  BY <1>5 DEF DisconnectAp, AfterWifiNotification, WifiIo!Closed
<1>6. ASSUME NEW cmd \in WifiCommands, TellWifi(cmd)
      PROVE  UNCHANGED <<WifiPhase, s_wifi_ip_addr>>
  BY <1>6 DEF TellWifi
<1>7. CASE UNCHANGED wifiVars
  BY <1>7 DEF wifiVars
<1> QED
  BY <1>1, <1>2, <1>3, <1>4, <1>5, <1>6, <1>7 DEF WifiNext, WifiTaskStep

\* Both I/O tasks implement IoLifecycle, in every build and whatever the console sends: a
\* connection is asked for only when there is none, and closed before the next.
THEOREM IoLifecycleImplemented == ConnSpec => ImplementIoLifecycle
<1>1. PppSpec => PppIo!IoSpec
  <2>1. PppInit => PppIo!IoInit
    BY DEF PppInit, PppIo!IoInit, PppPhase
  <2> QED
    BY <2>1, PppStepsAllowed, PppInvariant, PTL DEF PppSpec, PppIo!IoSpec
<1>2. WifiSpec => WifiIo!IoSpec
  <2>1. WifiInit => WifiIo!IoInit
    BY DEF WifiInit, WifiIo!IoInit, WifiPhase
  <2> QED
    BY <2>1, WifiStepsAllowed, WifiInvariant, PTL DEF WifiSpec, WifiIo!IoSpec
<1> QED
  BY <1>1, <1>2, PppPart, WifiPart, PTL DEF ImplementIoLifecycle

-----------------------------------------------------------------------------
(* The menus *)

\* How many of two features a build has.
LEMMA CountOfTwo ==
    ASSUME NEW a, NEW b, a # b, NEW S
    PROVE  Cardinality({a, b} \cap S) =
               (IF a \in S THEN 1 ELSE 0) + (IF b \in S THEN 1 ELSE 0)
<1>1. CASE a \in S /\ b \in S
  <2>1. {a, b} \cap S = {a} \cup {b}
    BY <1>1
  <2>2. Cardinality({a} \cup {b}) = Cardinality({a}) + 1
    BY FS_Singleton, FS_AddElement
  <2> QED
    BY <1>1, <2>1, <2>2, FS_Singleton
<1>2. CASE a \in S /\ b \notin S
  <2>1. {a, b} \cap S = {a}
    BY <1>2
  <2> QED
    BY <1>2, <2>1, FS_Singleton
<1>3. CASE a \notin S /\ b \in S
  <2>1. {a, b} \cap S = {b}
    BY <1>3
  <2> QED
    BY <1>3, <2>1, FS_Singleton
<1>4. CASE a \notin S /\ b \notin S
  <2>1. {a, b} \cap S = {}
    BY <1>4
  <2> QED
    BY <1>4, <2>1, FS_EmptySet
<1> QED
  BY <1>1, <1>2, <1>3, <1>4

LEMMA CountOfOne ==
    ASSUME NEW a, NEW S
    PROVE  Cardinality({a} \cap S) = IF a \in S THEN 1 ELSE 0
<1>1. CASE a \in S
  <2>1. {a} \cap S = {a}
    BY <1>1
  <2> QED
    BY <1>1, <2>1, FS_Singleton
<1>2. CASE a \notin S
  <2>1. {a} \cap S = {}
    BY <1>2
  <2> QED
    BY <1>2, <2>1, FS_EmptySet
<1> QED
  BY <1>1, <1>2

\* No menu shows before the choice that opens it, and a build keeps its features.
MenuInv ==
    /\ ~asserted
    /\ screen \in {"main", "io_types", "io_tasks", "apps_types", "apps_tasks"}
    /\ screen = "io_tasks" => chosen_io \in {"PPP", "WIFI"} /\ On(chosen_io)

LEMMA MenuStep == MenuInv /\ [ConnNext]_connVars => MenuInv'
<1> SUFFICES ASSUME MenuInv, [ConnNext]_connVars PROVE MenuInv'
  OBVIOUS
<1> USE DEF MenuInv, On, is_within
<1>1. CASE PppSide
  BY <1>1 DEF PppSide, consoleVars
<1>2. CASE WifiSide
  BY <1>2 DEF WifiSide, consoleVars
<1>3. CASE ConsoleStep
  <2> USE DEF Keys
  <2>1. UNCHANGED features
    BY <1>3 DEF ConsoleStep
  <2>2. PICK key \in Keys : \/ MainMenu(key) \/ IoTypesMenu(key) \/ IoTasksMenu(key)
                            \/ AppsTypesMenu(key) \/ AppsTasksMenu(key)
    BY <1>3 DEF ConsoleStep
  <2>3. CASE MainMenu(key)
    <3>1. MainFinal = IF "APPS" \in features THEN 2 ELSE 1
      BY CountOfOne DEF MainFinal
    <3> QED
      BY <2>1, <2>3, <3>1 DEF MainMenu, DrawIoTypes, Assert, OptionManageApps
  <2>4. CASE IoTypesMenu(key)
    <3>1. IoTypesFinal = (IF "WIFI" \in features THEN 1 ELSE 0)
                         + (IF "PPP" \in features THEN 1 ELSE 0)
      BY CountOfTwo DEF IoTypesFinal
    <3> QED
      BY <2>1, <2>4, <3>1 DEF IoTypesMenu, OptionPPP, OptionWifi
  <2>5. CASE IoTasksMenu(key)
    <3>1. ASSUME NEW cmd, notify_io_task(cmd) PROVE MenuInv'
      <4>1. chosen_io # NO_CONNECTIVITY
        BY <2>5 DEF IoTasksMenu, NO_CONNECTIVITY
      <4> QED
        BY <2>1, <3>1, <4>1 DEF notify_io_task
    <3>2. DrawIoTypes \/ set_default_io => MenuInv'
      BY <2>1, <2>5 DEF DrawIoTypes, set_default_io, IoTasksMenu
    <3>3. IoTasksFinal \in {3, 4}
      BY DEF IoTasksFinal
    <3>4. DrawIoTypes \/ set_default_io \/ \E cmd : notify_io_task(cmd)
      BY <2>5, <3>3 DEF IoTasksMenu
    <3> QED
      BY <3>1, <3>2, <3>4
  <2>6. CASE AppsTypesMenu(key)
    <3>1. AppsTypesFinal = IF "MQTT" \in features THEN 1 ELSE 0
      BY CountOfOne DEF AppsTypesFinal
    <3> QED
      BY <2>1, <2>6, <3>1 DEF AppsTypesMenu, OptionMqtt
  <2>7. CASE AppsTasksMenu(key)
    BY <2>1, <2>7 DEF AppsTasksMenu
  <2> QED
    BY <2>2, <2>3, <2>4, <2>5, <2>6, <2>7
<1>4. CASE ShutDownIo
  BY <1>4 DEF ShutDownIo, consoleVars
<1>5. CASE UNCHANGED connVars
  BY <1>5 DEF connVars, consoleVars
<1> QED
  BY <1>1, <1>2, <1>3, <1>4, <1>5 DEF ConnNext

\* In every build no key makes an assertion of the menus fail, and no menu is open of an
\* I/O task the build does not have.
THEOREM MenusCorrect == ConnSpec => []MenusFitBuild
<1>1. ConnInit => MenuInv
  BY DEF ConnInit, ConsoleInit, MenuInv
<1>2. MenuInv => MenusFitBuild
  BY DEF MenuInv, MenusFitBuild
<1> QED
  BY <1>1, <1>2, MenuStep, PTL DEF ConnSpec
=============================================================================
