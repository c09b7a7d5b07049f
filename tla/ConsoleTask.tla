------------------------------- MODULE ConsoleTask -------------------------------
(***************************************************************************)
(* console_task.c: the menus, as the numbering of their options depends on *)
(* the features the program was built with, and what their keys do to the  *)
(* I/O tasks and to the default connection of the connection manager       *)
(* (external).  notify_mqtt(), which the Manage MQTT menu and              *)
(* set_default_io() call, is modelled with the MQTT client.                *)
(*                                                                         *)
(* screen is the menu that waits for a key:                                *)
(*   main, io_types, io_tasks, apps_types, apps_tasks                      *)
(***************************************************************************)
EXTENDS PppTask, WifiTask, FiniteSets

CONSTANT FeatureSets        \* the builds looked at, sets of enabled features

Features == {"PPP", "WIFI", "APPS", "MQTT"}

ASSUME ConsoleAssumption == FeatureSets \subseteq SUBSET Features

VARIABLES
    features,               \* FEATURE_... in feature_config.h: never changes
    screen,
    default_io,             \* the variable of console_menu()
    chosen_io,              \* the variable of handle_manage_io_types_menu()
    pcm_default,            \* the connection manager's default connection (external)
    asserted                \* an assertion of the console has failed

consoleVars == <<features, screen, default_io, chosen_io, pcm_default, asserted>>
ioTaskVars  == <<pppVars, wifiVars>>

NO_CONNECTIVITY == "none"

\* What wait_for_key() returns, a digit.  No menu has more than four options: a digit above
\* is outside each of them as 5 is, and a letter as 0 is.
Keys == 0 .. 5

is_within(key, min, max) == key >= min /\ key <= max

On(feature) == feature \in features

-----------------------------------------------------------------------------
(* The numbering: optionFinal counts the options of the enabled features. *)

OptionManageApps == 2

MainFinal == 1 + Cardinality({"APPS"} \cap features)

OptionWifi == 1

OptionPPP == IF On("WIFI") THEN 2 ELSE 1

\* (mutant) Both I/Os are counted in every build.
IoTypesFinalBoth == 2

IoTypesFinal == Cardinality({"WIFI", "PPP"} \cap features)

IoTasksFinal == IF On("PPP") /\ On("WIFI") THEN 4 ELSE 3

OptionMqtt == 1

AppsTypesFinal == Cardinality({"MQTT"} \cap features)

-----------------------------------------------------------------------------
\* handle_manage_io_types_menu() draws itself, the first time and whenever it is back.
DrawIoTypes ==
    /\ screen' = "io_types"
    /\ default_io' = IF On("PPP") THEN pcm_default ELSE default_io
    /\ chosen_io' = NO_CONNECTIVITY
    /\ UNCHANGED <<pcm_default, asserted, ioTaskVars>>

Assert ==
    /\ asserted' = TRUE
    /\ UNCHANGED <<screen, default_io, chosen_io, pcm_default, ioTaskVars>>

\* Any other key leaves console_menu(), and console_task() calls it again.
MainMenu(key) ==
    /\ screen = "main"
    /\ CASE ~is_within(key, 1, MainFinal) ->
              /\ default_io' = NO_CONNECTIVITY
              /\ UNCHANGED <<screen, chosen_io, pcm_default, asserted, ioTaskVars>>
         [] is_within(key, 1, MainFinal) /\ key = 1 ->
              DrawIoTypes
         [] is_within(key, 1, MainFinal) /\ On("APPS") /\ key = OptionManageApps ->
              /\ screen' = "apps_types"
              /\ UNCHANGED <<default_io, chosen_io, pcm_default, asserted, ioTaskVars>>
         [] OTHER -> Assert

IoTypesMenu(key) ==
    /\ screen = "io_types"
    /\ IF ~is_within(key, 1, IoTypesFinal)
       THEN screen' = "main" /\ UNCHANGED chosen_io
       ELSE /\ screen' = "io_tasks"
            /\ chosen_io' = CASE On("PPP") /\ key = OptionPPP -> "PPP"
                              [] On("WIFI") /\ key = OptionWifi -> "WIFI"
                              [] OTHER -> default_io
    /\ UNCHANGED <<default_io, pcm_default, asserted, ioTaskVars>>

\* notify_io_task(): with the feature disabled nothing is called.
notify_io_task(cmd) ==
    IF chosen_io = NO_CONNECTIVITY
    THEN Assert
    ELSE /\ \/ chosen_io = "WIFI" /\ On("WIFI") /\ TellWifi(cmd) /\ UNCHANGED pppVars
            \/ chosen_io = "PPP" /\ On("PPP") /\ TellPpp(cmd) /\ UNCHANGED wifiVars
            \/ ~On(chosen_io) /\ UNCHANGED ioTaskVars
         /\ UNCHANGED <<screen, default_io, chosen_io, pcm_default, asserted>>

\* set_default_io(): the connection manager takes the choice or refuses it; its answer is
\* printed and nothing more.
set_default_io ==
    /\ pcm_default' \in {pcm_default} \cup ({chosen_io} \cap features)
    /\ default_io' = IF On("PPP") THEN pcm_default' ELSE default_io
    /\ UNCHANGED <<screen, chosen_io, asserted, ioTaskVars>>

IoTasksMenu(key) ==
    /\ screen = "io_tasks"
    /\ CASE ~is_within(key, 1, IoTasksFinal) ->
              DrawIoTypes
         [] is_within(key, 1, IoTasksFinal) /\ key = 1 -> notify_io_task("STOP_IO")
         [] is_within(key, 1, IoTasksFinal) /\ key = 2 -> notify_io_task("START_IO")
         [] is_within(key, 1, IoTasksFinal) /\ key = 3 -> notify_io_task("RESTART_IO")
         [] is_within(key, 1, IoTasksFinal) /\ key = 4 -> set_default_io
         [] OTHER -> Assert

\* A choice that is no application is an assertion of handle_manage_apps_tasks_menu().
AppsTypesMenu(key) ==
    /\ screen = "apps_types"
    /\ CASE ~is_within(key, 1, AppsTypesFinal) ->
              screen' = "main" /\ UNCHANGED <<default_io, chosen_io, pcm_default, asserted,
                              ioTaskVars>>
         [] is_within(key, 1, AppsTypesFinal) /\ On("MQTT") /\ key = OptionMqtt ->
              /\ screen' = "apps_tasks"
              /\ UNCHANGED <<default_io, chosen_io, pcm_default, asserted,
                              ioTaskVars>>
         [] OTHER -> Assert

\* Its options 1 to 3 call notify_mqtt() and draw the menu again.
AppsTasksMenu(key) ==
    /\ screen = "apps_tasks"
    /\ screen' = IF is_within(key, 1, 3) THEN screen ELSE "apps_types"
    /\ UNCHANGED <<default_io, chosen_io, pcm_default, asserted, ioTaskVars>>

ConsoleStep ==
    /\ ~asserted
    /\ UNCHANGED features
    /\ \E key \in Keys :
           \/ MainMenu(key)
           \/ IoTypesMenu(key)
           \/ IoTasksMenu(key)
           \/ AppsTypesMenu(key)
           \/ AppsTasksMenu(key)

ConsoleInit ==
    /\ features \in FeatureSets
    /\ screen = "main"
    /\ default_io = NO_CONNECTIVITY
    /\ chosen_io = NO_CONNECTIVITY
    /\ pcm_default = IF On("PPP") THEN "PPP" ELSE NO_CONNECTIVITY
    /\ asserted = FALSE

-----------------------------------------------------------------------------
\* console_task.c: in every build, no key makes an assertion of the menus fail (lines 137,
\* 262, 376, 414 and 662), and the I/O menu that is open is that of a task the build has.
MenusFitBuild ==
    /\ ~asserted
    /\ screen = "io_tasks" => On(chosen_io)
=============================================================================
