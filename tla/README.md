# A formal model of the AnyCloud PPP MQTT client

This directory holds TLA+ models of the application in `src/` (an MQTT client for
a board with a cellular modem, a button and an LED, running on FreeRTOS), the TLC
configurations that check them, and theorems checked by TLAPS. Paths such as
`mqtt_task.c:577` are under `src/source/tasks/` unless they say otherwise.

Contents: [the system](#the-system), [modules](#modules), [what is external](#external-parts-and-how-they-are-taken),
[runs](#runs), [fairness](#fairness), [findings](#findings), [proofs](#proofs),
[only model-checked](#what-is-only-model-checked), [not modelled](#what-is-not-modelled), [what is left](#what-is-left).

## The system

Each component is an RTOS thread unless noted otherwise.

| Component | State | Operations | Interacts with |
|---|---|---|---|
| MQTT client task, `mqtt_task.c` | `s_status_flag`, `s_mqtt_started`, `s_mqtt_status`, `s_mqtt_network_buffer`, `g_mqtt_connection`, queue `g_mqtt_task_q` (3), notification `s_notification` | init, connect with retries, create subtasks, serve its queue, reconnect, delete subtasks, clean up, wait | MQTT library (calls), subtasks (creates, terminates, queues), console (notification, queue) |
| Event callback, `mqtt_task.c:197`, on the library's thread | the same `s_status_flag` | DISCONNECT, incoming message | puts to the client task's and the subscriber's queue |
| Publisher task, `publisher_task.c` | queue `g_publisher_task_q` (3), the button's interrupt enable | arm, disarm, publish | library; reports failures to the client task |
| Button interrupt, `publisher_task.c:132` | reads `g_current_device_state` | put without waiting | publisher's queue |
| Subscriber task, `subscriber_task.c` | queue `g_subscriber_task_q` (1), `g_current_device_state`, the LED | subscribe with retries, set the LED | library; reports failures to the client task |
| `notify_mqtt()`, `mqtt_task.c:765`, on the console's thread | none | "leave the loop" message, then notification | client task |
| PPP task, `ppp_task.c` | `s_ppp_connected`, `s_ppp_status`, `s_ppp_ip_addr`, `s_ppp_dns_addr`, notification `s_notification` | connect with retries, disconnect, `user_ip_lost()` callback, `notify_ppp()` | PPP connection manager, console |
| Wi-Fi task, `wifi_task.c` (disabled in `feature_config.h:58`; enabled in three of the builds of `Connectivity`) | `s_wifi_connected`, `s_wifi_status`, `s_wifi_ip_addr`, `s_wifi_dns_addr`, its own `s_notification` | connect with retries, disconnect, `notify_wifi()`; no callback | Wi-Fi connection manager, console |
| BLE modem task, `ble_modem_task.c` | queue (10), `s_dataArray`, modem handle and mode | open, close, send to and receive from the modem | GATT server (shared attribute buffers), modem library |
| GATT server, `../ble/app_bt_gatt_handler.c` | attribute table, `g_conn_id`, `g_mtu`, the buffer of a read by type | find an attribute by its handle, read, read by type, write, notify, connection up and down | BT stack, BLE modem task |
| Console task, `console_task.c` | the open menu, `default_io`, `chosen_io` | keys to notifications, the default connection | MQTT, PPP, Wi-Fi tasks, connection manager |
| `main.c` | none | creates the threads | all |

What is hard here:

* **Interleaving.** Six threads and an interrupt; only queues and notifications
  synchronise. `s_status_flag` is changed by `|=` and `&=` from two threads without
  protection (`mqtt_task.c:154`, `211`, `457`).
* **Ordering.** A queue is created by the thread that reads it, after that thread has
  armed the interrupt or subscribed. A restart is a queue message followed by a
  notification. The notification is one word: a later value replaces an earlier one.
* **Failure.** Every part of a start may fail, and what was acquired must be released
  exactly; the flags that say what to release are never cleared.
* **Deadlock.** Three threads put to each other's bounded queues without a timeout.
* **Retry and timeout.** Retry loops that wait, are notified and must still end.
* **Numbers.** A binary search over unsigned bounds, one of which is past the table and the other
  of which can be decremented below zero; menu options counted from the features compiled in.

What makes each component correct:

* Client task: subtasks exist only with the library, instance and buffer they use; a
  task that has stopped holds nothing; a start and a stop end; a lost connection is
  handled once.
* Publisher and interrupt: outside a reconnection the button is, or will be, armed.
* PPP and Wi-Fi tasks: the address and status shown are those of the connection; a start ends; a
  stop is obeyed whenever it comes; no connection is made before the one before is closed; a
  loss of the PPP link is not forgotten.
* Console: in every build each option leads where its text says and none to an assertion.
* BLE modem task and GATT server: what the modem is given is the phone's request, whole and
  once; what the phone receives is the modem's response in order and complete; no write and
  no notification is lost; the modem's mode is restored.
* GATT server: a handle of the table is found, at its own index; a read by type returns the
  attributes of the type once each; its buffer is freed once.

## Modules

| Module | Models |
|---|---|
| `MqttState` | the variables the MQTT threads share, the queues' operators, the bounds |
| `PublisherTask` | `publisher_task()`, `isr_button_press()` |
| `SubscriberTask` | `subscriber_task()`, `subscribe_to_topic()` |
| `MqttEventCallback` | `mqtt_event_callback()` and what it calls; the broker and the library's events |
| `MqttTask` | `mqtt_client_task()` with everything it calls; `notify_mqtt()` |
| `MqttClient` | composition of the five, fairness, properties, refinement mapping |
| `MqttLifecycle` | the abstract specification the client task implements |
| `MqttClaims` | statements of the README and of comments that the code does not satisfy |
| `IoCommon` | notifications and statuses of `common_task.h` the two I/O tasks use |
| `PppTask` | `ppp_task()`, `connect_to_ppp()`, `user_ip_lost()`, `notify_ppp()` |
| `WifiTask` | `wifi_task()`, `connect_to_wifi_ap()`, `notify_wifi()` |
| `ConsoleTask` | the menus of `console_task.c`, `is_within()`, `notify_io_task()`, `set_default_io()` |
| `Connectivity` | composition of the three, one behaviour per build; fairness, properties |
| `IoLifecycle` | the abstract specification both I/O tasks implement |
| `GattRequests` | `app_get_attr_index_by_handle()` and the handlers that read, read by type and look a write up; the buffer's return |
| `BleState` | the attributes, the connection and the queue the next two share |
| `GattServer` | the handlers of `app_bt_gatt_handler.c`; `ble_modem_task_notify()` |
| `BleModemTask` | `ble_modem_task()` with everything it calls |
| `BleModem` | composition of the three with a phone and the PPP connection, fairness, properties |
| `ModemService` | the abstract specification the modem over BLE implements |
| `MqttClientProofs`, `MqttOrderProofs`, `MqttRefinementProofs`, `PppProofs`, `ConnectivityProofs`, `GattRequestsProofs`, `BleProofs`, `BleExchangeProofs` | theorems |
| `MCMqttClient`, `MCMqttClaims`, `MCPppTask`, `MCConnectivity`, `MCGattRequests`, `MCBleModem` | values of constants for TLC |

**How code becomes actions.** A thread's program counter (`mqtt_pc`, `pub_pc`,
`sub_pc`, `cb_pc`, `con_pc`, `ppp_pc`, `wifi_pc`; `pc` in `GattRequests`, `screen` in `ConsoleTask`) names a place in its function; the header of each
module lists the places. One action is the code from one access to shared state to the
next. The two unprotected changes of `s_status_flag` are two actions each, a load into
`mqtt_reg` or `cb_reg` and a store. A put with `CY_RTOS_NEVER_TIMEOUT` is an action that
is disabled while the queue is full. Terminating a thread is possible at each of its places.
Local variables no statement reads any more get a fixed value, so that states differ only
where the program does.

**Abstractions.** The status word is the set of its masks. `MQTT_MSG_RECEIVED` is written
and never read: its bit is left out, but the load and store of the word that write it are kept.
In the same way `CHECK_RESULT(result, 0, ...)`, which ors a zero into the word, is left out of
`mqtt_connect()`. A message is its payload `ON`, `OFF` or `OTHER`. Client identifiers,
credentials and the text of prompts are left out. Of an IP address the model keeps the
version and which of its words are zero, which is what `connect_to_ppp()` tells apart:
an IPv6 address with one zero word is refused by the code and by the model.
`PublisherGet` takes a command and arms or disarms the button in one action; nobody else
reads the queue or arms the button while a publisher thread exists.
Over BLE a chunk of a request is one item and a response is its bytes by number; the sizes
of header, reserve and MTU are those of the code, since they decide how a response is cut.
A write of an attribute and the message about it are two actions, as are reading a chunk's header
and copying its data.

A build is the set of the features it enables, a variable that never changes (`features`); an I/O task
of a feature that is disabled has ended before it begins, as its `while (true);` has. A key is a digit:
no menu tells a letter from 0, nor a digit above 4 from 5.
In `GattRequests` one action is one turn of the search's loop; what the search reads past the
end of the table is any value of its type, and a `uint16_t` is a number modulo `UINT16`.

**The abstract specifications.** `MqttLifecycle` says that the client task acquires
everything or gives up, hires one worker after the other and only with everything
acquired, releases only with no worker left, and starts again only from rest.
`MqttClient!ImplementsLifecycle` maps the library, buffer and instance to its resources,
the two subtasks to its workers and a fault to `halted`. `IoLifecycle` says that an I/O task serves
only with an address, and asks for a connection only after it has closed the one it had;
`PppTask!PppPhase` and `WifiTask!WifiPhase` map the places of the two tasks to its phases.
`ModemService` says what a phone has of the modem over BLE, without attributes, queue, chunks and
acknowledgements: an open or a close ends with the phone taking the modem for what it is, a request is
executed by an open modem, once, while the phone waits for it, and a phone that waits for a response gets
the whole one to its last request or has been refused. `BleModem!ImplementsModemService` maps the phone's
place, what the modem has executed and `refused` to its phases (`ServicePhase`), and `interrupted` to `off`:
after a connection that ends before an answer the service promises nothing, nor does the code.

**Mutants.** A definition marked `(mutant)` is a plausible mistake in the definition that
follows it. It is used nowhere; replacing the definition by it violates a property
listed for it in `PROJECT.json`.

## External parts and how they are taken

The libraries are not in `src/`; the models take them as `src/` uses them.

* Notifications (`cy_notification_*`) hold one value: the last one set wins, and a wait takes
  it and leaves none.
* A put to or a get from a queue is atomic and first-in first-out. A put to a handle that is
  `NULL` stops the program (`configASSERT` in `FreeRTOSConfig.h:220`): `fault = "null_queue"`.
  `cy_rtos_init_queue()` on a handle that has a queue makes a new one. A thread that is
  blocked on the old queue stays blocked (`stranded`).
* The MQTT library runs one event thread. A connection that is lost raises one DISCONNECT
  event. `cy_mqtt_disconnect()` ends the connection, the subscription and what is in flight
  and raises none. `cy_mqtt_deinit()` ends the event thread, wherever it is, and its events.
  Sessions are clean, so a connection starts without a subscription. A
  publish or subscribe can fail at the caller although it took effect, never the reverse.
* Freeing a buffer twice is undefined: `fault = "double_free"`, after which the model stops.
* `cy_pcm_connect_modem()` may fail in any way or connect with any address;
  `cy_pcm_disconnect_modem()` may fail and leave the connection. The connection
  manager calls `user_ip_lost()` from a thread of its own, after every loss of the link;
  of two losses before the call, once.
* `NOTIF_SHUTDOWN_APP` and `NOTIF_SHUTDOWN_IO` are handled by the tasks but sent by no menu.
  They are among the inputs, `notify_mqtt()`, `notify_ppp()` and `notify_wifi()` being public.
* The phone waits for what ends one write before it makes the next: the notification of the handle,
  of each chunk, of the response's last chunk. It gives up when none is coming any more, which is
  a timeout longer than anything the task does. It may be disconnected at any time, and what is on
  its way is lost; the next connection may be another phone. It cuts requests as the task cuts
  responses: a single chunk is a last one. `MODEM_HANDLE` starts without a handle, the attribute table
  being generated.
* `wiced_bt_gatt_server_send_notification()` returns a status that the task ignores (`ble_modem_task.c:224`, `261`, `326`).
  The models take it that the stack refuses none: a notification to a connected phone that enabled it, and a chunk
  of a response to a connected phone, is delivered, in order, unless the connection ends. After one that was
  refused the code goes on as if it had been sent, and the phone waits until it gives up.
* The modem's library may refuse any call. `Modem_Open()` gives the same handle each time. The PPP
  connection does not change the modem while BLE has it in command mode: the connection manager has
  one user at a time (`CY_RSLT_PCM_MODEM_IN_USE`), and how it decides is not in `src/`.
* `cy_wcm_connect_ap()` fails or connects; `cy_wcm_disconnect_ap()` ends the connection or fails, which
  the task takes for done. The Wi-Fi manager calls nothing back. `cy_pcm_set_default_connectivity()` takes
  the choice or refuses it.
* The generated attribute table is sorted, as `app_bt_gatt_handler.c:132` asks, and not empty.
  `wiced_bt_gatt_find_handle_by_type()` returns the first handle of the type in the range and 0 when
  there is none; the types of the database's handles need not agree with the table. The stack gives one
  request at a time, and the next when the answer is transmitted.

## Runs

All runs are exhaustive. `CHECK_DEADLOCK FALSE` is stated in each, because a program that
has met a fault, a task that has ended and a behaviour that has used its events up stop.

| Run | Checks | Shows |
|---|---|---|
| `Unattended` | `TypeOK`, `ButtonRearmed`, `OneNoticePerDrop`, `DropIsHandled` | without console commands, two presses, two losses and a foreign message in any order: the queues stay in bounds, the button ends up armed although INIT, DEINIT and the presses share a queue, exactly one notice of a loss is on its way, and a lost connection is restored or given up unless the threads wait for each other in a circle |
| `Attended` | `SubtasksOnlyWhileInstanceLive`, `NothingHeldWhenStopped`, `ResourceInv`, `StartTerminates`, `StopCompletes`, `ImplementsLifecycle` | two commands at any moment and a loss, every failure of a start: subtasks never outlive what they use, a stopped task holds nothing, the inductive invariant; starts and stops end; refinement of `MqttLifecycle` |
| `Connectivity` | `PppTypeOK`, `AddressMatchesConnection`, `LossIsNoticed`, `WifiTypeOK`, `WifiAddressMatches`, `MenusFitBuild`, `StartsEnd`, `StopIsObeyed`, `ImplementIoLifecycle` | seven builds, any keys, two notifications and a loss: the I/O tasks show what they have, a start ends and a stop is obeyed (those of PPP unless a Wi-Fi task that was shut down takes the processor), a loss stays noticed, no key leads to an assertion; refinement of `IoLifecycle` by both tasks |
| `GattRequests` | `GattTypeOK`, `HandleIsFound`, `ReadByTypeInOrder`, `BufferHasOneOwner`, `RequestEnds` | every sorted table of one to four handles out of four, every set of handles of the type asked for, requests for any handle or range: the search finds what is there, a read by type collects each attribute once and in order, its buffer has one owner, a request is answered |
| `Ble` | `BleTypeOK`, `RequestsAreWhole`, `ResponsesInOrder`, `SilenceIsRefusal`, `CommandModeWhileOpen`, `ModeRestored`, `NoAssertionFails`, `WaitEnds`, `ImplementsModemService` | two connections that may end anywhere, two opens, two requests, a PPP connection that is made and ended, every refusal: a request is whole, its response in order, a phone left without an answer was refused one, the modem's mode is given back, every wait ends; refinement of `ModemService` |
| `ClaimFree`, `ClaimConnect`, `ClaimQueue`, `ClaimReconnect`, `ClaimPpp`, `ClaimBle`, `ClaimLookup` | one statement each | violated; see [findings](#findings) |

**Bounds.**

* `Unattended`: queues of 2, 1 and 1 (3, 3 and 1 in the code), so that two presses and two losses
  fill each of them: puts that block, a press that is lost and the circular wait of `ClaimReconnect`
  all happen. What is invariant is proved for every length. `MaxDrops = 2` has a loss during the
  reconnection after the first, `MaxPresses = 2` a second press before the first message
  is back, `MaxForeign = 1` a message the client did not send.
* `Attended`: the queues of the code. `MaxCommands = 2` lets a restart overtake a stop and reach a
  second run with the flags of the first. There are no presses: what they do to the queues is
  the subject of `Unattended`, and the theorems about resources hold with any number of them.
* `MAX_MQTT_CONN_RETRIES = 2` (150 in the code) has a turn that retries and a turn that gives up, the
  only two the code tells apart. `MAX_SUBSCRIBE_RETRIES` is 2 in `Unattended`, for the same reason, and 1 elsewhere
  (3 in the code). `MAX_PPP_CONN_RETRIES` and `MAX_WIFI_CONN_RETRIES` are 2 (10 and 120).
* `Connectivity`: two notifications in all (`MaxTold`), of the console's or of a shutdown, are a command and
  one that replaces it or follows it; together with the one loss three values compete
  for PPP's word. `FeatureSets` has every set of I/Os and every set of application features; the build with
  both I/Os leaves the applications' menus out, which touch no I/O task. The commands to PPP leave the start
  out: a start can hide a loss, which is the finding `ClaimPpp`. All commands go to Wi-Fi, and
  `AddressMatchesConnection`, `WifiAddressMatches` and the refinement are proved for all commands and all
  builds.
* `GattRequests`: `UINT16 = 8` (2^16), with table handles from 2 to 5, so that there are handles below
  and above the table, and between two of its entries; four entries give a search that turns
  both ways. Its properties are proved for every width and table, `RequestEnds` excepted.
* `Ble`: a queue of 2 (10 in the code) holds what a connection that ended has left and what the
  next writes; a phone that waits needs one place (`NoAssertionFails`). `DEFAULT_GATT_MTU_SIZE = 6`
  (23) leaves a payload of one byte, the MTU 7 one of two, and responses have 0, 1 or 3 bytes: none,
  one chunk, a multiple of the chunk and one with a shorter last chunk. Requests have one or three
  chunks, so that there are first, middle and last ones. Two requests show what the first leaves to
  the second, two opens what a failed open leaves. The properties that say "unless a
  connection has ended before an answer" (`interrupted`) do not hold without it: see the
  last part of the findings. `ModeRestored`, `BleTypeOK` and `WaitEnds` have no such condition.

## Fairness

The scheduler is preemptive and time-slices threads of one priority (`src/configs/FreeRTOSConfig.h:103`,
`118`). From high to low:

| Priority | Threads | What keeps it from starving those below |
|---|---|---|
| `HIGH` | Wi-Fi (`wifi_task.h:66`), in builds that enable it | it waits for a notification or calls the connection manager, **until it is shut down**: then it loops without blocking (`wifi_task.c:282`) |
| `BELOWNORMAL` | MQTT client, publisher, subscriber | every loop waits on a queue or a notification |
| `LOW` | PPP, console, BLE modem | share the processor by time slices; so does a PPP task that has ended (`ppp_task.c:373`) |

So a thread that can run does, in the end, **except one below a Wi-Fi task that was shut down**: from then on nothing
is assumed of it. No code in `src/` sends `NOTIF_SHUTDOWN_IO`, but `notify_wifi()` passes it on from any caller.
The fairness of each specification follows from this:

* `ConnFairSpec` has weak fairness of the Wi-Fi thread, and of the PPP thread only while not `WifiSpins`, which is
  that the build has Wi-Fi and its task has ended. `StartsEnd` and `StopIsObeyed` name the same exception, for
  PPP only: a start of PPP may never end, and a stop of PPP never be read, once the Wi-Fi task spins. The exception is needed:
  without it TLC finds both violated in the build with both I/Os. A safety property does not depend on it, so the
  model lets PPP and the console take steps then as well. The priority of the PPP connection manager's thread is not
  in `src/`, and nothing is assumed of `user_ip_lost()`; nor of the user: `StopIsObeyed` speaks of a stop that has been sent.
* `PppFairSpec`, for `ClaimPpp`, is about a build without Wi-Fi. It has weak fairness of the PPP thread and of `user_ip_lost()`,
  which the connection manager calls after a loss.
* `FairSpec` has weak fairness of each thread's steps, taken together per thread, in the configuration of the
  repository, where Wi-Fi is disabled (`feature_config.h:58`); with Wi-Fi it holds until that task is
  shut down. The library's calls have timeouts and return. A timed wait is over some time:
  `ConnectTimeout` is part of the thread's steps. Nothing is assumed of the user, the network and other clients
  (`EnvironmentStep`), nor that a put to a full queue succeeds: its action is disabled, and weak fairness
  does not help a disabled action.
* `BleFairSpec` has weak fairness of the BLE modem task, of the stack's thread once a handler has
  begun, and of a connected phone's receiving and giving up. The task has low priority and runs
  because the others block, with the same exception for Wi-Fi; the calls of the modem return. Nothing makes the
  phone write.

* `GattFairSpec` has weak fairness of the handlers' steps: the stack's thread runs a handler to its end.

## Findings

Each is a run whose property TLC violates; the property quotes the line that says otherwise.

| Run | What the code does |
|---|---|
| `ClaimFree` | `mqtt_task.c:302`: `s_mqtt_network_buffer` is not reset when freed and flags are not cleared. A later start whose `cy_mqtt_init()` fails frees it again. |
| `ClaimConnect` | `mqtt_task.c:411`: `result` is set by the wait for a notification. When the network is not ready afterwards, `mqtt_connect()` returns a success nobody had, and the subtasks start without a connection. |
| `ClaimQueue` | `subscriber_task.c:274`, `publisher_task.c:254`, `mqtt_task.c:577`: a put to a queue its reader has not created yet. |
| `ClaimReconnect` | `mqtt_task.c:577`: the client task waits for a place in the publisher's queue and the publisher for one in the client task's. |
| `ClaimPpp` | `ppp_task.c:313`: a start from the console replaces the restart of `user_ip_lost()`; the task answers "PPP already started" and waits with no connection. |
| `ClaimBle` | `ble_modem_task.c:117`: `Modem_Open()` fails in PPP mode and the modem stays in command mode; the next open takes that for the mode to go back to, and the close that follows leaves the PPP connection's modem in command mode. |

| `ClaimLookup` | `../ble/app_bt_gatt_handler.c:142`: the search starts with `right` one past the last index, and `mid - 1` wraps to 65535 at `mid` 0. For a handle above the last of the table, or below the first, it compares with what lies past the table and can return an index there, where the comment (line 136) promises a valid index or `INVALID_ATT_TBL_INDEX`. |

Seen while modelling and not made a run:

* `wifi_task.c:282`: a Wi-Fi task that was shut down loops without blocking at the highest priority of the program's
  threads. PPP, MQTT, BLE and the console do not run again (see [fairness](#fairness)). `ppp_task.c:373` does the same at the lowest
  priority, where it only costs time.
* `src/README.md:28` says the LED toggles at every press. Two presses before the first message is
  back ask for the same state (`Toggled`).
* `src/README.md:216` says that after a failure the client task is terminated. It waits for a
  notification (`WaitForNotification`).
* `mqtt_task.c:489` waits 2 s "for the subscribe operation to complete"; three tries a second
  apart can take longer.
* `ppp_task.c:122`: a loss reported just after a stop has been taken asks for a restart, so PPP comes back although it
  was stopped. `StopIsObeyed` has this as "something later has taken its place" only when the stop has
  not been taken yet; after that the restart is a new command.
* `mqtt_task.c:334`: the prefix leaves six of the 23 places of `MQTT_CLIENT_IDENTIFIER_MAX_LEN` for the time in
  milliseconds; from 1000 s on `snprintf()` drops its last digits.
* `mqtt_task.c:783`: `s_mqtt_started` stays true until the cleanup is done, so the message that ends the
  loop can be put after the loop has been left; the next run takes it and ends at once.
* `mqtt_task.c:407` prompts for a stop with the console's menu. A stop that comes during the attempt
  that succeeds is not read before the next wait, and the client runs.
* `ble_modem_task.c:464`: a close with a handle that is not the modem's still unlocks the modem. After a
  connection that ended while it was opening, a second phone that closes without a handle leaves
  the first's modem open but out of command mode.
* The BLE modem task is not told of a disconnection. Chunks of an unfinished request stay in
  `s_dataArray` and are put before a next request of one chunk (only a first chunk empties
  it); a message left in the queue makes the next phone's chunk count twice; the rest of a
  response goes to the next phone; the modem stays open and in command mode.
* The response is written to the attribute of the requests (`ble_modem_task.c:308`): a phone that writes
  its next request on the acknowledgement of the last chunk (`ble_modem_task.c:505`, "so the sender can
  send the next one") can have it overwritten, and the task then reads its own response.
* A request the modem refuses (`ble_modem_task.c:528`) and an open whose lock is refused are not answered at
  all; `SilenceIsRefusal` says these are the only ones.
* The bit `MQTT_CONNECTION_SUCCESS` can be lost between the load and the store of the other thread, so
  that `mqtt_cleanup()` does not disconnect an established connection before it deletes the
  instance. `ResourceInv` shows that no resource is missed.

## Proofs

`MqttClientProofs` (over `MqttClient`, for every queue length, retry count, set of
commands and bound on events; from `QueueAssumption`, `RetryAssumption`, `BudgetAssumption`):

* `TypeCorrect`: `TypeOK`, inductive as it stands. The queues' lengths need two lemmas on
  `Append` and `Head`/`Tail`; there is one lemma per thread.
* `ResourcesCorrect`: `ResourceInv`, inductive with `TypeOK`. It has four parts.
  `OwnedByPlace` ties the subtasks and what they use to the place of the client task.
  `FlagsCoverResources` says that what is held has its bit *and that a copy of the word in
  either thread's register has the same resource bits*: without the second half the
  stores of the copies would not preserve the first. `LibraryActivity` says that the
  callback never runs where `mqtt_init()` writes the word, which is why no copy is
  older than the bits. `NothingHeld` is what a stop leaves.
* `SubtasksLive`, `StoppedClean`: the two safety properties of the run `Attended`, from it.

`MqttOrderProofs` (over the same), about the contents of queues. A queue's message is named by its place;
`AppendPositions` and `TailPositions` say how a put and a get move places.

* `ButtonCorrect`: `ButtonRearmed`. `ButtonInv` adds the place where the client task is about to put
  DEINIT and the publisher that has armed the button and has no queue yet. Whether the button will be armed is
  `ArmedAfter` of the queue: its last INIT or DEINIT decides.
* `NoticeCorrect`: `OneNoticePerDrop`. `NoticeInv` says where there can be no notice at all
  (every place of the client task without a connection), which is what makes a new loss the only one.

`MqttRefinementProofs`:

* `LifecycleImplemented`: `ImplementsLifecycle`. From `ResourceInv` and `StartedByPlace`, which ties `s_mqtt_started`
  to the place of the client task and says which subtasks exist during a start; one lemma per action that
  changes the phase, and one for every other thread, whose steps are stutters.

`PppProofs` (over `PppTask`, from `PppAssumption`):

* `PppTypeCorrect`. The proof separates numbers from the other values, which different provers
  handle.
* `AddressCorrect`: `AddressMatchesConnection` says nothing of the places between two waits;
  `PlaceInv` adds what the flag and the address are there.
* `LossNoticed`: `LossIsNoticed` when the console sends no start. `NoticeInv` adds the moment
  between the connection and the wait, when a loss is already noticed
  while `s_ppp_connected` is still false.

`ConnectivityProofs` (over `Connectivity`, for every set of builds, commands and bounds):

* `PppPart` and `WifiPart`: a step of the composition is, for each I/O task, a step of its own specification or
  none; so `LossNoticedInComposition` follows from `PppProofs`, and what is shown of `WifiSpec` holds in every build.
* `WifiTypeCorrect`, `WifiAddressCorrect`: `WifiPlaceInv` says what the flag and the address are between two waits.
* `IoLifecycleImplemented`: the refinement of `IoLifecycle`, for both tasks and all commands, from the same invariants.
* `MenusCorrect`: `MenusFitBuild`. `MenuInv` adds that the I/O whose menu is open is one of the two, so
  that `notify_io_task()` is not called without one. The last option of a menu is the cardinality of a set of
  features; `CountOfOne` and `CountOfTwo` compute it, so that a key that is within the menu is one of its options.

`GattRequestsProofs` (over `GattRequests`, for every width, set of handles, table and request, from `GattAssumption`):

* `SearchCorrect`: `HandleIsFound`. `Narrowed` is the loop invariant of the binary search for a handle that is not
  outside the table: everything left of `left` is smaller, everything right of `right` larger, and neither has
  wrapped. The table's order is what carries it over a turn.
* `SearchShortens`: each turn finds the handle or leaves less between `left` and `right`, the measure by which the loop ends.
* `ReadByTypeCorrect`: `ReadByTypeInOrder`. `SoughtOfType` and `UsedBefore` say where the handle looked for comes from;
  an attribute found is the first of its type not yet in the response.
* `BufferCorrect`, `GattTypeCorrect`: the owner of the buffer by place; the types, the unsigned arithmetic included.

`BleProofs` (over `BleModem`, for every size, number of connections, requests, opens and changes
of the PPP connection, from `BleAssumption` and `BleBoundAssumption`):

* `ModeGivenBack`: `ModeRestored`. The invariant `ModeInv` says that the two notes
  `ble_lock_modem()` makes, the mode before and that the modem is BLE's own, are never wrong
  (`NotesAreTrue`), and complete without a failure (`NotesAreComplete`); the second is what an open
  after a failed open breaks, the finding `ClaimBle`. Everything that has to do with requests and responses
  is one lemma: those steps leave the mode aside.
* `BleTypeCorrect`: `BleTypeOK`. `BleTypeInv` has one part for each owner of state (server, task, phone, what
  the properties remember) and adds that the attribute is a request's chunk where the task copies it, that the task
  has something to execute when it acknowledges or executes, and that no more of a response is left than its
  length. No chunk being longer than what is left, the subtraction stays in the naturals.

`BleExchangeProofs` (over the same), about what the phone, the server and the task have to do with each other:

* `ExchangeCorrect`: `ExchangeInv`, the inductive invariant. None of the properties is inductive: that the task reads the
  chunk the phone has written depends on the phone having nothing else under way, which depends on where
  queue, task and notifications are. `Stage` says that all of them are together at one of twelve
  stages of an exchange, from `Idle` over `ChunkAsked`, `ChunkCopied`, `ChunkAcked` and `Executes` to `Responded`.
  The task does not wait for the phone to take the last acknowledgement before it responds, so that at
  the last three stages any number of chunks may be on their way behind it: `StreamOf` says that each begins where
  the one before it ends and the first where what the phone has received ends, `StreamEnd` where the last ends.
  `StreamMoves` (a notification is taken) and `ReceivedGrows` (what the phone makes of a chunk) carry it from step to
  step; `NextPart` does the same for the chunks of the request. There is one lemma per action. After a
  connection has ended before an answer the invariant says only what the connection is (`ConnectionOK`).
* `RequestsWhole`, `ResponsesOrdered`, `SilenceRefused`, `CommandModeHeld`, `AssertionsHold`: the five invariants of
  the run `Ble` about the exchange, from it. `AssertionsHold` holds for a queue of any length, the queue being empty
  whenever a message is put.
* `ServiceImplemented`: `ImplementsModemService`, from `ExchangeInv`; a lemma for each action or group of actions that shows, and one for
  those that are stutters. That a request is not refused until the modem has it, and not executed when it is
  refused, are parts of the invariant only the refinement needs.

`ExchangeInv` was model-checked before it was proved, with the constants of the run `Ble` and requests of two chunks besides.

## What is only model-checked

Liveness (`DropIsHandled`, `StartTerminates`, `StopCompletes`, `StartsEnd`, `StopIsObeyed`, `RequestEnds`, `WaitEnds`) under
fairness, which is beyond the proof system. `SearchShortens` is the part of `RequestEnds` that can be proved. Every
invariant and every refinement of the passing runs is a theorem.

## What is not modelled

* DNS servers: `set_default_io()` and the two connects copy them to and from the table of lwIP, which is outside `src/`.
  `PROJECT.json` lists the hazard.
* The eSIM LPA menu and the unit tests of cURL and the RTOS: options `feature_config.h` marks as unused; their
  libraries are not in `src/`.
* `is_wifi_connected()`, `is_ppp_connected()`, `unsubscribe_from_topic()`: nothing calls them, or sends what would.
* Pairing, advertising and the execute-write handler of the GATT server: they pass an event on to the stack, or
  do nothing.
* `app_bt_utils.c`, `print_notified_value()`, status names: text only.
* Configuration headers: their numbers are constants of the models; addresses and keys are data.
* Board support packages, start-up code, linker scripts, and the documentation generated for them: the scripts under
  `src/bsps/*/docs/html` are those of a documentation generator, run in a reader's browser, and no part of the program.

## What is left

* What holds of the modem over BLE after a connection that has ended before an answer: today the findings list what
  does not, and `ConnectionOK`, `BleTypeOK`, `ModeRestored` and `WaitEnds` what does.
* The arbitration of the one modem between PPP and BLE (`CY_RSLT_PCM_MODEM_IN_USE`) once the connection manager's source
  is at hand; today it would be a model of an assumption.
* The MQTT client and the I/O tasks are checked apart. What joins them is `set_default_io()`, which restarts MQTT
  (one of the commands of `Attended`), and the network's readiness, which `MqttTask` takes as any answer at any time:
  their product would add no behaviour to either.
