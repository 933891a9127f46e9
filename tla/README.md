# The door system in TLA+

A verification project for the networked door lock of this repository: door
modules (a stepper motor that throws a bolt, an ultrasonic sensor that sees the
door leaf), a hub that watches and commands them over UDP, and a Node server that
brings them to a web page. TLA+ modules model the parts with state of their own,
TLC checks them on small instances, and TLAPS proves every safety invariant, every
action property and both refinements of these checks for every value of the constants.

## 1. Inventory

### Components, state and operations

| Component | Source | State | Operations |
|---|---|---|---|
| LED status queue | `hal/src/led_worker.c` | ring `g_queue`, `g_q_head`, `g_q_tail`, `g_worker_running`, mutex and condition variable | `LED_worker_init`, nine `LED_enqueue_*`, `worker_fn`, `LED_worker_shutdown` |
| Door lock | `app/src/doorMod.c`, `hal/src/StepperMotor.c` | `current_step_position`, `__last_known_door`, each caller's `Door_t` | `lockDoor`, `unlockDoor`, `get_door_status`, `StepperMotor_Rotate`, `doorMod_cleanup` |
| Terminal and command handler | `app/src/doorMod_cli.c`, `app/src/door_udp_handler.c`, `door_cmd_thread` of `hal/src/door_udp.c` | `g_cmd_running`, the menu's `door` | menu choice, COMMAND datagram, FEEDBACK, the program's end |
| Door reporting | `hal/src/door_udp.c`, `heartbeat_worker` of `doorMod.c` | `g_prev_*`, `g_last_heartbeat_ms` | `door_udp_update`: EVENT on a change, HEARTBEAT every period |
| Hub tables | `hal/src/hub_udp.c` | `g_doors`, `g_endpoints`, `g_history`, `g_stopping` | `handle_line`, `check_offline_modules`, `hub_udp_get_history`, `hub_udp_shutdown` |
| Hub commands | `hal/src/hub_udp.c` | `g_next_cmdid`, `last_feedback_*` | `hub_udp_send_command`, FEEDBACK |
| Hub relay | `hal/src/hub_udp.c` | `g_pending_cmds` | `register_client_command`, `get_and_clear_client_cmd`, forwarding |
| Node bridge | `gui/lib/door_server.js` | `pending`, `cmdCounter`, timers | `sendCommand`, `get-door-info`, `lock-door`, `unlock-door`, the `message` handler |
| Web client | `gui/web_control.js`, `gui/UI.html` | `doorStates` | toggle, polling every 3 s and after a LOCK or UNLOCK |
| HTTP API | `app/src/http_api.c` | `server_running`, one thread | `/api/command`: runs a local door or calls `hub_udp_send_command` |
| Hub main program | `app/src/door_system.c` | none | starts and stops the parts, console |
| System webhook | `hal/src/system_webhook.c` | a linked queue, `running` | `hub_webhook_init/send/shutdown` |
| Discord alerts | `app/src/discord_alert.c` | `doorThreadRunning`, the last text | a thread that polls every 500 ms, curl |
| LED patterns | `hal/src/led.c`, `hal/src/PWM.c` | the device files `duty_cycle`, `period`, `enable` of two LEDs | one pattern for each task, `PWM_setFrequency`, `PWM_disable` |
| Door start and stop | `doorMod_cli.c`, `GPIO.c`, `HC-SR04.c`, `door_reporting_start/stop`, `door_udp_init2/close` | `gpio_fds`, `g_sock`, the terminal, two threads | export of six lines, start of the reporting, the end |
| Time, weak stubs | `timing.c`, `DiscordAlert.c` | none | clock, sleep, nothing |

The Beatbox server under `gui/as3-server` is left over from another assignment.

### How they interact

    web page --socket.io--> Node bridge --COMMAND--> hub --COMMAND--> door module
             <-------------             <-FEEDBACK--     <-FEEDBACK--
    HTTP API --hub_udp_send_command--> hub (own counter of ids)
    door module --EVENT (port 1)----> hub        door module --HEARTBEAT (port 2)--> hub
    every C part --LED_enqueue_*--> LED worker

Inside the door program the terminal thread, the command thread and the heartbeat
thread share `current_step_position` and `g_prev_*` with **no lock**. Inside the hub
one `udp_thread`, the HTTP thread and the console share the tables under `g_mutex`;
`hub_udp_send_command` lets go of it while it waits. The Node bridge is one thread of
callbacks.

### What is hard, and what correctness means

* *LED queue*: drop-oldest when full, no lost wakeup, a shutdown that drains and returns.
* *Door lock*: a rotation counts steps from one reading of the position, may fail half
  way, and may meet another rotation; replies must tell the truth; every command is
  answered; the program must be able to end.
* *Reporting*: lossy, reordered channels and threads racing in `door_udp_update`; the
  hub must nevertheless come to show the door as it is.
* *Hub tables*: full tables, two tables about the same address, a pointer used after
  the mutex was released, silence noticed, a history that agrees with the flags.
* *Commands*: retries, late and doubled answers, two counters that number the same id
  space, restarts of either side; "acknowledged" must mean "executed".
* *LED patterns*: a pattern must show its outcome whatever the one before left in the
  device files, though a write fails, a LED is missing or main shows its own beside it.
* *Start and stop*: descriptors are handed out lowest first and `gpio_fds` starts with 0,
  so exports close descriptor 0; nobody may use a number that is no longer his.
* *Web pages*: a cache behind a lossy network, fed twice with each FEEDBACK; pages must
  come to show the door, stop polling, and offer no button by a state nobody reported.
* *Bridge*: timer against FEEDBACK against the callback of `send`; one answer a request.

`PROJECT.json` lists every hazard at its line with the properties that cover it.

## 2. Modules

| Module | Models | Remarks |
|---|---|---|
| `DropQueue` | what the LED queue promises | abstract: a bounded sequence that pushes out its oldest task |
| `LedQueue` | `led_worker.c` | implements `DropQueue` (`DropsOnlyTheOldest`) |
| `LedPatterns` | `led.c` and `PWM.c` on the worker of `LedQueue` and on main | extends `LedQueue` |
| `DoorLock` | lock, motor, terminal, command thread, shutdown | one action per motor step |
| `DoorStart` | the main thread of the door program, its descriptors and threads | extended by `DoorReport` |
| `DoorReport` | reporting threads, two channels, the hub's four flags | composes `DoorStart`, the door's end and the hub's end |
| `RecentLog` | what the event history promises | abstract: the last N lines, in order |
| `HubTables` | tables, offline check, history, `udp_thread` | implements `RecentLog` (`HistoryIsRecent`) |
| `MCHubTables` | the names of the runs of `HubTables` | two short ones, and a long one cut to a third |
| `HubCommand` | `hub_udp_send_command` and its FEEDBACK | composes hub, door, network, Node's commands, restarts |
| `WebBridge` | Node bridge, relay table of the hub, door | composes three programs and the network |
| `WebClient` | the pages of `web_control.js`, the broadcasts of `door_server.js` | composes pages and a door over an abstract way between them |
| `Webhook` | message list and worker of `system_webhook.c` | extended by `HubMain` |
| `HubMain` | `door_system.c` with the alert thread, the HTTP thread and `udp_thread` | composes `Webhook` with the start and stop of every part |
| `LedQueue_proofs` | proofs about `LedQueue` and `LedPatterns` | extends `LedPatterns` |
| `DoorLock_proofs`, `HubTables_proofs`, `HubCommand_proofs`, `WebBridge_proofs`, `WebClient_proofs` | proofs about the module of that name | each extends it |
| `DoorReport_proofs` | proofs about `DoorStart` and `DoorReport` | extends `DoorReport` |
| `HubMain_proofs` | proofs about `Webhook` and `HubMain` | extends `HubMain` |

An operator whose name begins with `Mutant` is a faulty variant of the definition that
follows it: put in its place, it must break a property. It is used by no specification.

### Correspondence with the code

*Critical sections.* Code between a lock and its unlock (or the next wait) is one
action. Where there is no lock, each read or write of shared state that another thread
can get between is an action: in `DoorLock` the decision, every motor step, the report
and the reply; in `DoorReport` the reading of the distance, of the bolt, each of the
notifications, the heartbeat and the final save.

*LedQueue.* `Enqueue` is any `LED_enqueue_*` (they differ in the task stored only);
`WorkerWait`, `WorkerTake`, `WorkerShown` and `WorkerExit` are `worker_fn`; `InitCreates`,
`InitFails` and `InitAgain` are the three ways through `LED_worker_init`; `Shutdown` and
`Joined` are the two halves of `LED_worker_shutdown`. A task is the number of the call.

*LedPatterns.* A `PWM_*` call is the list of its writes to device files, a pattern the list
of its calls; `WriteFile` makes the next write, `OpenFails` is `fopen` failing there, with
what the code then does instead (`otherwise`). `Take` gives the worker the pattern of any
task: the numbers of `LedQueue` say which call a task is, not which kind. `Accepts` is the
one thing taken from outside the repository: the PWM driver refuses a pulse longer than the
period, and to enable a LED with no period. A fault during a pattern (`spoilt`) or a
missing LED excuses that pattern or LED, never the next one.

`FlashingAfter`, `SteadyAfter` and `DarkAfter` are what the comments of `led.c` promise of
each pattern when it is over, and the rates they name (`ShowsTheOutcome`). Three things
are said apart. Where main's own pattern shares green (`Alone`), only its pulse is held to
fit its period. Green that is to be steady keeps a longer period when the pulse it had was
wider than the new one (`wide`, a history variable): that is the bug of `pwm_period`, after
which the LED blinks for an instant twice a second. And a hub command that succeeded is
not among them: `led.c` promises two red flashes of it, and lights green.

*DoorLock.* The distance is `closed`, `open` or `error`. `StepperMotor_Rotate` is
`Rotate` (compute the steps once), `Step`, then `RotateDone` or `RotateFails`. The
position moves with every step, as in the code. The conversions between degrees and
steps round as the code does. `StopAgain` joins a thread that is gone: undefined in
POSIX, so it may return or kill the program. `Feedback` is the word in FEEDBACK: what STATUS
found, or the command's own word whatever became of it; `Cleanup` turns the bolt to 180
degrees, the locked position, as the code does. `Movers` says whose user asks for motion,
`Reporting` whether the reporting was started.

*DoorStart.* `fds` is the process's table of descriptors, from which `Lowest` hands out the
next. `ExportPin` is `gpio_line_init` with all it opens and closes: the chip, the line, and
whatever `gpio_fds` held, which is descriptor 0 at first because the initialiser sets -1 for
chip 0, line 0 only. The first export thus closes stdin, and the later ones close 0 after
the chip that took it was closed; from then on the terminal or the socket has it.
`NoSocket`, `StartListener` and `StartHeartbeat` are the ways through
`door_reporting_start`, which goes on when `door_udp_init2` fails. `StopListening` and
`CloseSocket` come after the joins of `door_reporting_stop` and `door_udp_close`; that the
second may wait for ever is in `DoorLock`.

*DoorReport.* `Main` is `DoorStart` beside the threads; once the program ends, the hub is
no longer followed (`Unfollowed`). `ReadDistance` and `ReadWrong` are `get_distance`: it
polls the echo between sleeps with no lock, so a reading may be too short, too long or -1.
`Sent` puts a datagram in a channel or loses it. A report that reads -1
ends in `report_door_state_udp` and goes on as "closed" in `heartbeat_worker`, as the
code has it. `OnEvent` and `OnBeat` are what `handle_line` writes; note that an EVENT sets
`d0_open` or `d1_locked` only, while a HEARTBEAT carries the same pair for D0 and D1.

*HubTables.* `HandleLine` is the whole of `handle_line` on the tables: endpoint, slot,
address, heartbeat time, one line of history (two for FEEDBACK, one for an untracked
module). `CheckBegin` and `CheckSlot` are `check_offline_modules`, slot by slot with the
time read once. The mutex is held from slot to slot, so nobody else *writes* in between
in this model either; slots are steps only to show the table on the way.
`Stored` is what the tables keep of a name, its first 15 characters: `Entered` and `Updated`
store that, while `Known` and `Updated` look up the whole name, so a longer one is found
nowhere and is entered again with every datagram. `Plain` are the names that stand for one
module: stored whole, and no longer name is cut to them. What is said of a *name*
(`NoTwins`, `AddressesAgree`, `HistoryMatchesFlags`) is said of these, beside any traffic of
longer ones; of the others it is false.

*HubCommand.* `Call`, `Send`, `SendFails`, `Answered` and `TimesOut` are the body of
`hub_udp_send_command`; `HandleFeedback` overwrites `last_feedback_*`. The network is a
set of all datagrams ever sent, from which any may be taken at any time, any number of
times or never: that is loss, doubling, delay and reordering at once. `executed` and
`foreign` are history variables no action reads.

*WebBridge.* `Request` is a web client's request (`socket`: `sendCommand` and the
handlers on top of it; `info`: `get-door-info`, which registers before it sends).
`Leaves` is the datagram going out after the look-up of the host, `Sent` and `SendFails`
the callback. `ForwardCommand` and `RelayFeedback` are the hub's two branches with the
table of clients. Nothing in Node's interface orders the callback of `send` before the
`message` event of an answer, so the model does not either. The name of a module is
kept, the target and the action are not: neither end compares them. Names are ones the hub
stores whole: to a longer one `hub_forward_command_to_module` finds no endpoint and
`get_and_clear_client_cmd` no entry, so its requests end by their timers.

*WebClient.* `cache` is a page's `doorStates` entry, `enabled` its button, `loops` its
`pollStatus` loops. `NodeTells` queues the events of one FEEDBACK: `door-feedback` and
`command-feedback` for every page, one more `command-feedback` first for the page that
asked, if its entry in `pending` is still there. `HearStatus` is either event with a
status, `BeginPolling` and `HearCompletion` the two with LOCK or UNLOCK. The way between
page and door (Node server, hub, two hops) is a set of requests and of answers in flight
that arrive in any order or are lost; `WebBridge` has it in full. One page handles an
answer's events before the next answer is told. The button is enabled in the page as
served, so that a click before the first status sends LOCK.

*HubMain.* One place of `main` for each call that starts or stops a part; the two
halves of a shutdown with a join are two steps. `MutexFree` stands for `g_mutex`, which
`udp_thread` holds while it sends an alert; every other critical section is short and so
an action. `AlertPoll` reads the text, `AlertSent` is the return of `sendDiscordAlert`.
`AnswerAtOnce`, `Dispatch` and `Replied` are `handle_client` by the time a request takes:
none, one operation of the local door, or one `hub_udp_send_command`. `accept` may fail at
any time, which ends the server thread for good. `curl` counts as libcurl does.
Connection errors lose an alert, failed allocations a message: `delivered` means handed
to libcurl, and allocations succeed in all the models.

## 3. Runs

| Run | Shows |
|---|---|
| `led_queue` | drop-oldest refinement, no lost wakeup, the shutdown drains and returns, and the LEDs at rest tell the outcome of the task shown last, at the rate asked for |
| `pwm_period` | **violation**: `PWM_setFrequency` returns true and the LED keeps its old period |
| `door_lock` | rotations reach their target, one thread turns, the bolt rests on a target, LOCKED is said exactly of a locked bolt, commands are answered |
| `door_lock_race` | **violation**: two rotations at once, and one that returned true is off target |
| `door_lock_stop` | **violation**: `door_udp_close` never returns |
| `door_report` | no descriptor is used that is closed or another's, through start, failures and stop; the hub's view converges in spite of races, loss, wrong and failed readings |
| `hub_tables` | the tables agree, slots keep their module, history and flags tell one story, silence shows, the shutdown returns |
| `hub_command` | an acknowledgement means execution while foreign ids are lower; every call returns |
| `hub_command_ack` | **violation**: without that condition a call returns true for a command never executed |
| `web_bridge` | each request is answered, once and truly; the relay table pushes out the oldest client only |
| `web_client` | every page comes to show the door and stops polling; a button that works shows a lock the door has reported |
| `hub_main` | nothing a thread uses is freed, one thread operates the local door, messages are delivered in order, the quit gets to the menu, the last status is told |

Each violation quotes, in `PROJECT.json`, the comment of the code that it contradicts.

Five more places where the code does not do what its text says are in the models as the
code has them, and no property of a passing run counts them as right:

* *Clean-up.* `doorMod.c:334` says "Unlock door on cleanup"; line 335 calls
  `StepperMotor_Rotate(180)`, which is `STEPPER_LOCKED_POSITION`. `DoorLock!Cleanup` locks;
  `RotationReached` is about the rotations of `lockDoor` and `unlockDoor` only.
* *FEEDBACK LOCK.* `door_udp_handler.c:19` says that the word "means "lock command
  completed""; it is sent with the door open, after a failed reading and after a failed
  pin write, with the bolt not locked. `ReplyIsTrue` takes the word of STATUS for what it
  says, and nothing from the words LOCK and UNLOCK. The pages of `web_client` do not
  take those for a state.
* *Hub command.* `led.c:26` and `led.c:202` promise "2 red flashes @ 7Hz" when a hub command
  succeeded; `led.c:203` lights green. `ShowsTheOutcome` leaves that task out.
* *Long names.* `hub_udp.c:20` speaks of "max distinct door modules to track"; a module whose
  name has 16 characters or more gets a slot (lines 106, 113) and an endpoint (lines 233,
  254) with every datagram until both tables are full. `HubTables` does the same with
  `long`; what is said of names is said of `Plain` ones.
* *History.* `hub_udp.h:65` says "most recent events"; asked for fewer lines than it holds, as
  in `door_system.c:179`, `hub_udp_get_history` (`GetHistory`) copies from the oldest
  (`hub_udp.c:725`). `HistoryIsRecent` asks for all of them.

Seen besides: without `/dev/tty` the program stops at once, where `doorMod_cli.c:56` says
"we'll just run headless"; after a failed `door_udp_init2`, `door_reporting_start` returns
true and main reports success.

### Bounds

* `led_queue`: 3 slots hold 2 tasks; 4 enqueues go once round the ring and overflow it, and
  `LedQueue_proofs` proves the ring for every size and number. Any task may follow any
  other, so every pair of patterns meets on the same LED; one write fails, green may be
  missing, main shows one pattern of its own. `pwm_period` has neither faults nor main.
* `door_lock`: a circle of 4 degrees in 8 steps. Two steps fall on one degree, so the
  rounding of `StepperMotor_GetPosition` matters; the two targets are 4 steps apart,
  so a rotation can fail at every distance; two faults allow one to fail during the
  recovery from another. Requests are not bounded. The `door_lock` run has one user who
  asks for motion (`Movers = {"cmd"}`) with STATUS from the terminal beside it; the
  race is a run of its own with both.
* `hub_tables`: two names of their own, a long one and the one it is cut to, for two slots
  and two endpoints, so both tables overflow; two addresses; a ring of two lines that a FEEDBACK alone fills; time 0 to 2 with a
  timeout of 1, so that an entry with heartbeat time 0 goes silent and returns.
  `MaxLines = 4` lines arrive. In the code there are twice as many endpoints as slots; here
  both tables are small enough to fill.
* `hub_command`: one caller, because the HTTP API is the only one and serves one
  connection after the other; two calls of three attempts, one command of Node, one
  restart. Ids collide from the second datagram on.
* `door_report`: two threads, one failing call of the start, one move of leaf or bolt, one
  wrong or failed reading, channels of one datagram, and 13 descriptors, of which 11 are the
  most that are open at once. Convergence is asked of a door that has come to rest, so what counts is
  the interleaving around the last move, and one move has it.
* `web_bridge`: two requests, two relay slots, three forwarded commands (so a doubled
  COMMAND fills the table and pushes one out), one restart or command of the hub's own.
* `web_client`: two pages, two answers in flight (so an old one may overtake), one click, one
  move of the leaf, one sensor error, loops of two polls. The door may be locked or not
  when the pages are opened, so the one click may be either command.
* `hub_main`: three messages, so the list empties and fills again; two connections; three
  changes of the status, so one can come while the one before is told. Every part may
  fail to start, and the quit may come at any point.

### Fairness

Weak fairness is given to what the kernel's scheduler or the event loop guarantees: a
thread that can go on (`Worker`, `Operate(t)`, `CallerSteps(c)`, `CheckSlot`,
`Report("beat")`, a pattern being shown), a timer that is due, a callback of `send`. Nobody has to type, send or
quit. Two assumptions go further and are named where they are used: in `HubTables`,
`CheckBegin` (the sockets do run empty now and then, which a flood could prevent); in
`DoorReport`, strong fairness of `BeatArrives` (of heartbeats sent again and again not
every one is lost); in `WebClient`, the same of a STATUS that is asked for again and again
and of its answers; in `HubMain`, that a client who has connected sends something or hangs
up (`recv` has no timeout, and `http_api_stop` waits for it) and that libcurl returns.
Fairness on the network is assumed nowhere else: `CallsReturn` and
`RequestsSettle` hold when every datagram is lost.

`CHECK_DEADLOCK FALSE` stands where the modelled part may really come to rest: the LED
worker and the hub thread end, the door program (at its end, or with no GPIO line) and the hub program exit, all web requests are answered.

## 4. Proofs

TLAPS proves the following for all values of the constants that meet the named ASSUMEs
of the modules: bounds are natural numbers, a ring has a slot to spare, names differ from
"no name", a name cut to fit is not cut again, there are more descriptors than a start can open. TLC evaluates each of them.

A proof goes as `Init => IInv`, `IInv /\ [Next]_vars => IInv'` (one lemma a group of
actions, one step an action and under it one a conjunct), `IInv => property`. TLC checked
each `IInv` on the small instance before it was proved.

**`LedQueue_proofs`**, the ring (`QueueSize >= 2`): `TypeOK`, `NoLostWakeup`,
`ShutdownDrains`, and the refinement `Spec => DropsOnlyTheOldest`. `IInv` adds which
worker and main places go together, and that every occupied slot holds a task later than
the ones the shutdown waits for once the worker is done. The refinement rests on
`PopIsTail` and `PushIsAppend`, which relate the indices modulo `QueueSize` to the
sequence `Contents`. `PatternStep` shows that every step with the patterns is a step of
the ring or leaves it alone, so that all four hold of `PatternSpec` as well
(`QueueUnderPatterns`, `PatternsRefine`).

**`LedQueue_proofs`**, the patterns: `ShowsTheOutcome`. Nothing can be said of a LED in the
middle of a pattern, so the invariant speaks of what is left to do. The *last* call for a
LED settles it (`Settles`): it is still to come and will put the LED right whatever it
finds (`Promises`); or it is the one being made, the writes it has left are the end of one
that puts it right, and the driver will accept them (`ByFirst`, with `Ready` for a pulse
that must fit the period); or it was made, and the LED is right (`Done`). Main's own
pattern is harmless because it only ever raises the period of green and never touches the
pulse (`Flashes`), so it cannot make the driver refuse what the worker writes next.
`PatternTable` and `PatternPromises` go through the kinds of tasks once, `Times` has the
arithmetic of periods and pulses. `RateInv` does the same for the rates: a call that
`SetsRate` is still to come, or is being made and has reached the write that settles it
(`TakesRate`, `OnlyEnables`), or the LED has the rate; for the period of green this needs
that no pulse before was wider than it (`wide`), which is why `ShowsTheOutcome` excepts that.

**`DoorLock_proofs`** (`MotorAssumption`): `TypeOK` whoever asks for motion.
`RotationReached`, `RestsOnTarget` and `OneThreadTurns` when one of the two users does: the
hub's (`OneMover`) or the terminal's (`TerminalMover`, with or without the reporting). With
both, `door_lock_race` shows the first to be false. `ReplyIsTrue` under `OneMover` only: a
terminal's rotation may well start between the STATUS the hub asked for and its reply. It
holds with any number of faults, because it says UNLOCKED never of a locked bolt and not
that the bolt is all the way back. `Reached`, in the invariant, is `RotationReached` with
the rotation of the clean-up, whose target is the locked position. The
invariant says for each place of each thread what is known of the position: while a
rotation runs, `(pos + left) % StepsPerRev` is its target (`StepsLeadToTarget`), and the
other thread is not in a rotation: under `OneMover` because the clean-up comes after the
command thread has ended, under `TerminalMover` because both are the terminal's thread.
`TypeOK` for both users at once needs what each thread was asked for at each of its places
(`AskedInv`).

**`DoorReport_proofs`**: `TypeOK` and `DescriptorsAreOwned`. The operating system hands out
the lowest free descriptor, which exists because the naturals are well-founded (`Least`) and
because the table is large enough. `OwnInv` is the property for every descriptor kept;
`FreeInv` says which are known to be free at each stage of the start: from the first
export on number 0 is closed, so that the `close(0)` of the next export closes nothing
of the program's, and `StageInv` what is open at each stage. A
thread that is about to send runs, and has a socket, because `StopListening` and
`CloseSocket` come after the joins (`ReportInv`).

**`HubTables_proofs`**: `TypeOK`, `NoTwins`, `AddressesAgree`, the action property
`SlotsKeepTheirModule`, the refinement `Spec => HistoryIsRecent`, and
`HistoryMatchesFlags`. `IInv` is the conjunction of the first three: the agreement of
the tables needs that a name has one slot and one endpoint (`PlaceIsOwn`, `UpdatedKeeps`),
and that the endpoint table, once full, stays full. `Stored` is any function that leaves
its values alone; `PlainNames` says that what is written for another name is never one of
the names in `Plain`. `HistorySequence` gives the ring with
its head and count as a sequence, `WriteIsWritten` says that one write appends a line and
drops the oldest of a full ring, and with it every step is one of `RecentLog` or none.
The same sequence carries `StoryInv`: the last line of the log about a module's silence
says what its flag says, as long as the log still holds one, and no line is about a
module without a slot. `OtherLine` and `OwnLine` carry it over a line about another module
and over the line written in the same critical section as the flag.

**`HubCommand_proofs`**: `TypeOK` and `AckMeansExecuted`. An acknowledgement is a chain
back through the network: FEEDBACK with an id at least the call's own; its id is foreign
or issued by this hub; the latest issued is the call's own or a concurrent caller's; so
the invariant says of every FEEDBACK in `net` or on record with a fresh id that its
caller's action was executed, and of every COMMAND with a fresh id whose it is.

**`WebBridge_proofs`**: `TypeOK`, `AnsweredOnce`, `FeedbackMeansExecuted` and the action
property `EvictsOnlyTheOldest`. `AnsweredOnce` needs that an id is in the pending map
exactly while its timer runs (`TimersInv`), and what a client can have heard while the
callback of `send` is still out: nothing, but for `get-door-info` (`AnswersInv`, `Early`).
`FeedbackMeansExecuted` goes back along the four hops, forwarding, execution, reply and
relaying: `OriginInv` says which Node process and which request is behind each datagram and
each entry of the relay table, `ExecutedInv` that an id nobody else has used is executed on
behalf of this life's request only. A restart of the Node server makes every id in flight
foreign to the new one.

**`WebClient_proofs`**: `TypeOK` and `EnabledMeansReported`. Everything under way that
tells of the bolt, in an answer or in the inbox of a page, is in `reported`
(`ReportedInv`), and so is what a cache entry shows (`CacheInv`, `Backed`), because
completions of LOCK and UNLOCK change nothing in the cache.

**`HubMain_proofs`**: `TypeOK`, `ResourcesOutliveUsers`, `OneThreadOperates`,
`MessagesDelivered`. `CurlInv` keeps the books of libcurl: until the program exits, `curl` is the sum of what
the alerts, the monitor, the webhook and the hub have initialised and not cleaned up, and
the part of the alerts is never given back, so it is positive as long as anything can
send. `WorkerInv` ties the worker's place to main's; `DeliveryInv` says that the messages
are, in order, those delivered, the one in the worker's hands and those in the list.

Only model-checked: liveness (`ShutdownReturns` of both modules, `Answered`, `SilenceShows`,
`CallsReturn`, `ViewConverges`, `CacheConverges`, `RequestsSettle`, `QuitReturns`,
`AlertsCatchUp`), which needs fairness and ENABLED and so is out of TLAPS's reach here. Every other
property of the passing runs is proved. Not proved are the exact circumstances of the
four violations; TLC's counterexamples are their evidence. Induction over data is not
available to the prover either; no module uses a RECURSIVE operator, and where a proof
needs a least element it takes it from the well-foundedness of the naturals.

## 5. What is not modelled, and why

* *Real time.* A 2048-step rotation takes at least 4.1 s and the hub gives up after about
  1.65 s, so a LOCK that turns the bolt is reported `no_ack` as a rule; the models only
  say that the timeout may come first.
* *Truncation of names* outside the hub's tables. `HubTables` cuts names as the code does;
  `HubCommand`, `WebBridge` and `DoorReport` follow one module whose name is stored whole.
* *Two ports of the hub with priority* (`hub_udp.c:546`): `HubTables` has one source of lines.
* *HTTP, JSON, Discord and curl*: formatting and I/O.
* *EVENT and HEARTBEAT at the web pages*: the hub forwards FEEDBACK only, so the handlers
  of `hub-event` and `hub-heartbeat` never run; pages learn of each other's commands by
  the broadcast of FEEDBACK and by polling.
* *`door_udp_init`* (equal ports) and *`set_pin_direction`*: the programs do not call them.

## 6. Plan

Done: `LedQueue`, `DoorLock`, `HubTables`, `HubCommand`, `DoorReport`, `WebBridge`, `HubMain`,
`LedPatterns`, `WebClient`, `DoorStart`, in this order, and the proofs of every safety
property, action property and refinement the passing runs check.

1. *Extend.* Two sockets with priority in `HubTables`. An abstract `Request` ("asked, then
   answered once") that `WebBridge` and `HubCommand` both implement is worth stating, and one
   queue that `Webhook` and an unbounded `DropQueue` share.
2. *Prove.* That abstract `Request` by a refinement of `WebBridge`. That the tasks shown are in the
   order of their calls, as an invariant of `DropQueue` carried over by the refinement.
   `ReplyIsTrue` under `TerminalMover` for the terminal's own operations.
