# Odessa Outpost: a verification project

TLA+ models, TLC checks and TLAPS proofs of the stateful machinery of this
Space Station 13 server. One half is its DM code under `src/code/`: docking
programs, shuttles, the master controller's run queue, the processing lists,
and the servers of the user interface and of the chat. The other half is the
JavaScript these two run in the player's browser (`src/nano/js/`,
`src/code/modules/goonchat/browserassets/js/`), down to the callbacks,
requests, events, effects and selectors of the jQuery they are built on.

Contents: [1. the system](#1-the-system) · [2. how DM runs](#2-how-dm-runs-and-what-a-step-is) ·
[3. modules](#3-the-modules) · [4. runs](#4-the-runs) · [5. fairness](#5-fairness) ·
[6. proofs](#6-proofs) · [7. disagreements](#7-where-code-and-comments-disagree) ·
[8. limits](#8-what-is-not-modelled) · [9. plan](#9-plan)

To check a run: `tlc -config MCDocking.cfg Docking`; to check proofs:
`tlapm DockingProofs.tla`. `PROJECT.json` maps each definition to its lines.

## 1. The system

### Inventory

| component | state | operations | talks to |
|---|---|---|---|
| **Docking program** `embedded_controller/docking_program.dm` | `dock_state`, `control_mode`, `tag_target`, `response_sent`, `resend_counter`, `received_confirm` | `receive_signal` (five commands), `Process`, `initiate_docking`, `initiate_undocking`, `force_undock` | radio signals to other programs; calls from shuttles; the doors behind it |
| **Radio** `controllers/communications.dm` | devices on a frequency | `post_signal`, `add/remove_object` | delivers inside the sender's call |
| **Docking ports** simple controller, airlock program, `airlock_control.dm` | door memory, door state, cycling state | `open_door`, `close_door`, cycling, door `secure_open/close` | the docking program asks them whether they are ready |
| **Multi-airlock docking** `docking_program_multi.dm` | children's statuses | master and child signals | docking program |
| **Autodock shuttle** `modules/shuttles/shuttle.dm`, `shuttle_autodock.dm` | `moving_status`, `process_state`, `in_use`, locations, docking controller and target; sleeping `spawn` callbacks | console buttons, `Process`, `short_jump`, `long_jump`, `cancel_launch` | consoles, docking programs, landmarks, the shuttle subsystem |
| **Overmap and multi shuttles** | fuel, destination | `set_destination`, `can_go`, `fuel_check` | extend the autodock shuttle |
| **Ferry, supply, emergency, antagonist shuttles; escape pods** | `location`, arming, evacuation program | `launch`, `force_launch`, timers | evacuation controller, supply |
| **Evacuation controller** `controllers/evacuation/` | `state`, times, recall flag | `call_evacuation`, `cancel`, `process` | pods, ticker |
| **Master controller** `controllers/master.dm`, `subsystems.dm` | the linked run queue, priorities and running totals, each subsystem's `state` | `Loop`, `CheckQueue`, `RunQueue`, `enqueue`, `dequeue`, `ignite`, `SoftReset`, `Recreate_MC` | fires every subsystem |
| **Failsafe** `controllers/failsafe.dm` | `defcon`, `lasttick` | its own loop, warning, killing and restarting the master | master |
| **Processing lists** `subsystems/processing/`, `machines.dm`, `__DEFINES/subsystems.dm` | lists, index, `is_processing` | `fire`, `START_PROCESSING`, `STOP_PROCESSING`, `PROCESS_KILL` | every thing in them, through `Process()` |
| **Garbage collector** `subsystems/garbage.dm` | a prequeue of data, two queues of references | `qdel`, `Queue`, `HandleQueue`, `HardDelete` | everything deleted |
| **Timer** `subsystems/timer.dm` | rings of timers in buckets, the list of later ones, hashes of unique timers, statics of `fire` | `addtimer`, `deltimer`, `fire`, `shift_buckets` | callbacks |
| **Ticker and game modes, votes, supply orders, observation and components** | round state, polls, orders, registration tables | their subsystems' `fire`, verbs, signals | players, each other |
| **NanoUI server** `code/modules/nano/nanoui.dm`, `subsystems/processing/nano.dm` | each ui's status, closing flag and data; `open_uis`, `ui_map` of the user | `try_update`, `open`, `close`, `push_data`, `process`, `Topic`, logout and transfer of a user | the window, by two streams; the object behind it |
| **NanoUI page** `nano/js/nano_*.js` | initialisation, the templates and data it has, states and callbacks | `init`, `receiveUpdateData`, loading of templates, `doUpdate`, clicks | the server; the templates; jQuery |
| **Templates and helpers** `libraries/doT.js`, `nano_base_helpers.js`, `nano_utility.js` | the text of a function, its variables | tags, loops, bars, DNA blocks, links | the page |
| **Chat** `goonchat/browserOutput.dm`, `browserOutput.js` | the server's queue and cookie history; the page's list, menus, timers, music, cookies | `start`, `load`, `doneLoading`, `output`; sliding menus, `ping`, settings, popups | each other, by two streams; the browser's cookies |
| **jQuery: callbacks, deferreds, ready, timers** | lists that fire, their stacks; `readyWait`; intervals in an element's data | `add`, `remove`, `fireWith`, `when`, `holdReady`, `everyTime`, `stopTime` | everything that is told something later |
| **jQuery: ajax** | requests with timers and callbacks, `active`, names of jsonp | `ajax`, `abort`, `done`, converters, prefilters | templates of the page |
| **jQuery: data and events** | the cache of elements, handlers, what is listened for | `on`, `off`, `one`, `trigger`, `dispatch`, `cleanData` | every handler of a page |
| **jQuery: effects** | queues, hooks, `timers`, one interval | `animate`, `delay`, `stop`, `finish`, `promise` | menus of the chat, bars |
| **jQuery: selectors** | caches of matchers, `dirruns` | `select`, `addCombinator`, `sortOrder`, nth-child | handlers with a selector |
| **jQuery UI: mouse and draggable** | `_mouseStarted`, `mouseHandled`, helper, `dropped` | press, move, release, `cancel`, `destroy`, revert | the map of the page |
| **Atmospherics, power networks, telecommunications** | zones, graphs, flows | numeric updates | machines |
| **Mobs, items, medical, chemistry, combat, maps, assets** | single objects | game rules | — |

### Which behaviours are hard, and what makes each part correct

*Docking.* Two to three programs, two calls each from shuttles and consoles,
signals that arrive inside the sender's call, confirmations that are sent again,
machines destroyed in the middle. Correct means: partners agree on who serves
whom and on the phase; nobody else gets in between; an old confirmation never
finishes a new handshake; a port is not undocked by strangers; a handshake ends.

*Shuttles.* A launch is a console command, then `Process()` calls, then up to
two callbacks that sleep for seconds with the destination they were started
with, while the console may cancel, relaunch or choose another destination.
Correct means: no launch lock leaks, no launch without a destination, a shuttle
in transit has a callback that brings it back, a shuttle that has left is not
believed to be docked, every launch ends.

*Scheduler.* A doubly linked queue changed in its middle while it is walked;
fires that pause, or sleep and come back between two iterations; runtimes that
reset it; a restart with fires still asleep. Correct means: the queue is a list
of exactly the waiting subsystems, in order; the totals that share out the tick
are right; a sleeping subsystem is not fired again and is never lost; who waits
for room in the tick gets it.

*Processing lists.* A list is walked by an index that survives pauses, while the
things being processed leave, enter, delete each other or ask to be killed.
Correct means: in each pass every thing that stays is processed once.

*Timers and garbage.* A ring of timers is walked across pauses while callbacks add
to it and delete from it. A destroyed datum is known by a reference that another
datum may have by the time it is looked up. Correct means: no waiting timer is
lost or passed over, timers run in order; what is destroyed is not forgotten, and
nothing else is deleted.

*NanoUI.* A window is one per user and object, but uis are opened again while the
window of the old one still closes; commands come late from the window of a ui
that is gone; the page initialises itself while updates arrive. Correct means:
one open ui for a window and a window for an open ui; the page shows the newest
data it was given, completely rendered, and what changed comes up.

*Chat.* The server holds messages back until the page reports; the player
reconnects; entries are combined and cut off; menus slide while they are
clicked; settings are in variables, cookies and on the server. Correct means:
messages arrive once and in order; the count and the list agree; an open menu
has one interval that closes it; a song stops at its end; cookies, page and
server agree on a setting.

*jQuery.* Whatever it calls may use it again: callbacks change the list that
fires, handlers unbind handlers, the complete function of an animation stops
the queue, a request is aborted by the function told of it. Correct means:
everyone is told once and in order; a promise is kept; counters and timers
agree with what they count; listeners exist as long as handlers; queues end.

## 2. How DM runs, and what a step is

DM code is cooperative: a proc runs until it returns or sleeps; `spawn(n)` and
`sleep(n)` queue the rest for later, and equal delays wake in the order they
were queued. So one console button, one `Process()` of one program or shuttle,
one wake-up of a callback is one step, with everything it calls, and anything
may come between two of them. Radio signals are not messages in flight:
`post_signal` calls `receive_signal` of every device before it returns, so a
request and the acknowledgement it triggers belong to the requester's step.
The scheduler is the one place with finer steps: nothing runs between
the steps of `CheckQueue` and `RunQueue`, and the model keeps that with `phase`.

A page is a single thread too: a step is one handler, timer or callback of the
browser. Where such a function calls functions of the program, which may call
back, the modules cut it at these calls and keep what is to follow in a frame
(`Deferred`, `Events`) or in a list of things to do (`Ajax`, `Effects`); the
nested call then runs to its end before the outer goes on, as it does in
JavaScript. Between server and page there are two streams, each in order and as
late as it likes; nothing in them is lost while the connection is there.

## 3. The modules

### `DockingLink` — what a pair of docking programs promises
The abstract specification: a set of links, each with client, server and phase.
`Connect` joins two free ports, `Advance` takes a link from docking to docked
and to undocking, `Break` ends it. Ports that are taken cannot be connected, so
a port is an end of at most one link.

### `Docking` — the handshake
`prog[p]` holds the six variables of a program under their names in the code,
`master[p]` its machine: running, destroyed (off the radio and off the machine
list, but still referenced and able to send) or deleted.

| code | model |
|---|---|
| `receive_signal` and its five commands | `receive_signal`, `OnConfirmDock` … `OnDockError`; `request_dock` adds the acknowledgement |
| `send_docking_command`, `post_signal` | `send_docking_command`, `Hears` |
| `initiate_docking`, `initiate_undocking`, `force_undock` | `InitiateDocking`, `InitiateUndocking`, `ForceUndock` |
| `Process()`: the switch, the resend counter, "handle invalid states" | `ProcessReady` = `Handshake`, then `Resend`, then `Repair` |
| `radio/Destroy`, hard deletion | `Destroy`, `HardDelete` |

The port answers `ready_for_docking` and `ready_for_undocking` any way it likes.
`override_enabled` only mutes calls to the port, so it does not appear. The
`response_sent = 0` after the client's reset in the code changes nothing: the
reset cleared it already. `request_dock` is never sent again by the code, and
not by the model.

`Links` is the refinement mapping: a link for each running client that got past
its request and whose server runs. Destroying a machine is a `Break`.

### `Shuttle` — the autodock shuttle, over `Docking`
Instances `Docking` as `D` and shares `prog` and `master` with it; the docking
calls of the shuttle are the operators of that module.

| code | model |
|---|---|
| `set_destination`, `launch`, `force_launch`, `cancel_launch` | `SetDestination`, `launch`, `force_launch`, `cancel_launch`, whose `spawn(1 SECONDS) dock()` is counted in `redocks` and run by `Redock` |
| `Process()` in its states | `ProcessLaunch` (with `process_launch`), `ProcessArrive`, `ProcessFinish` |
| `short_jump`, `long_jump` up to the warmup | in `process_launch`: appended to `warmups` |
| a jump waking from its warmup | `Takeoff`: cancelled, out of fuel (`cancel_launch` is called from inside), or `attempt_move` |
| the loop that waits for `arrive_time`, and the landing | `Landing`: to the destination, back to the start, or stuck |
| the docking programs in between | `ControllerStep` |

`Overmap` chooses between an overmap shuttle (destination any time, fuel) and a
multi shuttle (destination only while idle); `LongJumps` between `long_jump` and
`short_jump`; `Warmup` = FALSE is `warmup_time = 0`, where `spawn(0)` lets
nobody in (`Turn`). Fuel, obstruction of a landing and range are
nondeterministic. The admin verbs (jump, move, admin launch) and ferries are
left out.

### `Scheduler` — the run queue of the master controller
The links, priorities and totals have their names from the code; `Nth` walks the
list with a recursive function. `asleep[ss]` counts the fires of `ss` that sleep.

| code | model |
|---|---|
| `Loop()` up to `CheckQueue`; the choice of what to check | `StartIteration`, `subsystems_to_check` (everything with an empty queue or each third iteration, else tickers) |
| `CheckQueue`, one subsystem | `CheckQueue`, in any order: `Loop()` sorts the list of run levels instead of the subsystems in each, so nothing orders them |
| `enqueue`, `dequeue` | `Successor`, `Predecessor`, `enqueue`, `dequeue` |
| `RunQueue`: passes, and its end when the tick is used up | `StartRun`, `NextPass`, `EndRun`, `SkipRun` |
| `SS_NO_TICK_CHECK` without room | `Bump` |
| `ignite()` returning idle, `SS_SLEEPING`, `SS_PAUSED` | `RunFinishes`, `RunSleeps`, `RunPauses` |
| the rest of a `fire()` that slept | `WakeReturns`, `WakePauses` (which queues itself) |
| a queue proc runtimes, `SoftReset` | `SoftReset` |
| `Recreate_MC`, and the new `Loop()` | `Recreate_MC`, `StartLoop`, with wake-ups in between (`phase` = "prep") |

Time is nondeterministic: what is due, whether the tick has room, when it is
used up. `error_level` is abstracted to "the iteration counter moves or not".
Initialisation, run levels and the deletion of subsystems are left out.

### `Processing` — the lists
One module for `SSprocessing` and its children (one list) and `SSmachines` (four
lists, one index). `Fire`/`Resume` start a pass or go on with it, `Visit` begins
a thing's `Process()`, `Return`, `ReturnKill` end it, `Discard` drops a deleted
thing, `EndList` ends a list. Between, `START_PROCESSING`, `STOP_PROCESSING`
with `stopProcessingWrapper`, `qdel`, and the powernets that put themselves on
their list and take themselves off it, unmarked and without the wrapper, come from
the rest of the game. `seen` is a history variable: how often
a thing was processed in this pass since it entered the list.
`process_power_objects` does not look for deleted things in its list
(`Unchecked`): there a deleted thing is processed like any other.

### `TimerSubsystem` — the timers of `addtimer()`
The subsystem and its timers are one record `ss`; `next` and `prev` are the links
of the rings, and `ring` walks one; loops over timers are recursive functions. The statics of `fire()` are variables
(`timer`, `head`, `spent`), because they outlive a pause.

| code | model |
|---|---|
| `fire()` up to its loop | `TimerFire`, which shifts the buckets if need be |
| the loop's condition | `Due`; `TimerDone` when nothing is due or the tick is over, with the deletion of those that ran |
| the first timer of a bucket, or none | `NextBucket` |
| a timer without a callback, `CRASH` | `InvalidTimer` |
| `callBack.InvokeAsync()`; what follows it | `RunTimer`; `NextTimer`, which goes on, pauses or ends the bucket |
| `shift_buckets()` | `shift_buckets`, with the sort by time |
| `addtimer()` and `New()`; `deltimer()` and `Destroy()` | `addtimer`, `created`; `deltimer`, `destroyed`, whenever the game has the thread: between fires, in a callback, in a pause |

A unique timer has one of `Hashes`, the waits of the one callback that is given
them. Timers of the client's time are left out.

### `Garbage` — what is destroyed and what is left of it
A datum is known by its reference, which another has once it is gone. `data` has
what exists, what is referred to from outside the prequeue, and `gc_destroyed`.
`qdelBegins` and `hinted` are the two halves of `qdel()`, with `Destroy()`
between them, which may sleep; `HandlePreQueue` and `HandleQueue` are `fire()`
with a pause after any entry; `NewDatum` and `Drop` are the rest of the game.
`owed` is a history variable: what was destroyed and left to the subsystem.

`MCServer` has all four in one run: `Processing`, an instance of it for the
machines, timers and garbage. Its variable `part` picks which one moves.

### The client and its servers
A variable `part` of the modules `MCServer`, `MCNano`, `MCChat`, `MCAsync` and `MCDom` picks
in the initial state which component moves; the others stay as they begin, so
the components of a run are checked independently of each other. A name in the
code is the name of the definition, as far as TLA+ allows; where two modules
would share one, the second has a prefix.

| module | what it models | its actions |
|---|---|---|
| `NanoData`, `NanoUI` | what the two halves of NanoUI say to each other; the uis of the server, their window, the streams between them, closing in a `spawn`, users that move away or log out | `User`, `Game`, `FromWindow`, `ToWindow`, `PageUp`, `Process` |
| `NanoPage` | the page in that window: document ready, templates that load one after the other, states, rendering that throws, clicks disabled for a moment | `NewPage`, `Arrive`, `Browser`, `ClickLink`, `EnableClick` |
| `Template` | a template from its tags to the statements of its function, and what the function prints: variables are the function's, whatever block names them | `PrintText`, `List`, `Start`, `Choose`, `While`, `ForIn`, `BlockEnds` |
| `Helpers` | bars, DNA blocks, links and `indexOf()`, as operators over bounded arguments | — |
| `ChatOutput` | the chat's datum and client: hold back, report, reconnect, the cookie with the identities | `Server`, `Deliver`, `DomReady` |
| `ChatList` | the list of messages: limit, combining, highlighting time, connection notice, ping | `Receive`, `clearMessages`, `Pang`, … |
| `ChatMenu` | the sliding menus with their queue of slides and the interval that closes them | `Toggle`, `MouseDown`, `SubLoop`, `SlideEnds`, … |
| `ChatMedia` | an admin's music with listeners that cut it; pictures that load again | `Music`, `TimeUpdate`, `IconError`, `IconTimer`, … |
| `ChatSettings` | settings in variables and cookies, the volume on its way to the server, popups | `Switch`, `VolumeTimer`, `ClientData`, `Submit`, … |
| `Callbacks`, `CallbackList` | `jQuery.Callbacks()` as operations on a record, and one such list in use | `CbOperation`, `CbFire`, `CbCall`, `CbReturn`, `CbFinish` |
| `Promise` | abstract: settled once, tells each handler of that way once, in order | `AddHandler`, `Settle`, `Tell` |
| `Deferred` | three callback lists that shut each other, handlers nested in handlers | `Add`, `FireWith`, `DeferredCall`, … |
| `When` | `jQuery.when()` over settled and pending deferreds and plain values | `CallWhen`, `Resolve`, `Reject`, `Notify` |
| `Ready` | `ready()`, `holdReady()`, the document's loading, `doScrollCheck` | `AddReady`, `Hold`, `Release`, `Loads`, … |
| `Timers` | intervals recorded in an element's data, which goes without them | `everyTime`, `stopTime`, `Tick`, `cleanTimerData`, `unload` |
| `Ajax` | xhr, synchronous and jsonp requests with their callbacks and global events | `CallAjax`, `Abort`, `AjaxSteps`, `Respond`, `ScriptRuns`, … |
| `AjaxData` | which type of an answer is used and the converters it goes through; the order of prefilters | operators |
| `Events` | the cache of an element; handlers on it and for what is inside it, while an event goes up and handlers change everything | `On`, `Off`, `Trigger`, `Dispatch`, `Call`, `Returns`, … |
| `Effects` | queues, delays, animations and their common interval; `stop()`, `finish()` at any moment | `FxProgram`, `FxSteps`, `FxInterval`, `DelayEnds` |
| `Draggable` | presses, moves, releases (missed ones too) of widgets inside each other; where the dragged element is put | `MouseDown`, `MouseMove`, `MouseUp`, `Reverted`, `DragProgram`, … |
| `Selectors`, `ChildIndex` | matchers with their caches while the document changes, and the order of nodes; the cached place among siblings | `Query`, `Relabel`; `Ask`, `NextRun` |

`NanoUI` and `NanoPage` are two views of one window: the first has the page as
"initialised and at this version", the second has the server as whatever may be
in the stream. `Deferred` implements `Promise` by a refinement mapping
(`KeepsPromise`), and with its liveness (`TellsEveryone`, part of `WaitsEnd`): a list
that has been fired and may not have reached everyone yet is a promise that still tells.

## 4. The runs

A property is often the conjunction of named parts that belong together
(`PortsAgree == TypeOK /\ StateTable /\ Agreement`); the parts are stated and
commented one by one in the module, and theorems exist for many of them.

Bounds are constants of the cfg files; each is named here.

| run | module, cfg | properties and what they show | distinct states |
|---|---|---|---|
| `docking` | Docking, MCDocking.cfg | three programs (a pair and a third that interferes), one destructible machine: `PortsAgree` (state table, agreement of partners), `ConfirmIsFresh`, `LinksKept` (`ServerStaysDocked`, no undocking by strangers, and `RefinesDockingLink`), `HandshakeEnds` | 11,280 |
| `shuttle` | MCShuttle | an overmap shuttle with warmup and long jumps, a berth at home that may be destroyed, none away: `LaunchProtocol` (movement only in WAIT_ARRIVE, the lock, a destination), `TransitIsReal`, `BerthsKept` | 292,688 |
| `shuttle_multi` | MCShuttle, MCShuttleMulti.cfg | a multi shuttle without warmup: `TransitIsTheLaunch` (the transit is the launch the console shows), `LaunchEnds` (a jump ends, docking is given up) | 20,592 |
| `shuttle_parallel` | MCShuttle, MCShuttleParallel.cfg | the disagreement of section 7: `NoParallelJumps` is violated | — |
| `scheduler` | MCScheduler | a normal, a background, and a subsystem that cannot pause: `PriorityTotals`, `FiresInTurn` (`SleepPreventsFires`, and `QueuedRuns`: the bumped subsystem runs at last) | 21,767 |
| `scheduler_failures` | MCScheduler, MCSchedulerFail.cfg | a ticker too, with runtimes and restarts and two sleeping fires of one subsystem: `QueueInOrder` (list structure and order), `SleepersComeBack` | 1,347,745 |
| `server` | MCServer | one list of four things: `EachOnce` (lists and marks agree, each thing is processed exactly once a pass), `HasTurn`; the four machine lists with five things, unwrapped removals and double kills: `MachineListsAgree` (whatever happens to the index); timers: `BucketsHold` (each waiting one is in its bucket or among the later, and each hash leads to its timer), `TimersRun` (in order, and what is due is not passed over); garbage: `GarbageKept` (nothing destroyed is forgotten, nothing else is deleted) | 528,509 |
| `timer_paused` | MCServer, MCServerLate.cfg | the disagreement of section 7: `BucketHoldsAll` is violated | — |
| `nano` | MCNano | `WindowAgrees` (one ui for a window, a window for an open ui), `PageShows` (the newest data, rendered with all templates), `PagesPrint` (what a template says; helpers within their marks); `UserIsTold` (a status is told, automatic updates catch up, a closed window is heard of), `PageGoesOn` (never an older version, comes up, clicks work again) | 123,084 |
| `chat` | MCChat | `ListShows` (count, limit, the end of what was told), `ChatDelivers` (nothing lost or twice, in order), `WidgetsRest` (`MenusClose`, `MediaEnds`), `SettingsKept` | 186,420 |
| `async` | MCAsync | `MasterFollows`, `TimersAgree`, `EveryoneInTurn` (callback lists), `KeepsPromise` (deferreds refine `Promise`: its safety), `WaitsEnd` (ready functions run, intervals stop, a settled deferred tells everyone: the liveness of `Promise`), `RequestsEnd` | 220,882 |
| `dom` | MCDom | `EventsAgree` (listeners and handlers), `AnswersConvert`, `DragsAsAsked`, `SelectsInOrder`, `PlaceIsTold`, `QueuesEnd` | 511,245 |

Why the bounds are enough:
* Three programs: a handshake has two parties and a property about interference
  needs one more. The safety properties are proved for any number.
* `MESSAGE_RESEND_TIME` = 2 (5 in the code): one call that counts and one that
  sends again; more only adds idle counting. Proved for any value.
* Two landmarks and the transition area: leave, wait, arrive or return.
  `MaxCallbacks` = 2 lets a stale and a new callback of a kind wait together.
* Priorities are in tens, as `subsystems-priority.dm` spaces them; a tenth of
  the total is rounded up to a whole, so a bump always raises. `TopPriority`
  caps it; in `scheduler` it is above every initial priority, where more changes
  nothing.
* `MaxAsleep` = 2 where failures let a second fire start while the first sleeps.
* Four things in one list: one in `Process()`, one on each side, one that comes.
  `seen` stops at 2 ("more than once").
* Timers: `BUCKET_LEN` = 2 (a minute's ticks in the code) with `Waits` 0 to 2:
  this tick, the next, and one too far for the buckets. `MaxTimedEvents` = 3 and
  `MaxTime` = 3: a ring with a middle, and a shift of the buckets with timers in
  them. `Hashes` has one wait, so a unique timer meets the one before it. With
  four timers (3.5 million states, not among the runs) `BucketsHold` and
  `TimersRun` hold too.
* Garbage: two references, timeouts of 2 and 1 units, `MaxGcTime` = 4: a reference
  is destroyed, reused and destroyed again while its first entry still waits. One
  `fire()` in a unit of time, as `wait` has it.
* `server` runs with CHECK_DEADLOCK FALSE: the time and the timers of a bounded
  part run out.

* NanoUI: two uis of one object are the old and the new one of a window;
  `MaxVer` = 3 data versions tell old, current and next apart; `MaxChanges`,
  `MaxStream` = 1 with a command of each kind behind another. The page has two
  templates to load and a third that a later state names; version 1 does not
  parse (`Unparsable`) and version 0 throws in rendering (`Broken`).
* `Template`: a handful of markups, among them every block in every other,
  over lists of two; `MaxPrinted` = 12 is more than any terminating one prints.
  `Helpers`: `Amounts` -3..4 around both ends of a range, `BlockSizes` 0..3 with
  `MaxCharacters` = 7 (a rest in the last block), `MaxPairs` = 2, `MaxItems` = 3.
* Chat: `messageLimit` = 4 with `MaxTold` = 5 reaches the limit and goes past it;
  two texts, one in two markups, for combining; `clientDataLimit` = 2 with three
  identities overflows the history; `MaxPending`, `MaxSent` = 2 keep two on the
  way; `MaxSlides` = 2 a slide that runs and one that waits; `imageRetryLimit` =
  2; `MaxPopups` = 1 (a second never works, see section 7).
* Async: three callbacks (the one that runs, one before, one after it),
  `MaxDone` = 5 calls; `MaxAdded`, `MaxSettles` = 3; `MaxHolds`, `MaxReadyFns` =
  2; three intervals over two labels and two functions; `SubCount` = 3 (one
  settled, one pending, one value); two requests that interfere, `MaxAjaxOps` = 4
  things their callbacks do.
* Dom: three elements inside each other (`Depth`), two bindings, `MaxNested` = 2
  nested triggers, `MaxEventOps` = 3 things handlers do; two elements with
  effects and `MaxFxOps` = 3 operations; two widgets, one in the other,
  `MaxPresses` = 2 and `MaxDragOps` = 1 (a missed release needs a second press);
  `Pages`, `Offsets`, `Margins`, `Grids`: both ends, the middle, with and
  without; five nodes and `MaxQueries` = 2 questions with a change between them;
  `MaxRuns` = 2, `MaxChildChanges` = 1 likewise.

Some properties hold only under conditions that the cfg or the property sets.
`SleepPreventsFires` holds only while the queue never fails (after `SoftReset`
or a restart, `master.dm:555` and `:250` make every subsystem idle, also one
whose fire sleeps), and `PriorityTotals` only while no subsystem is both
`SS_NO_TICK_CHECK` and `SS_BACKGROUND` (SSevac is). `EachOnce` holds for one list
without double kills. `BucketsHold` and `TimersRun` ask for the places and the
order of timers until a tick was over as soon as `fire()` resumed in a bucket
(`late`, section 7). Properties of the client name the mishaps they exclude,
all of them in section 7: a report of an earlier page (`early`), a popup too
many, an exception or an abort in `ajaxSend` (`calm`), a `stop()` inside a
`complete` function (`oddities`), a `finish()` that takes the delay a queue's promise
waits for (`abandoned`), a `cancel()` in the middle of a press
(`expected`).

## 5. Fairness

* `Docking!FairSpec`: weak fairness of `ProcessReady(p, TRUE)`. SSmachines calls
  `Process()` on every running controller again and again, and a port told to
  get ready is ready in the end (doors close, the airlock cycles). Destroyed
  machines are not processed: `HandshakeEnds` speaks of running ones.
* `Shuttle!FairSpec`: queued callbacks wake (`spawn`), the shuttle subsystem
  calls `Process()`, and `DOCK_ATTEMPT_TIMEOUT` elapses. Nobody is assumed to
  press a button.
* `Scheduler!LiveSpec`: the loop goes on; a run of the queue ends; a fire that
  pauses is done at last; and the server is not overloaded for ever: if runs
  start again and again, some go through the queue to its end. Without the
  last, a subsystem late in the queue may rightly starve. `QueuedRuns` is
  claimed of non-background subsystems only: background ones run on spare time.
* `NanoUI!UiFairness`: streams are delivered, the browser goes on, sleeping procs
  wake, SSnano processes open uis. Strong for what comes from the window and for
  processing, which the bound on the stream switches off now and then; the
  streams of BYOND have no such bound. `NanoPage!PageFairness`: the browser goes
  on loading, requests end, timers fire.
* The chat: streams are delivered, the document becomes ready, intervals, timers
  and slides come to their end. No player clicks anything, no admin plays music.
* `Deferred`: handlers return. `Timers`: intervals tick. `Ready`: the document
  loads, timeouts come, who holds the event lets go. `Ajax`: what is called
  returns and timeouts come, but an answer need not. `Effects`: the interval and
  timeouts come.
* `Processing!LiveSpec`: weak fairness of the subsystem's own steps. The game
  around it may do anything, for ever, while the subsystem is paused. `ServerSpec`
  has the same, and nothing for timers and garbage: their properties are of safety.

## 6. Proofs

| module | theorem | for |
|---|---|---|
| `DockingProofs` | `PortsAgreeHolds`, `ConfirmIsFreshHolds` | any number of programs, any resend time, any machines lost |
| | `LinksKeptHolds` (`RefinesDockingLinkHolds`, `ServerStaysDockedHolds`) | the same: the handshake implements `DockingLink` |
| `ShuttleProofs` | `LaunchProtocolHolds`, `TransitIsRealHolds`, `BerthsKeptHolds` | any landmarks, consoles, bounds, berths; both kinds of shuttle, both kinds of jump, with and without warmup |
| | `TransitIsTheLaunchHolds` | multi shuttles without warmup |
| `SchedulerProofs` | `QueueInOrderHolds`, `SleepersComeBackHolds` | any subsystems, flags, priorities, with failures |
| | `PriorityTotalsHolds` | where no queue proc fails and no subsystem is in the background and cannot pause |
| | `SleepPreventsFiresHolds` | where no queue proc fails |
| `ProcessingProofs` | `EachOnceHolds` | any number of things in one list |
| | `ListsAgreeHolds` | any things in any lists, with unwrapped removals and double kills |
| `ServerProofs` | `MachineListsAgreeHolds` | the same of the four lists of SSmachines |
| | `GarbageKeptHolds` | any references and timeouts, whatever is created, dropped and destroyed |
| | `ServerRunsTimers` | the theorems of `TimerProofs`, among the other subsystems |
| `TimerProofs` | `BucketsHoldHolds`, `TimersRunHolds` | any length of the buckets, waits, hashes and number of timers, wherever the tick is over; the places and the order of timers until a tick was over as soon as a walk resumed (`late`), types, hashes and "never early" always |
| `ClientProofs` | `WindowAgreesHolds` | any uis of one window, any users, streams and states of data |
| | `PageShowsHolds` | any templates, versions, layouts; any order of updates, loading and failures |
| | `ListShowsHolds` | any limit, any texts, any number of messages |
| | `DragsAsAskedHolds` | any widgets inside each other, options, presses, replies of handlers, releases that are not heard; any places, scrolls, margins, grids |
| `JQueryProofs` | `HeldBackHolds`, `TimersAgreeHolds`, `MasterFollowsHolds` | any holders and functions; any elements, labels, functions and intervals; any number of subordinates |
| | `EveryoneInTurnHolds` | any callbacks, any kind of callback list, whatever callbacks do to it |
| | `KeepsPromiseHolds` | any handlers, values, bounds; whatever handlers do while they run: deferreds implement the safety of `Promise` |
| | `PlaceIsToldHolds` | any arrangements of any nodes, any runs and changes |
| | `EventsAgreeHolds` | any elements, types and functions, any number of handlers and of events within each other; whatever handlers do |

The finer theorems these are made of (`AgreementHolds`, `LeftIsDoneHolds`, …) are
in the same modules. Every constant assumption is a named `ASSUME` that a run
evaluates; the strongest is `ArrangementsAssumption` (no node is at two places).
`DockingAssumption` of `Shuttle` is what `Docking` assumes of its programs, and
`MachineAssumption` of `MCServer` what `Processing` assumes of its lists: the proofs
of a module hold for its instances by these.

**Induction over data.** The library's induction theorems take an operator as an
argument, which no installed prover can instantiate. For one recursive function or
one linked list at a time there is another way: if some number refutes the claim, a
least one does (`LeastNat`, from the well-foundedness of `<` on `Nat`), and the one
before it leads to a contradiction. So are proved that the nodes of the run queue
are a chain, that the sums of priorities change by what is queued, what is left of
a callback list and where, and that a flattened list of messages is the old one
with the new at its end. `SelectSeq` and the `RECURSIVE` operators stay out of reach.

**Docking.** The inductive invariant is `TypeOK /\ StateTable /\ HasPartner /\
Agreement /\ ConfirmIsFresh`. `Agreement` alone is not inductive: a server
could confirm to itself or to nobody without `HasPartner` (a program with a
mode past its request has another program as partner), and `StateTable` is
what makes `Repair` a no-op. Each operator has a lemma saying what it does to
one program; the step lemmas then compare two programs before and after.
`LinksKept` adds `DockedServersRest` (a docked server has nothing sent and nothing
counted) to the invariant: otherwise `Process()` might count it and send again. For the refinement each operation is shown to move the link that the two
programs of a handshake make up by one step of `DockingLink`, or not at all; the
links of other pairs do not move since their programs are not touched.

**Shuttle.** `MovesOnlyInWaitArrive`, `LockFollowsLaunch` and
`LaunchHasDestination` support each other: a launch can be trusted to have a
destination because the lock is held exactly while launching, and the jump of
`process_launch` is never refused because a waiting shuttle does not move.
`TransitIsReal` needs `OneTransit` and `TransitAt`: a second stale jump that
wakes while the first is in transit finds the shuttle in the transition area
already and cannot move there. The docking programs do not matter to those: the
shuttle only asks whether its controller is docked, and every answer is covered.
They matter to `BerthsKept`, whose invariant (`BerthInv`) has the handshake's for the
programs of the shuttle: `DP == INSTANCE DockingProofs` gives its lemmas for them, and
what the shuttle calls is an operation of the handshake, which keeps it. From
`Agreement` nobody serves a controller that is not docked, which the shuttle waits for.

**Scheduler.** A subsystem in `SS_SLEEPING` has a sleeping fire: inductive with
the types of `state` and `asleep` alone. Every way out of `SS_SLEEPING` is
covered, among them a first fire that returns after a restart and puts a second
one's subsystem back to idle (the reason the converse does not hold). Without
failures and restarts the two go together, which is `SleepPreventsFires`.

`QueueInOrder` is about a linked list, in which nothing says that following `next`
from the head comes to the tail. The invariant (`QueueInv`) has a witness for it: a
function of 0..N - 1 onto the queued subsystems, each one's `next` and `prev` being its
neighbours (`Chain`), in the right order (`Ordered`). `Enqueue` and `Dequeue` put an element into the
chain and take it out; where the walk of `Enqueue` stops is found as the least
place it may stop at. `PriorityTotals` follows the sums through the same steps: the
sum of a finite set without one element is less by what that element adds. It has two
hypotheses (`Calm`), because the code does not keep the totals without them: after a
reset or a restart they begin anew while subsystems are still queued, and a bump of a
subsystem that is in the background and cannot pause (SSevac is) counts it in front.

`TransitIsTheLaunch` adds `OneLaunch` to the invariant and needs `Prompt` (no
warmup, not an overmap shuttle): with a warmup, `shuttle_parallel` violates it.

**Processing.** `EachOnce` assumes `OneList`: one list, no list that things leave
without the wrapper, no double kills. The invariant is `Types /\ Content /\
Position`: each thing at most once in the list and marked as such; the index
between 0 and one past the end; left of it seen once, right of it not; the
thing in `Process()`, if it has not left, right before the index. `RemoveAtIs`
says what taking an element out does to the positions of the others.
`ListsAgree` needs neither: `ContentInv` says nothing of the index but that what
was passed is no longer in the list, and every operation keeps that.
`ServerProofs` instantiates these proofs for the four lists of the machines.

**Garbage.** `GarbageInv`: what is owed waits in the prequeue, once and marked as
pending, or in a queue under the time it is known by (`Queued`); the queues are in
order, with each reference once (`InOrder`); what does not exist is not destroyed.
The last is why a reference that is used again finds no entry that passes for its own:
an entry's time is positive and the mark of a new datum is not. A fire handles any
number of entries in one step of the model; `MovedFirst` and `HandledFirst` say what
holds after the first n of them, and `LeastNat` leads from one entry to the next.
`DeletesDestroyed`, an action property, follows from the same lemma.

**Timers.** `next` and `prev` only represent a ring, and nothing says that following them
from a bucket's first timer comes back to it. The invariant (`TimerInv`) has a witness:
the ring of each bucket as a sequence, `R` (`Rings`, `IsRing`), ascending in the order
the timers were made, because a new one goes to the end and a shift keeps their order.
`RingIs` says that `ring` finds it, `RingGrows` and `RingShrinks` what `linked` and
`unlinked` make of it; `LinkedIs`, `DestroyedIs`, `CreatedIs`, `ShiftIs` say the same of a
whole subsystem. What `fire()` needs is that those that ran are in front of one ring,
the one it is at (`SpentInFront`), and that all before its static `timer` have run
(`Reached`): then the bucket it empties has none that waits, and the ring of any other
bucket has none that ran. A shift is a loop over all timers: `Placed` says what holds
after the first n. At the end of `fire()` no ring may have a timer that ran
(`TimerDoneKeeps`), since `Destroy()` of one that ran leaves the bucket as it is.

**NanoUI.** `WindowAgrees` is about rest; the invariant (`Agree`) is about any moment,
with messages on their way. Its witness is whose window it is after each of them
(`Owners`): an open ui has it after the last, with its on-close command, or its closing
is on the way to the server (`Ends`), and none comes upon the window of another.

**NanoPage.** `PageInv` has the types, the stages of the initialisation in their
order (`Stages`), which templates are loaded in which (`Loaded`), and what is on
the screen against the version it was rendered from (`Screen`). The invariant
`PageShows` speaks of initialised pages only; the stages before are what makes
it true at the moment the last template arrives.

**jQuery.** `ReadyInv` counts the holders in `readyWait`; `TimersInv` relates the
intervals that run to the records in the data, for elements whose data has not
been dropped; `WhenInv` has `remaining` as the number of subordinates that have
not succeeded, which with finite cardinalities gives the moment of the master.

A callback list (`CallInv`): while it fires, each callback of the fire that is still
there has a place in the list, and has been called once if that place is before
`firingIndex`, or is at it while it runs, and else not at all (`HearsOnce`). What
`remove()` does to the places is `Place`, with a lemma that those that stay keep their
order (`PlacesGrow`), so that the index moves over none of them. For the order of the
fires the invariant has them numbered: the latest call, what is remembered, the fire
that runs and those in the stack come in this order (`OneAfterOther`).

Of the operations on a callback list there are lemmas that say what they do to one
(`AddIs`, `FireWithIs`, `FinishIs`, …), and deferreds are proved from these alone. The
invariant (`DeferredInv`) says in which of three phases a deferred is. `Unsettled`: the
two final lists hold the deferred's own three callbacks and then what was added.
`Settling`: the own callbacks run, nobody else's code does, and the place in the list
says which of the state, the other list and the progress are still as before. `Settled`:
the other list is shut, and what the list has still to call is what was added and has
not heard (`Telling`), or the list rests and all have (`Rested`). The middle phase is
what makes it inductive: the other list is shut one step after the state is set. `Nested`
says whose turn it is, the lists that fire being a stack without repetitions, which is
why no handler's code comes between those callbacks. Each action's lemma gives the
invariant, the step of `Promise` (or none) and the end of the progress's news together.

`PlaceIsTold`: what is kept is right for its run; counting on from the kept place
is counting from the start (`CountsOn`, by the cardinality of a disjoint union).

Events: of the data of an element there are lemmas that say what each operation makes of
it and that nothing else changes (`DataPutIs`, `RemoveDataIs`, `DiscardIs`, `CleansIs`).
They need more of the ids than `IdsAreOwn` says (`IdsOk`): each one below the next new one is in
use or waits to be used again, never both, so that there is an id for every element and a
new one is nobody's. `HandlersOk` tells handlers apart by their numbers. What makes `EventsAgree`
inductive for an event on its way is `Pending`: whoever is in its queue is bound where
the event is or noted as removed since, and was not removed when the event came there.
Whatever a step does to handlers, it only has to note what it takes away (`Noted`) for all
events under way to stay in order, also those further out. For `one()`, what
runs is noted already, so it is in no queue of an event inside (`NotAgain`).

**Chat.** The list (`ListInv`): the entries, each as often as its counter says, are the
end of what was told (`Kept`); a combined message adds to the counter of its entry and
to the end of what was told, and a dropped entry takes the first ones off.

**Dragging.** Each function of a widget has a lemma that says what it makes of all that the
library keeps (`UpDoes`, `StartDoes`, `DragDoes`, `MoveDoes`, `DownDoes`), and the event is
heard by one widget after the other (`EachDone`, with `LeastNat` from one to the next). The
invariant (`DragInv`) has each widget in order (`InOrder`: its press, its bindings, its
drag, what is dragged about and whether it is to go agree) and one of them at most bound,
which holds `mouseHandled` (`Orderly`); it is that flag which keeps the widgets outside
away from a press in the middle of the event. `ClickIsHeard` needs `ClickKept`: what is
kept for a click is for the one to come, at the place of the drag, or for a widget that no
longer hears any. That is false after a release elsewhere than where the press was, or one
that the next move or press makes up for: then there is no click, and what was kept waits
for a later one (`stale`). `PlacedInside` is arithmetic: `Math.round()` is off
by half a step at most, and one step more from below the edge stays within one.

Only model-checked: all liveness and every property with liveness in it (`TellsEveryone`,
the fairness of `Promise`, among them); effects and
requests; the menus, settings and media of the chat; `ChatDelivers`; and templates,
selectors and converters, which are recursive operators the prover cannot be used with.

## 7. Where code and comments disagree

* Run `shuttle_parallel`: a cancelled launch leaves its jump asleep in the warmup;
  a relaunch within it makes both fly. The comment in `shuttle_autodock.dm:86`
  says jumps cannot run in parallel. `TransitIsReal` shows what saves the
  shuttle: only one of them gets into the transition area.

* Run `timer_paused`: when `fire()` was paused in the middle of a bucket and the
  tick is over as soon as it resumes, it skips its loop (`timer.dm:57`) but still
  deletes the timers that ran (88-93), which unlinks the first of the bucket from
  its ring and leaves the bucket pointing at it. The timers that wait there are
  no longer found from the bucket, though "each bucket holds every timer that has
  to run that byond tick" (18). The walk goes on at its static `timer` but looks
  for a first timer that is gone, so it need not come to an end, and a shift of
  the buckets loses those timers. `MC_TICK_CHECK` can be true then because the
  limit of the tick is rounded down (`master.dm:455`). The model lets it come true
  at any point, in the runs and in the proofs; the history `late` says that it
  happened in the middle of a bucket. `BucketsHold` and `TimersRun` ask for right
  places and order until then; what they say of types, hashes and of no timer
  running early holds after it too.

The rest was met while modelling and has no run of its own. The model does what
the code does; where a property would fail because of it, its condition says so.

Server:
* A launch pressed while the docking handshake is not finished calls `undock()`
  in vain and nothing repeats it; the console says "will depart shortly".
* `process_arrived` docks at `next_location` although both moves of the jump may
  have failed.
* The bump of `RunQueue` changes the wrong running total for SSevac, which is in
  the background and cannot pause.
* A thing that stops itself and returns `PROCESS_KILL` moves the index back twice
  (`blob.dm`, `mob_grab.dm` do); in SSmachines the wrapper compares a thing's
  place in its own list with the index of another.
* A `CRASH` in the timers' `fire()` leaves those that ran in `spent`, and the next
  `fire()` takes them off `bucket_count` although `shift_buckets()` had counted
  afresh; the count is only shown.

Pages:
* `nano/templates/ritual_book.tmpl:37` loops over `value.phrases` inside a loop
  (line 25) and names neither, so both have the same index: rituals are left out
  or shown for ever. `AsWritten` is stated of templates whose nested loops have
  names of their own, as all the others have.
* `removeHelper` (`nano_template.js:134`) uses a name that is not defined;
  `displayBar` of an empty range is NaN %; `displayDNABlocks` sets a global `index`.

Chat:
* A page's report that comes after the player has reconnected makes the server
  send to a page that does not listen yet (`browserOutput.dm:23-42`).
* A message that is combined still drops the oldest entry at the limit
  (`browserOutput.js:352-391`), and so does counting after a clear (1109).
* Volume 0 is never told to the server (624-629); music without an end keeps the
  one of the song before (577-580); two pings on the way show the wrong time; the
  second of two highlight popups cannot be submitted (1051).

jQuery and its plugins, as shipped here:
* `abort()` in `ajaxSend` runs `done()` twice although it says `// Called once`
  (`jquery.js:9221`) and lowers `active` twice; the late script of an aborted
  jsonp request answers the next that has its name; an exception in a callback
  leaves `active` raised.
* A one-time interval lives until its second tick; data that is dropped leaves
  its intervals running; the same timer added again before that is ignored
  (`jquery.timers.js:85-97`).
* `stop(true, true)` and `finish()` splice `timers` after functions that may have
  changed it (7546-7552, 7585-7590); `stop(true)` in a `delay()` lets the old
  timeout dequeue the new queue (7524-7544); `stop()` in `complete` dequeues
  twice; `fadeToggle()`, `stop()`, `fadeOut()` shows the element (7239-7250).
* `finish()` says "empty the queue first" and only stores an empty list (7577-7578):
  after `delay()`, `promise()`, `finish()` the timeout is cleared, nothing dequeues,
  and the promise "resolved when queues of a certain type are emptied" (4087-4088) waits
  until something else is queued; the hooks stay behind.
* A `one()` handler may run twice if it is triggered from a handler before it;
  `triggered` is reset by a nested trigger.
* Draggable: `cancel()` in `start` is too early to be of effect; a `cancel()` of
  another widget that reverts lets a second one begin; a `stop` handler that
  returns false keeps the helper; the delay is not cleared by the release; a
  swallowed click may be a later one; a grid may end short of the right edge by
  less than one step (2155-2162).

## 8. What is not modelled

The ports behind docking programs; ferries, the evacuation controller and pods;
the failsafe's defcon levels (its restart is in `Scheduler`); votes, ticker:
planned (section 9). Of the timers: those of the client's time, which nothing asks
for, `Recover()`, and `bucket_count`, which is shown only. Of the garbage:
`purge()` and other debugging verbs, statistics, `Recover()`, and the recovery of a
handler that a runtime interrupted. Shuttle turf translation and radio filters:
no state the properties could tell apart. Atmospherics and power flows: numeric
simulation over maps, of which no small instance shows anything. Game content
(mobs, items, chemistry, …): sequential rules on single objects. Maps and
assets: data.

Of the modelled client parts: the map view of NanoUI and the callbacks of its
other states; highlighting inside a message, saving the log and the ban check of
the chat; `then()` of deferreds; urls, headers and caching of requests; special
events other than focusin and default actions; easing and the values of css
properties; positional, `:has()` and XML selectors and the native
`querySelectorAll`; stacks, snapping and scrolling of draggables, sortables. A
containment is an interval, so the window, the document and paddings are not
told apart. The text of expressions, of selectors and of messages is not
parsed. `roundrestart`, which the page knows (`browserOutput.js:533`) and no code of
the server sends, with the connection notices it would hold back (711). `stopTime()`
without a label but with a function.

Simplified where no property could tell: a shuttle always has the docking controllers
its docking calls need (`shuttle_autodock.dm:78`, `83`); `spawn(0)` is one turn; nobody
holds `ready()` back after it came or releases it before anything asked for it, and
the scroll check ends with the events it stands in for (`Ready`); a containment the helper does not fit
into leaves `onGrid` one step from the edge and not beyond it (`jquery-ui.js:2161`); a
`stop` handler that is called because a `drag` handler returned false does not
return false itself.

The rest of jQuery and jQuery UI (css, attributes, manipulation,
dimensions, support tests) are conversions of one value into another.

## 9. Plan

Done: `DockingLink`, `Docking`, `Shuttle`, `Scheduler`, `Processing`, because the
docking and shuttle machinery has the most actors and the scheduler runs
everything else; the client, from both ends: NanoUI and the chat with their
servers, and what they are built on; `TimerSubsystem` and `Garbage`, whose
state outlives a pause.

Next:
1. `DockingPort` (simple controller, airlock door) under `Docking`: door memory
   against the real door, with `close_door` trusting a stale status; then the
   airlock program and the multi-airlock master and children, which should
   refine one port.
2. `Evacuation` with `Ferry` and `EscapePod` over `Shuttle`: states, recall,
   autopilot, pods that stay.
3. `Failsafe` beside `Scheduler`, with the defcon levels and the deletion of a
   failing subsystem; an abstract queue (a sequence ordered by class and
   priority) that the linked list implements.
4. `Vote` and `Ticker`.

Proofs to come: `NeverOlder` of the page; the invariants of the new modules.
