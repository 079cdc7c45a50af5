# Verification of client.py (deebot_client)

TLA+ specifications of `deebot_client`, the asyncio client for Ecovacs cleaning
robots, with model-checking configurations for TLC and proofs checked by TLAPS.
File paths below are relative to the repository root.

The library runs in one asyncio event loop. There are no threads: code runs
without interruption from one `await` to the next, and everything that is hard
about it comes from what may happen at an `await`, from tasks and timers that
are created now and run later, and from a broker, a REST service and a robot
that fail, answer late or not at all.

## 1. Inventory

| Component | State it keeps | Operations | Interacts with |
|---|---|---|---|
| Event bus (`event_bus.py`) | per event class: subscribers, last event and its time, pending debounce timer, refresh semaphore, on-subscription callbacks; the set of its tasks | `subscribe`, unsubscribe, `notify`, `request_refresh`, `add_on_subscription_callback`, `teardown` | everything that parses a message notifies it; the device and the map subscribe to it; refresh executes commands |
| MQTT client (`mqtt_client.py`) | `_mqtt_task`, `_subscriptions`, the queue of changes, the connection of the task | `subscribe`, `connect`, `disconnect`, callback on changed credentials, the `mqtt()` task and its worker | authenticator (credentials, callback), devices (subscriptions, messages), the broker |
| P2P command cache (`mqtt_client.py`) | commands awaiting an answer, by request id, 200 entries and 60 s | `_handle_p2p` | MQTT messages, set commands, the event bus |
| Device (`device.py`) | `_available_task`, `_last_time_available`, running tasks, `_unsubscribe`, a semaphore of 3 | `initialize`, `teardown`, `execute_command`, the availability worker, `_handle_message` | MQTT client, event bus, commands, map |
| Authenticator (`authentication.py`) | credentials, lock, refresh timer, callbacks, tasks | `authenticate`, `verify_device`, `subscribe`, `post_authenticated`, `teardown` | auth client; commands, API client and MQTT client ask it for credentials |
| Auth client (`authentication.py`) | the cached public key | `login`, `verify_device`, `post` with retries | the REST service |
| API client (`api_client.py`) | none | `get_devices`, `get_product_iot_map` | authenticator |
| Command execution (`command.py`) | the arguments of a command | `execute`, `_handle_response`, p2p handling | authenticator, event bus, further commands |
| Message handling (`message.py`, `messages/`) | the set of already logged failures | `handle` and its wrappers, `get_message` | device, event bus |
| JSON and XML commands and messages | none, or what one handler remembers | one parser each | event bus |
| Map (`map.py`) | map pieces, subsets, rooms, positions, trace, rotation, changed flag, last SVG | subscriptions to map events, `refresh`, `get_svg_map`, `teardown` | event bus (MapChangedEvent is notified by it and hooked by it), commands, the Rust map |
| Rust map (`src/map/`) | map pieces with their CRC, trace points, map outline | piece update, point decoding, SVG path, view box | map |
| Capabilities and hardware tables | static tables | `get_refresh_commands`, `get_static_device_info` | event bus, device |
| Utilities (`util/`) | sets of tasks, change-notifying dict | `create_task`, `cancel`, `OnChangedDict` | all of the above |
| Events, models, constants, logging filter, continents, scripts, CI | none | | |

What is hard, and what makes each component correct:

- **Event bus.** A value is replayed to a new subscriber, is not sent when it is
  equal to the last one, may wait in a timer, and is delivered by a task that
  runs later. Correct: a subscriber never keeps a stale value, the last
  notification wins, nothing is postponed for ever, a requested refresh takes
  place, an on-subscription callback is in force exactly while it should be.
- **MQTT client.** Connections end at any time, calls overlap at their awaits,
  and cancelling a task is itself an await. Correct: one connection at most,
  it carries every subscription again after each reconnection, no request is
  lost, `disconnect` disconnects, calls return.
- **Authenticator.** One login at a time; a refresh before the expiry; no timer
  or task after teardown; callers never get expired credentials.
- **Device.** Unavailability is reported when the robot does not answer and
  withdrawn when it does, although both are found out concurrently; at most
  three commands run; initialize and teardown are inverse.
- **Map.** Rooms and subsets follow the announced sets in whatever order the
  messages come; the cached picture is never taken for current when it is not.
- **Commands and messages.** Every failure ends in a handling state and never
  in an exception in the caller; what a handler requests is executed once.
- **Rust map.** Pure functions that agree with a reference definition on every
  input, empty and extreme ones included.

`PROJECT.json` lists each of these hazards at its line, with the property that
covers it or the reason why none does yet.

## 2. Modules

| Module | Models | Role |
|---|---|---|
| `EventBus` | `event_bus.py` | component |
| `Register` | | abstract specification that `EventBus` implements |
| `MCEventBus`, `MCEventBusMap` | | instances of `EventBus` for TLC |
| `QueueFacts` | | two lemmas on queues, used by the proofs |
| `EventBus_proofs` | | theorems about `EventBus`, the refinement of `Register` among them |
| `MqttClient` | `mqtt_client.py` without message dispatch | component |
| `MCMqttClient` | | instances of `MqttClient` for TLC |
| `MqttClient_proofs` | | theorems about `MqttClient` |
| `Authenticator` | class `Authenticator` of `authentication.py` | component |
| `Authenticator_proofs` | | theorems about `Authenticator` |
| `Device` | `device.py`, and `Command.execute` as a job | component |
| `MCDevice` | | symmetry of the instances of `Device` |
| `Device_proofs` | | theorems about `Device` |
| `P2PCommands` | `_handle_p2p`, the p2p side of `SetCommand` and `ResetLifeSpan`, refreshes of a setting | component |
| `Setting` | | abstract specification that `P2PCommands` implements |
| `P2PCommands_proofs` | | theorems about `P2PCommands`, the refinement of `Setting` among them |
| `Hardware` | `hardware/*.py` | the tables |
| `Capabilities` | `capabilities.py` | what follows from a table |
| `Handling` | `message.py`, `command.py` | outcomes of handlers and answers |
| `JsonMessages`, `JsonCommands` | `messages/json/`, `commands/json/` | one definition per handler |
| `XmlMessages`, `XmlCommands` | `messages/xml/`, `commands/xml/` | the same |
| `Protocols` | `messages/__init__.py`, `commands/__init__.py` | the two behind one interface |
| `Refresh` | `_call_refresh_function`, `Device._execute_command`, `Command.execute` | tables, commands, handlers and slots composed |
| `MCJobs` | | what `Refresh` is run with: derived from the tables |
| `RobotState` | the handlers of the state, `Clean`, the StateEvent of the bus | component |
| `MapSets` | walls, zones and rooms of `map.py`, with their commands | component |
| `MapPieces` | the background and `get_svg_map` of `map.py`, `MapPiece` | component |
| `MapTrace` | the trace of `map.py`, `GetMapTrace`, `TracePoints` | component |
| `MapLines` | `points_to_svg_path`, outlines and areas | algorithm |
| `MapPixels` | `BackgroundImage::generate`, `calc_point`, `ViewBox` | algorithm |
| `MCRobot` | | instances of the modules from `P2PCommands` on, side by side |
| `Robot_proofs` | | theorems about `Refresh`, `RobotState` and the composition |
| `Map_proofs` | | theorems about `MapSets`, `MapPieces`, `MapTrace`, `MapLines` and `MapPixels` |

`EventBus`, `MqttClient`, `Authenticator` and `Device` stand alone: what one does
to another is an action of the environment there (a change of credentials in
`MqttClient`, a caller of `authenticate` in `Authenticator`, a subscription that
fails in `Device`). The modules of what is shown of a robot compose several
components each: `P2PCommands` the MQTT client, commands and the bus, `Refresh`
tables, device, commands and messages, `RobotState` commands, messages, the bus
and the robot, the map modules commands, the bus, `map.py` and the Rust side.

### EventBus and Register

An action is one call of the bus, or one task or timer of its event loop; each
is the code between two awaits. `subscribed`, `lastEvent`, `elapsed` (for
`last_event_time`), `timer` (for `notify_handle`), `refreshing` (for
`semaphore`) and `unsub` are fields of `_EventProcessingData` and
`_OnSubscriptionCallback`. `inbox`, `refreshTasks`, `hookTasks` and
`hookRunning` are the members of `_tasks`, sorted by what they are going to do.
`seen`, `notified` and `active` are observers: they record what a callback was
run with, what `notify` was called with and which hooks are in force, and no
action reads them.

An event is a value; equality of events is equality of values. The classes are
a constant, so the two that `notify` treats specially, `StateEvent` and
`AvailabilityEvent`, can be present or absent. A subscriber's callback is not
modelled beyond having been run with an event. Time advances in ticks; a due
timer runs before the next tick. Tasks to one callback start in the order they
were created, as asyncio's ready queue has it; the order between unrelated
tasks is left open.

Bounds: `MaxDeliveries`, `MaxRefreshes` and `MaxCalls` limit the tasks of one
kind that wait, in the guards of the calls that create them. Two waiting
deliveries are enough for a replay and a notification to meet, two calls of a
hook for a check-then-act race. `LongAgo` caps `elapsed` at a value that is
older than every debounce window.

`Register` says what all this is for, without tasks, timers, hooks and
refreshes: a class is a register. What is written is shown at once, or later
(`CatchUp`), and then it is the last value written; a value equal to the one
shown is not shown again; whoever joins finds the value shown, and reads it and
every change after it in order and once. Only closing the register loses
something. `Kept` is the rule of `notify` that a docked robot which is reported
idle stays docked. In the mapping `notified` is what was written, a timer that
is set (`Waiting`) a value that is postponed, `inbox` what is unread. The
requests that a recovery makes, hooks, refreshes and time are stutters.

### MqttClient

An action is the code between two awaits of a call or of a task. A call
(`connect` within `subscribe`, `disconnect`, the callback on changed
credentials) is a record in `call`: it is in `authenticate()` or waits for the
task it has cancelled. Tasks have identities, because `_mqtt_task` can be
replaced while the old task is still referred to; a task goes from connecting
to replaying `_subscriptions`, to running, and to waiting for the next attempt
when the connection is lost. The worker holds at most one `change` it has taken
from the queue. `wanted` and `stopped` are observers.

The three topics of a device are one, the credentials are left out (a change
of them is the action `CredentialsChanged`, enabled at any time: a login of
anybody triggers it), and received messages change nothing here.

`Orphan` and `Overtaken` name what can go wrong between calls: a live task that
`_mqtt_task` does not refer to and nobody has cancelled, and a call that still
waits for a task while another has put a new one in its place. The code excludes
neither, so the properties say what each can come from and what holds without.

Bounds: `TaskIds` are reused once nothing refers to them; `MaxQueue` limits the
queue; each call in progress keeps an identity and a place in the queue, so
that a bound never blocks a call halfway. Three identities hold the old task,
the one that replaces it and an orphan.

### Authenticator

An actor is a caller, or the task `async_refresh`; each waits for `_lock`, holds
it during a login, or does neither. `Enter` looks at the credentials once the
lock is held, as `authenticate` does; `Succeed` contains all of
`_set_credentials`, `Fail` an exception of the login, `Cancel` a caller that is
cancelled in either place. `timers` are the pending `call_later` of `refresh`,
by the ticks that are left, and `handle` is `_refresh_handle`: a timer is
identified by when it fires, which suffices because two that fire in the same
tick would have to be created in it, and the second creation cancels the first.
`tasks` are the tasks of the callbacks that have not started. `told`, `owed`,
`unattended` and `quiet` are observers.

A tick is less than 1 % of the validity and longer than a refresh takes: the
refresh is due in the last tick, `RefreshAfter = Validity - 1`, and time does not
go on while it is in progress. A refresh that takes longer than the remaining
1 % is therefore outside the model. Credentials are identities that are reused
once nothing refers to them. `verify_device` and `authenticate` with `force`
differ in the requests they make and not in what they do to the state.

### Device

A job is one `_execute_command`, or the task group of the commands one message
requests; it waits for the semaphore, runs, and ends. `source` tells who
created it: the availability check, a message, or anybody else. `worker` and
`nap` are `_available_task` and what is left of its sleep, `age` the ticks since
`_last_time_available`, `owned` is `_running_tasks`. teardown is the actions
`BeginTeardown`, `EndTask` and `ContinueTeardown`, one per await: `stopping` is
the task it has cancelled and awaits, `todo` what is left of the copy of
`_running_tasks`. The environment is `alive`: whether the robot, and the service
that relays to it, answer. It may change at any time.

`Jobs` bounds the commands that exist at once; `Spare` keeps identities for the
next check, so that the bound never holds up the worker. `Overlapping` says
whether `initialize` and `teardown` may be in progress together: the tests
(`tests/test_device.py`) call one after the other, and the run assumes it.

### P2PCommands and Setting

Another app's request to a robot and the robot's response reach the client as
copies in one queue (`inbox`); `Ask`, `LoseRequest`, `Obey` and `Refuse` are the
app, the broker and the robot. `HandleRequest` and `HandleResponse` are the two
branches of `_handle_p2p`: `received` is `_received_p2p_commands`, the `TTLCache`
of 200 entries and 60 s, which loses its oldest entry when it is full (`Keep`)
or too old (`Expire`). `Confirm` is `SetCommand._handle_mqtt_p2p` or, for the
robots in `resettable`, the refresh that `ResetLifeSpan` requests; refreshes of
the bus (`due`, `reading`) read the same setting. `had`, `dropped` and `missed`
are observers.

`Setting` is the promise to a reader of the bus: it sees nothing or a value the
robot has had. The refinement maps `had` and `shown` to themselves; requests,
copies, the cache and refreshes are the detail it hides.

### Hardware to Refresh

`Hardware` has for every supported model which event is read with which
commands, which settings and actions exist and which consumables are offered;
`Capabilities` has the walk of `Capabilities.__post_init__` over them. In
`Handling` a handler is the set of its outcomes: the events it notified before
it returned or raised, its state, and the commands it requests.
`JsonCommands`, `JsonMessages`, `XmlCommands` and `XmlMessages` have one definition
for each handler or group of handlers of one shape. `Protocols` finds the
handler of a message name, the legacy way included, and has what `Command`
makes of an answer, an error answer and no answer.

`Refresh` is a step-by-step composition: a job is a refresh, a command of the
user, a message, or a response to somebody's set command. Its commands wait for
a slot (`waiting`, `holders`), are answered in any order, and the commands their
handlers request are executed inside them (`pending`). `MCJobs` derives the jobs
from all tables; models whose commands agree on everything the handlers look at
have the same job.

### RobotState

`doing` is what the robot does, `info` which commands the model's table reads the
state with. `GetChargeState`, `GetCleanInfo`, `OnWorkState`, `XmlChargeState` and
`CleanReport` are the handlers, content by content; `Notify` is the treatment of
`StateEvent` by the bus. A refresh puts two commands in `asked`; the robot
answers at any time with its state of then, the answers are handled in any
order, and its own messages (`pushes`) come in between. `Clean` reads the last
state, decides between start and resume and arrives later (`Obeys`).

### MapSets, MapPieces, MapTrace

`read` says with which command the model reads a set, whose handlers differ
(`HandleSet`, `HandleWholeSet`, `HandleNamedRooms`). `kept` is `_map_subsets` (or
the rooms), `rooms` the last `RoomsEvent`; `lastSet` and `lastSubset` are the last
events of the bus, which withholds equal ones. `MapPieces` has the checksum of a
piece by its content; `image` is `_last_image` by the pieces it was drawn from,
`changed` the flag. `MapTrace` has the trace page by page. In each the answers are
of the time they were given, may overlap with those of an earlier refresh, and
may fail; `disturbed`, `skipped` and `learned` are observers. `Listen` and `Cease`
are the hook `_on_first_map_changed_subscription`: on listening again the bus
replays the last events.

### MapLines and MapPixels

An SVG path is a sequence of numbers, each with the mark written before it: a
letter, a space or nothing; digits and rounding are left out, coordinates are
integers. `Path` is the path after each point. The reference is a reader of SVG
(`Read`, `Reading`), with implicit repetition of commands and numbers that are
only kept apart by a sign. `MapPixels` has the
formulas that place pixels, positions and the trace, in millimetres so that
they stay integers; the reference is the order of pieces and pixels as the
comments in `background_image.rs` describe it.

## 3. Runs

| Run | Question | Instance |
|---|---|---|
| `bus_map` | Does a subscriber ever keep a stale value, does a postponed event overtake a later one or wait too long? Are on-subscription callbacks run once and in force for first subscribers? Is the class a register (`BusIsRegister`)? | one debounced class, two values, two alike subscribers, debounce 2; or two subscribers, one plain and one suspending hook |
| `bus_state` | The same for the two classes with rules of their own; is everything emitted, refreshed and seen in the end? | `StateEvent` (debounced) and `AvailabilityEvent`, one subscriber |
| `bus_first_hook` | Does the docstring of `add_on_subscription_callback` hold? | one subscriber, one hook: it does not |
| `mqtt_sequential` | With one call at a time: does every connection carry every subscription? | two devices, three task identities, two queued changes |
| `mqtt_liveness` | Does a lost connection come back, is a queued change taken? | one device, one caller |
| `mqtt_concurrent` | Do overlapping calls return? Can a task be left to nobody, or `disconnect` return with a task left, in any other way than by a call that was overtaken at its await? | one device, two callers |
| `mqtt_still_connected` | Does `disconnect` disconnect when a change of credentials overlaps with it? | two callers: it does not |
| `mqtt_lost_change` | Is a subscription that was asked for remembered? | one caller: it is not |
| `auth` | Is there one refresh at most, in time; do waiting callers share a login; are callbacks told of the newest credentials; is teardown final; do calls return? | two callers, one callback, validity 3 |
| `device` | Is a device watched exactly while it is subscribed; do checks belong to their worker; are silence and return of the robot reported? | three jobs, two slots, two commands per check, interval 2 |
| `device_forgotten` | Does teardown stop every task? | two jobs: it does not |
| `robot` | Is what is shown of a robot true when all is quiet? Eight parts, one per behaviour | see below |

All runs check for deadlock. Symmetry is declared only for sets whose members
are interchangeable, and never in a run with a liveness property.

The bounds let every hazard of the component happen: two waiters for the lock
while a third actor holds it, a timer that fires while a login is in progress, a
check that waits for a slot behind a foreign command, a teardown with the worker
and a message's task to stop. `mqtt_liveness` has one device because the model
replays subscriptions in any order; with several the broker could break each
attempt before the one it did not break last time.

The run `robot` looks at one part of `MCRobot` per behaviour; the parts share no
state, so nothing is lost by not interleaving them, and one run serves all:

| Part | Properties | Instance |
|---|---|---|
| `setting` | `FollowsRobot`, `NeverShownUnconfirmed` | one robot, two values, two requests on their way, a cache of one: the second request evicts the first |
| `tables` | `ServedWhenAnswered`, `NeverStuck` | every job of every model; one slot, which is where a job could wait for itself; one subset or two; a trace of two pages |
| `state` | `RefreshTellsTheTruth`, `CleaningBegins` | one move of the robot, one message on its way |
| `sets` | `KeptIsRepaired`, `RoomsReported` | two ids, two contents, one change after any beginning |
| `pieces` | `PiecesRepaired`, `PictureIsCurrent` | two pieces, two contents, one change |
| `trace` | `TraceComplete` | two runs of the robot, two pages, three drawn |
| `lines` | `PathDrawsPoints` | four points with coordinates from -1 to 1: the least that has a line, a gap and the same line again |
| `pixels` | `PartsMeet` | two by two pieces of three by three pixels, two of them drawn |

The robot may begin with any map, trace and state, and the client with any state
shown; what the map keeps from before comes from refreshes that failed, overlapped
or were heard by nobody, any number of them. One change or move is then enough
to race a refresh at each of its steps, and to leave what is kept out of date
before the next. `MCRobot` assumes that `None` is told apart from pages and sets of
ids, and that the picture has a middle: the code's has 8 pieces of 100 pixels
(`background_image.rs:37`), and with an odd side background and positions would be
a pixel apart.
`disturbed` excuses a refresh only for what happens while it is in progress, not
for anything before it: every part can be repaired from whatever went wrong. `TableAssumption` is about the tables and
explained in section 4.

The four runs that expect a violation are findings, described with their
documentation in `PROJECT.json`:

1. a class that has an event before its first subscriber never runs its
   on-subscription callbacks (`event_bus.py:105`);
2. `disconnect` races a change of credentials: while it waits for the task it has
   cancelled, the callback creates the next, to which `_mqtt_task` then refers,
   and `disconnect` returns with that one connecting (`mqtt_client.py:176`);
3. a change of subscriptions that is in the hands of the worker when the
   connection is lost is forgotten (`mqtt_client.py:264`);
4. teardown of a device forgets a task that a message creates while it awaits
   another (`device.py:156`).

More was met while modelling and has no run of its own, because nothing in the
repository says otherwise or because the properties name it as an exception:

- Two calls that each create an MQTT task and wait for the same old one (two
  first `subscribe`s, or one and the callback on changed credentials) both do so:
  the second assigns `_mqtt_task` over the task of the first, which lives on and
  which no `disconnect` stops (`mqtt_client.py:245`). It is the exception that
  `OrphanByOvertaking` names.
- A robot may be told to resume what is no longer paused, or to start what is,
  and ignore it: `Clean` decides on the last `StateEvent` before the request is
  awaited (`clean.py:36`).
- With an on-subscription callback that suspends, a second run can begin before
  the first has stored its undo function, which is then lost (`event_bus.py:36`).
  The only callback of the repository does not suspend (`map.py:115`).
- A subscriber that leaves before the task of the hook has run leaves the hook
  in force for nobody (`event_bus.py:40`).
- An `initialize` during `teardown` leaves a device subscribed without a worker
  (`device.py:141`; set `Overlapping` to `TRUE` in `Device.cfg`).
- `_state` of `Device` is read at `device.py:77` and never assigned after line 60,
  so a position requests a refresh of the state even while the robot is docked.
- `SetCutDirection` and `GetCutDirection` are missing in `_COMMANDS` of
  `commands/json/__init__.py`: another app's change of it is not followed. XML
  `SetCleanSpeed` and `SetAutoEmpty` are not followed either.
- Four models offer consumables they do not ask for (`9eamof`, `mxse7w`,
  `n0vyif`, `c8rj4y`); `2pv572` never reports rooms or a trace.
- XML: while the robot returns, one of its two answers says so and the other says
  idle (`charge_state.py`, `clean.py`): the later one is shown. Charge state code
  "3" means a robot that is stuck and is notified as docked
  (`commands/json/charge_state.py:45`). A robot that rests off its dock after
  DOCKED stays shown as docked (`event_bus.py:131`).
- The P2P cache is keyed by the request id alone; `SetVolume` drops `maximum`, and
  `SetWaterInfo` with nothing but a sweep type raises.
- What the bus withholds as equal to the last event does not reach the map: a
  wall that was removed and drawn again in the same place, a major map that
  equals the last one and would ask again for a piece that failed. A repeated
  last event on listening again can bring back a cleared piece and draws the
  last page of the trace once more, each time.
- A piece that a major map clears does not set the flag that a new picture is
  due. `RoomsEvent` is not notified when rooms were only removed.
- A wall of fewer than two points panics in `mod.rs:71`; a background whose
  pixels are all in the first column or the top row counts as none
  (`background_image.rs:95`); the background is not turned by the rotation, which
  turns all the rest.
- Credentials without an expiry are given 7 days divided by 1000
  (`authentication.py:177`).

`InitializedIsWatched` therefore holds only while `initialize` and `teardown` do
not overlap, which is what its run shows, and `ConnectionCarriesSubscriptions` only
while no call of the MQTT client is overtaken.

### Fairness

`EventBus!Fairness` is weak fairness of every task and timer and of time: the
asyncio loop runs what is ready. Nobody is obliged to call the bus, and a
refresh may hang. `MqttClient!LoopFairness` says the same of cancellations,
resumptions and `authenticate()`, whose requests time out after 60 s.
`BrokerFairness` adds that an attempt made for ever succeeds in the end: strong
fairness of connecting, of each subscribe and of the worker. It is an
assumption about the broker, not about the code, and only the run on
reconnection uses it. `Authenticator!Fairness` lets every login end, because its
requests have timeouts, and every waiter get the lock at some time, because
`asyncio.Lock` serves its waiters in order; that is strong fairness of `Enter`,
since the lock is free again and again and not all the time. `Device!Fairness`
treats the semaphore the same way (`StartJob`); the worker, the end of a
command, of a cancelled task and of a check, and time are weakly fair. Nobody
is obliged to send a message or a command. The run `robot` assumes no fairness:
its properties say what holds whenever a refresh has ended, not that it ends.

## 4. Proofs

`EventBus_proofs` proves, for every set of classes, callbacks and hooks, every
debounce time and every bound:

| Theorem | Statement | Argument |
|---|---|---|
| `TypeCorrect` | `Spec => [](TypeOK /\ HookOwned)` | `TypeOK` is not inductive alone: undoing a hook decrements a counter, which stays a natural number because a hook with `unsub` set is in force (`HookOwned`) |
| `IsRegister` | `Spec => BusIsRegister`, that is `Promise!Spec`: the refinement of `Register` | `PromiseInv`: the event of a timer is the last one notified (`TimerIsLast`), on every class and in every phase, and `Emit` ends the timer of its class; then `EmitShows` makes each emission a `Show`, and `PromisedStep` finds for every action its step of `Register` or the stutter |
| `UpToDate` | `Spec => []SubscribersUpToDate` | inductive with `TypeOK`; `EmitUpToDate` treats the skipping of equal events, `LastOfTail` a delivery |
| `LastWins` | `Spec => []LastNotificationWins` | inductive with `TypeOK` |
| `InTime` | `Spec => []PostponedInTime` | inductive with `TypeOK`: a timer is set only within one debounce time of the last event, and a tick moves `elapsed` up and `left` down |
| `RunOnce`, `HooksServe` | `Spec => []HookRunOnce`, `Spec => []HooksServeFirstSubscribers` | proved together: both need that a hook that does not suspend is never in the middle of its run |
| `RecoveryRefreshes` | `Spec => RecoveryRefreshesAll` | with `TypeOK`: only an event "available" that recovers is stored as such (`EmitRefreshes`), and what `notify` requests then are all other classes |

They rest on the named assumptions of `EventBus`: the debounce time and the
bounds are positive, every callback and hook has a class, `StateEvent` and
`AvailabilityEvent` differ, and `None` is no value.

`Authenticator_proofs`, for every set of callers, callbacks and credentials and
every validity of at least two ticks:

| Theorem | Statement | Argument |
|---|---|---|
| `TypeCorrect` | `Spec => []TypeOK` | inductive: `Tick` lowers a timer only when none is due |
| `OneTimer` | `Spec => []NoStrayTimer` | inductive; `TimerFires` resets the handle exactly when its timer is gone |
| `Fresh` | `Spec => []KeptFresh` | `KeptFresh` with `NoStrayTimer` and the distance between the timer and the expiry |
| `ReplacesExpired` | `Spec => LoginReplacesExpired` | the strengthening says that one actor at most is busy, and that a busy `authenticate` of a caller has expired credentials: nobody else can have replaced them |
| `Informed` | `Spec => []CallbacksInformed` | inductive; `QueueFacts` for the last element of a queue |
| `Final` | `Spec => []TeardownIsFinal` | with `NoStrayTimer`: cancelling the handle cancels all there is |

`Device_proofs`, for every number of jobs, slots and commands per check and
every interval:

| Theorem | Statement | Argument |
|---|---|---|
| `TypeCorrect` | `Spec => []TypeOK` | inductive: a sleep that is over stops time |
| `Watched` | `~Overlapping` gives `Spec => []InitializedIsWatched` | `TeardownInv`: tasks are stopped only during teardown, one at a time, which leaves the device unsubscribed and meets no initialize; the worker is in `_running_tasks`, and during teardown among what it has still to stop, so that it has ended when teardown has |
| `WorkerFound` | `~Overlapping` gives `Spec => []WorkerIsOwned` | from the same `TeardownInv`: the one kind of task that `NoForgottenTask` cannot lose |
| `ChecksOwned` | `Spec => []ChecksBelongToWorker` | `OwnedInv`: what teardown cancels one by one are jobs of messages, so a check ends with its worker or by being counted; no finiteness of `Jobs` is needed, because the set itself is preserved |

`MqttClient_proofs`, for every set of devices and task identities and every
length of the queue:

| Theorem | Statement | Argument |
|---|---|---|
| `TypeCorrect` | `Spec => []TypeOK`, for any number of callers | inductive once a `subscribe` has its device until it has queued it and `_subscriptions` is finite |
| `NoCallWaitsInVain` | `Spec => []WaitsForEnd`, for any number of callers | with the types: a task that a call waits for can only end, since whatever else a task does needs that it is neither cancelled nor done, and a new task takes an identity that no call refers to. It is the safety part of `CallsReturn`; the rest is the fairness of the loop |
| `OrphansByOvertaking` | `Spec => OrphanByOvertaking`, for any number of callers | a case per action: a task that is left to nobody was that of `_mqtt_task` and lived when a call put another there; a call that finds no live task leaves none, and one that resumes has seen its own end, so that the one left is another: it was overtaken |
| `DisconnectsUnlessOvertaken` | `Spec => DisconnectFailsOvertaken`, for any number of callers | `CallInv`: only a `subscribe` authenticates, a cancelled task lives and is awaited by a call, and while the client counts as stopped no call is in progress; so a task that lives when `disconnect` returns is not a cancelled one, and is that of `_mqtt_task` only if the call was overtaken |
| `CarriesSubscriptions` | `Spec /\ []NobodyOvertaken => []ConnectionCarriesSubscriptions`, and so for one caller | `IInv`: the task a call waits for is that of `_mqtt_task`, so a task is created only when none lives; the one that lives changes `_subscriptions` only once its own replay is over |

`NobodyOvertaken` is a hypothesis of the last theorem and not of the module, because
the code does not enforce it: two live workers change `_subscriptions` under each
other's connection. It holds when calls follow each other (`OneOvertakesNobody`),
and also when they overlap but each resumes before another has replaced the task
it waits for.

`P2PCommands_proofs`, for all robots, values, request identifiers and cache sizes:

| Theorem | Statement | Argument |
|---|---|---|
| `NeverUnconfirmed` | `Spec => NeverShownUnconfirmed`, that is `Promise!Spec`: the refinement of `Setting` | `IInv` adds to the types that a robot has had its current value, that every value read by a refresh is one it has had, and that so is the value of a request whose confirming response is on its way; then `HandleResponse` and `HandleRead` are steps `Show` of `Setting`, `Obey` is `Change`, and every other step is a stutter |
| `BusFollows` | `Spec => []FollowsRobot` | `Traced`: a request that is travelling or answered is in the cache or has its copy ahead of the response in the inbox, and has one answer; `Followed`: of a robot no change of which was missed, the last confirming response in the inbox carries the value, what was read is the value, and unless an answer is still to come the value is shown. Each action is argued by the place it takes in the inbox (`Saying`, `AppendIndex`, `TailIndex`) |

`Robot_proofs` and `Map_proofs` are about the parts in `MCRobot`. Each theorem
says two things: the module's own specification has the property, and so has the
composition, `MCSpec => []P` with the `P` the run `robot` checks, by a lemma that a
step of the composition is a step of the part or leaves it alone; of the settings
`P2PCommands_proofs` says the one and `SettingsShown` the other. They hold for
all ids, contents, runs and points, and for any number of moves and messages.

| Theorem | Property | Argument |
|---|---|---|
| `SettingsShown` | `NeverShownUnconfirmed`, `FollowsRobot` | a step of the composition is a step of `P2PCommands` or leaves it alone; then `NeverUnconfirmed` and `BusFollows` |
| `TablesServe` | `ServedWhenAnswered` | `ServeInv`: of a job that did not fail each event that it owes was notified or is coming, by a command that waits or is executed and brings it (`Brings`), or by one in a slot that tells that the robot is there; for any number of slots. What it asks of the tables is below |
| `CleanObeyed` | `CleaningBegins` | `Decided`: the command on its way is the decision of `Clean` on the state that was shown when it was given |
| `TruthShown` | `RefreshTellsTheTruth` | `RefreshInv`: in a refresh that nothing disturbs each command is asked, answered or handled, and what is shown is what was shown before it, changed by the reports handled so far in their order (`Hears`); what that comes to is then a case per state of the robot, way to read it and order of the two reports |
| `WholeTrace` | `TraceComplete` | `TraceInv`: one page at a time is asked for or to be handled; the map shows the pages before it, and the last event is the page before it. `FirstShown` is what makes it safe to withhold a first page that equals the last event |
| `BackgroundRepaired` | `PiecesRepaired` | `Repairing`: until the major map has come it is asked for; after it each piece is right, asked for, answered with what the robot has, or withheld by the bus |
| `PictureCurrent` | `PictureIsCurrent` | the property is inductive with the types: each handler either leaves the pieces or sets the flag, but for a piece that a major map clears |
| `SetsRepaired`, `RoomsTrue` | `KeptIsRepaired`, `RoomsReported` | `SetInv`: the set comes first and alone; when it was handled each id is right, asked for, answered or withheld, the amount is that of the set the bus said last, and the rooms are said when the last one that is missing comes. One lemma per way to read a set |
| `PathDrawn` | `PathDrawsPoints` | `PathTells`, below |
| `PartsAgree` | `PartsMeet` | positions and trace for every rotation, the background unrotated, since the code never turns it; arithmetic: `PixelFact` gives the pixel of a dot and the spot it stands for as equally far from the middle, for every even size of the picture |

`TablesServe` is one half of why tables, commands and handlers agree: in whatever
order commands wait for slots, are answered and request others, what brings an
event does so. The other half is static and about each row of the tables:
`TablesBring` says that every job has one command, message or response that brings
what is expected, itself or by what it requests, whatever the robot says with
success and in full: an answer may leave out a field or a consumable and still
count as a success (`Lacking`), and then nothing is owed. A proof of it would enumerate the rows; TLC does so, as `TableAssumption`
of `MCRobot`, whenever the run `robot` starts.

`PathDrawn` needs induction, because `Path` and `Read` are recursive functions.
`Upward` derives it from the least number (`Least`, from the well-foundedness of
`<`) for a set in place of a predicate. `PathFact` and `ReadFact` show that the
functions exist and satisfy their equations; `ReadAppend` that a text is read
from the left, so that what is appended changes nothing of what was known
before. `Extended` is the step, one case for each branch of `Extend`: if a reader
of the text knows that he is at point p, which command goes on (`After`), the
start and the lines so far, then after one more point he knows the same of the
next. A letter is left out only when that command goes on, and a space only
before a negative number, which `SingleRead` and `PairRead` need to keep the text
legible.

Only model-checked: all liveness, and `NeverStuck`, which says ENABLED; both are out
of the prover's reach. Of `NeverStuck` nothing would be left to prove without ENABLED:
whoever waits while no slot is taken can enter, and whoever holds a slot has a
command in execution or can leave; that such a command always has an answer is a
matter of the rows of the tables, which TLC goes through. `TablesBring` is evaluated and not proved.
In the definitions these proofs expand the branches of a CASE exclude each other,
so that what the code does is determined and not only chosen.

## 5. Plan

Done: `EventBus` and `Register`, `MqttClient`, `Authenticator`, `Device`, `P2PCommands`, the
state, the map and its picture with proofs; tables, commands and messages.
What is left, in this order:

1. `AuthClient`: the retries of `post` and of `loginByItToken` under the lock.
2. `Session`: `Authenticator` composed with `MqttClient`, whose
   `CredentialsChanged` it triggers. A running connection uses the current
   credentials, also after a teardown.
3. `TaskSet`: `create_task` and `cancel` of `util/`, which the teardowns rely on.

## 6. Not modelled

- The exchange of a login (`_AuthClient`), its retries and the cached public key:
  a login is the time it takes in `Authenticator`. Signing and encryption keep no
  state.
- `ApiClient`: three lists are fetched and merged; no state, no order.
- `get_static_device_info`: remembers an imported table; two imports of the same
  store the same.
- `create_task` and `cancel` of `util/`: contained in the teardowns that use them.
- `Map`: positions, rotation and map info, which are assigned as they come, and
  its teardown. `MapInfo`: layers, colours and its view box; decompression.
- The subscriptions `Device` makes on its own bus, which copy two fields and
  request refreshes.
- Values of settings, cleaning actions and device types in the tables; payloads
  of commands; the area variants of the clean commands.
- Network and TLS, the wording of logs and their masking, lookup tables of
  continents and countries, development scripts and CI.
