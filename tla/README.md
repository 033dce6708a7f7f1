# go-iotdevice: specifications in TLA+

go-iotdevice polls devices (victron, modbus, GPIO, HTTP, MQTT, a generator
controller), keeps the last value of every register in memory, and serves them
over HTTP, websockets and MQTT; commands travel the other way. Every component
is a set of goroutines that meet in bounded channels and behind locks. This
directory holds TLA+ modules of the parts whose interleavings, durations and
restarts decide whether that works, the TLC configurations that check them, and
theorems that TLAPS proves. Paths below are relative to the repository.

## 1. The system

| Component | State | Operations | Interacts with |
|---|---|---|---|
| Generator controller `genset/` | inputs, state (node, time of the last change), outputs | `Run`, `UpdateInputs`, `compute`, `End` | callbacks into the generator device |
| Generator device `gensetDevice/` | bindings, one setter routine each, a ticker | `Run` until the context is done | state storage (subscribes and fills), command storage, controller |
| Value storage `dataflow/valueStorage.go` | map of the last values, input channel, wait group, list of subscriptions | `Fill`, `Wait`, `SubscribeSendInitial`, `SubscribeReturnInitial`, `GetState*`, `Shutdown` | every other component; there are two, one of states and one of commands |
| Register database `dataflow/registerDb.go` | registers of a device, subscriptions | `AddStruct`, `Subscribe`, `GetAll`, `GetByName` | devices, forwarders, HTTP |
| Restarter `restarter/` | context, errors in a row | `Run`, `Shutdown` | every device |
| Command devices `httpDevice/`, `modbusDevice/waveshareDevice.go`, `gpioDevice/` | availability, a subscription of the command storage | the loop of `Run`: poll, take a command, execute, reset | both storages, restarter |
| Other devices `modbusDevice/finder7M38.go`, `victronDevice/`, `mqttDevice/` | registers | polling, message handlers | state storage, modbus, MQTT client |
| Modbus line `modbus/`, `modbusDevice/modbus.go` | a shared serial port | `WriteRead` | several devices on one line |
| MQTT client `mqttClient/`, `queue/` | connection, backlog, routes, availability | `Publish`, `AddRoute`, `onConnectionUp`, `Shutdown` | forwarders, MQTT devices; the library autopaho and a broker |
| MQTT forwarders `mqttForwarders/` | timers, collected values | realtime, telemetry, structure, availability, discovery, commands | storages, register database, MQTT client |
| HTTP server `httpServer/` | websocket connections | REST, PATCH of commands, websocket | storages, register database |
| Pools and main `pool/`, `main.go`, `devices.go` | maps of running items | start and shutdown, in an order | everything |
| Configuration, types, topic matcher | none | pure functions | |

What is hard, and what has to be true in spite of it:

- **Generator controller.** One input change can cause a chain of transitions;
  failures, resets and interrupted cool-downs come in any order. The engine must
  not be driven against a failed check, must not restart after a failure by
  itself, must be warm before it is loaded, and must be cooled before it stops.
- **Generator device.** Input values pass a map that drops equal values, two
  channels and a routine, while ticks and callbacks use the same channels; what the
  map has when the run starts comes by a way of its own; a tick can be late or
  dropped; the run can end while all of them are busy. Registers must agree with the
  controller, and time in a state with real time.
- **Value storage.** The main routine holds the lock while it waits for the
  slowest subscriber; subscriptions come and go meanwhile. A subscriber's
  snapshot and changes must add up to the map; no send may meet a closed
  channel; `Wait` must not return early; removal must not deadlock.
- **Restarter and command devices.** A run fails while commands are under way;
  the next run must not execute old commands, execute any twice, or lose one.
  Device and storage wait for each other's channels. Shutdown must end.
- **MQTT client.** A connection breaks while routes are added, while the backlog
  is drained by the routines of several connections, or during shutdown; the
  broker refuses or does not answer in time while the connection stays. Nothing
  must be duplicated, routes must be subscribed whenever there is a connection, and
  nothing be lost without an error that says so.
- **Register database and forwarders.** `AddStruct` sends with the lock held to
  consumers that look registers up under the same lock. Consumers leave while it
  sends. A register can change while its first form is on its way; collected
  batches must merge to the registers as they are.
- **Senders of values.** Values change while they are collected, ticks and
  writes race them, a subscription closes or a websocket fails with values in its
  channel. The newest value must not get lost, nothing be shown to who may not
  see it, and nobody else be held up.
- **MQTT device.** Structure messages come in batches and race to set the device
  up; realtime, telemetry and availability messages come before, between and
  after them; the device's own connection is lost with messages on the way; its command
  routines and the command storage wait for each other's channels. It must come to
  mirror the other side all the same.
- **Modbus line.** Answers are lost, garbled, refused, or later than the next
  request, and devices share the line. Answers do not name the register.
- **Start and stop.** Main starts parts that use each other, while the routines
  of the forwarders look up what has been started so far; names may be shared by
  sections; parts that fail to start are left out.

`PROJECT.json` lists each hazard with its line and the properties about it.

## 2. The modules

| Module | Models | Instances / proofs |
|---|---|---|
| `Genset` | the pure functions of `genset/controller.go` | |
| `GensetController` | `Controller`: goroutine, channel, loop of `compute` | `MCGenset`, `Genset_proofs` |
| `EnginePhases` | what the controller promises of the engine | refined by `GensetController!EngineSpec` |
| `GensetDevice` | `DeviceStruct.Run` of `gensetDevice` around the controller, which it EXTENDS | `MCGensetDevice`, `Genset_proofs` |
| `ValueStorage` | `dataflow/valueStorage.go` | `MCValueStorage`, `ValueStorage_proofs` |
| `Restarter` | `restarter/restarter.go` | used by `DeviceCommands` and `Modbus` |
| `DeviceCommands` | the command path of a device under its restarter, which it EXTENDS | `MCDeviceCommands`, `DeviceCommands_proofs` |
| `MqttClient` | `mqttClient/clientV5.go`, `client.go`, `queue/fifo.go` | `MCMqttClient`, `Mqtt_proofs` |
| `RegisterDb` | `dataflow/registerDb.go` | used by `RegisterForwarders` |
| `RegisterFilters` | the filters of `dataflow` and `mqttForwarders/filter.go` | used by `MCRegisterForwarders` |
| `RegisterForwarders` | structure, discovery and command forwarders on update, around `RegisterDb`, which it EXTENDS | `MCRegisterForwarders`, `RegisterForwarders_proofs` |
| `ValueSenders` | realtime, telemetry and availability forwarders, `httpServer/ws.go`, `device/device.go` | `MCValueSenders`, `ValueSenders_proofs` |
| `MqttDevice` | `mqttDevice/` | `MCMqttDevice`, `Mqtt_proofs` |
| `Modbus` | `modbus/`, `modbusDevice/` under a restarter, which it EXTENDS | `MCModbus`, `Modbus_proofs` |
| `Startup` | `main.go`, `devices.go`, `pool/`, the references between the sections of `config/` | `MCStartup`, `Startup_proofs` |

Definitions keep the names of the code where there is one. `PROJECT.json`, under
"map", gives the lines each of them stands for. A name with a suffix behind an underscore
(`Reset_lossy`) is a mutant: a form of the definition with a plausible bug, which
no specification uses and which the named property must detect.

**Genset, GensetController.** `inputs`, `state`, `outputs` are the fields of
`Controller`. An iteration of the loop of `compute` is one step `ComputeState`,
so that intermediate states, which the callbacks publish, are states of the
model; `ComputeOutputs` ends the loop, after eight iterations at the latest.
`UpdateInputs` writes one input with any value the instance allows, `Tick` moves
the time. `lockout` and `run` are history variables, read by properties only.
Floats are compared and added only, so integers stand for them; NaN, which Go
compares to false, is left out.

**GensetDevice.** The steps of the controller are those above, with what each
callback has to `Fill` queued in `toFill`: the controller is blocked until all
is filled. Each binding has a subscription channel and a setter routine
(`SetterReceives`, `SetterSends`, `SetterFills`). Main starts the generators after
all other devices, so a bound register may have a value already: `initial`, which
`SubscribeSendInitial` sends by a routine of its own, perhaps after a newer one.
`overtaken` has the bindings this has happened to. `Accept` is the meeting of a
sender and the controller on the unbuffered channel. The clock advances whatever the
routines do. The ticker's channel buffers one time, as `time.Ticker` does, and
ticks that find it full are dropped; `late` is the longest a tick has waited for
the controller so far. The storage is that of `ValueStorage` in two steps. The
inputs start at the zero time 0 and the clock at `StartTime`.

**ValueStorage.** `Fill` is two steps (count, send), the main routine one for
receiving, one for the update, one per subscription forwarded to, one for the
unlock; the mutex is held in between. Subscriptions are made, send their
initial values, see their cancellation, are removed and closed. `view` is what
the consumer knows, `accepted` the last value sent for each key.

**Restarter, DeviceCommands.** `Wrapped` computes as an `int64` does, in units of
time. A run of the device is `Connect`, `Subscribe`, then the loop in which it
takes commands, executes and resets them or sees its poll fail; `PollFails` and
`ConnectFails` are `ServiceFails` of the restarter. Subscriptions of earlier runs
stay in the list, because `service.Run` is given the restarter's context; they
fill up and hold up the storage, and with it the device, until the restarter's
context ends. A command ends with its reset or without (`Outcomes`). Once a
cancelled subscription is closed, the loop may take the nil value this gives
(`TakeNil`): `gpioDevice` panics on it (`NilPanics`), the others go on.

**MqttClient.** autopaho and the broker are external: `Connect`, `ConnectionLost`,
`Published`, `PublishFails`, `Subscribes` say what the code relies on. A call can
fail because there is no connection, because it is lost meanwhile, or with a
connection that stays (the broker refuses, no answer comes in time); a publication
can fail after the message has arrived. Messages have a QoS of 1 or 2; at 0 nobody
learns that one is lost. Each connection starts a drain routine of its own. A new
connection starts without subscriptions (the session expiry is left at zero).
`AddRoute` and `onConnectionUp` exclude each other by the lock. `arrived`,
`unanswered`, `dropped` and `refused` record what has become of messages, of those
a drain has got an error for, and of subscriptions.

**RegisterDb, RegisterForwarders.** A register is a name and a kind; what tells
kinds apart (category, type, enum, writable) is what the filters and forwarders
ask for. `AddStruct` takes the lock, then handles
each register in steps of its own: skip it if it is known, save it, send it to one
subscription after the other. A subscription is listed, sends its
initial registers, and is removed and closed after its context ends. Each
forwarder is a consumer with the state it keeps: the batch of the structure
routine and what a reader of its messages has merged, the retained discovery
messages, the routes. `overtaken` notes a register that changed while its
initial form waited to be sent. `Receive` takes what is in the channel; what a
closed channel gives besides, before the routine sees its context done, is a register
without a name, which is looked up in vain, or published by a client that is
shut down with the forwarder.

**ValueSenders.** One sender at a time, chosen in `Init`, on one subscription;
the storage is that of `ValueStorage` in two steps (save, forward under the
mutex). `pending` is what a sender has collected, `writing` what it hands to the
websocket or broker, `shown` what has arrived there. The availability of a
device passes a routine of its own first (`RelayAvailable`). For the websocket
there are the authentication message and failing writes. A write to a browser
that neither reads nor leaves does not end, as `wsSendResponse` has no deadline; its
context ends it.

**MqttDevice.** The inbox holds the messages of all topics in their order. The
structure handler starts a routine per message; `load` and `store` are the two
halves of the check whether the device has been set up. A set-up makes its three
subscriptions one after the other (`SetupSubscription`), each of which brings what the
broker retains for it, then starts the routine for commands (`StartCommander`), then
adds the registers. The client's own connection is lost with any of the messages on
the way, and a new one subscribes to all routes again; a subscription may fail. The
command storage has the channels of `ValueStorage`, with their capacities, and
the initial values of `SubscribeSendInitial`. The other side is external: which topics
it offers, and what the broker retains, is a `Setting`; it sends any values, batches
and availability, and telemetry while its device is available (`RemoteTurns`).
`missed` has the registers whose last realtime message was not filled.

**Modbus.** `Send` takes the line's mutex and discards what had arrived. The
slave may answer in time, after the timeout or after the next request (`Arrive`
with `late` answers), with garbage, an exception or not at all; `faults` counts
what is not prompt. `Begin`, `Steps`, `Loop` are the run of the device: the polls
of the Finder meter (which retries, and reads all registers every `FullEvery`
polls) or the loop of the Waveshare board.

**Startup.** `Init` chooses a configuration, acceptable or not; the stages of
main are started in the order of `main.go` and stopped in the order of its
deferred calls. A device is a section and a name. `pool` is keyed by name.

## 3. The runs

All but two pass. States are distinct states. No symmetry is used.

| Run | Question | Bounds, and why they suffice |
|---|---|---|
| `genset_control` (1.1 M) | Does the controller settle within eight iterations, protect its outputs, lock out after failures, keep minimum and maximum times over interrupted cool-downs, and implement `EnginePhases`? | times of 1 and 2 against ticks of 1 and 2: each comparison is met exactly, missed and overshot; priming 0 for the longest chain; temperature on each side of every threshold; power within and over the total limit of three phases; time to 7 for a run with an interrupted cool-down |
| `genset_device` (4.9 M) | Do inputs, outputs and states arrive, and does the time in a state follow the clock? | channels of capacity 1; two bound registers, each with a value from before the start or none, and one value produced, equal or not, so that each way of overtaking and of dropping an equal value occurs; two seconds of a clock that never waits: a tick that is late by one or two periods, and one that is dropped |
| `storage` (239 k) | Are snapshot and changes complete; are sends never on a closed channel; is `Wait` right; does each `Fill` return and each cancelled subscription close? | one producer, two subscriptions (one of each kind), one key with a value or null, capacities 1: everyone can wait for everyone; the theorems lift the sizes |
| `commands` (522 k) | Is any command executed twice, out of order or from before the device was up; does the last one win; when do device, storage and earlier runs block each other, and does Shutdown return? | two runs of the device, so that the channel of the first fills up and holds the storage; four commands of two values to one register, capacities 1, commands while the device is down, both ends of `execCommand`, the panic on a closed channel. The circle of device and storage takes five commands here (`InCap + OutCap + 2`), one more than are issued: the theorem `BurstNeeded` is about any number of them |
| `mqtt_client` (13.4 M) | Does the backlog keep its bound, lose nothing without an error and duplicate nothing; is every route subscribed? | two publishers, three messages against a backlog of two, two connections (two drains at once), one route added at any time, errors with the connection lost and kept |
| `registers` (155 k) | Is any register missed; is what each forwarder has published current; does `AddStruct` return, and when not? | one name of two kinds (an enumeration that is writable or not), capacity 2 against three saves, one more than fits, the command forwarder, which looks registers up, together with one of the two others |
| `senders` (58 k) | Is the newest value on its way that of the storage, is it shown, who blocks the storage? | five senders, a number and an enumeration and the availability, two values, capacity 1, a browser that stops reading |
| `mqtt_device` (318 k) | Is the availability that of all topics, are values mirrored and commands reset, however messages race the set-up and the connection breaks? | five settings of the other side: availability on two topics, realtime retained or not, telemetry with realtime, commands; two connections, or one for commands; two structure messages and two routines (the race needs two) with registers of different batches; two commands against channels of capacity 1; an inbox of one |
| `modbus` (164 k) | Does a value fit its register, does a prompt slave never fail, does the device recover, does the wait double? | four registers, two of one name, three of one length; two tries; full polls alternate with reduced ones; four faults: two fail a request with its retry, four two runs in a row; the wait doubles, meets its maximum, and its product overflows at the third doubling |
| `startup` (1.3 M) | Does anything in a pool outlive what it uses; is each device forwarded as configured? | 6192 configurations: two names, up to three devices in three kinds of section, so that names are shared, lists name missing devices, a bus fails |

Two runs show a disagreement between the code and what is written of it, each in a
counterexample:

- `genset_end` / `EndTerminates`: `End` closes `changeInputs` while a setter or the
  ticker sends on it; the send panics (`gensetDevice/device.go:211`).
- `mqtt_offline` / `OfflineAfterShutdown`: README.md:404 says that the client sends
  `offline` when it properly shuts down. The routine of the last connection
  publishes `online` concurrently (`mqttClient/clientV5.go:107`); when it comes
  second, `online` is what the broker retains, and Disconnect discards the will.

Deadlock is not checked (`CHECK_DEADLOCK FALSE`): every instance stops
when its bounds are used up or the component is shut down, as it should.

Behaviours seen while modelling that no run is spent on. A reader should know
that the properties above are stated around them:

- `EnclosureCoolDown` can be left early by a short press of the master switch
  (to Priming, then Ready), against its minimum time (`genset/controller.go:288`);
  the fan runs in Priming; the cool-down ends by `EngineTemp`.
- A generator commanded before the first tick has been in Priming since the zero
  time when the tick arrives, and cranks at once, though a priming time is
  configured (`documentation/full-config.yaml:312`, `gensetDevice/device.go:113`).
- `lastState` of `gensetDevice/device.go:188` is never updated, so the State register
  does not show Off after a reset: `RegistersPublished` excepts Off.
- An initial value of `SubscribeSendInitial` can follow a newer value of its key
  (`dataflow/valueStorage.go:196`): `SnapshotThenChanges` is about
  `SubscribeReturnInitial`, and `overtaken` marks such keys in `ValueSenders`. The
  generator controller then computes with the older value until the next change
  (`gensetDevice/device.go:130`): `InputsFollow` excepts `overtaken` bindings, and says
  that even then the registers of the generator show what it computes with.
- The subscription of a failed run is never read again, because it ends with the
  restarter and not with the run (`restarter/restarter.go:63`). It fills up, and
  from then on the command storage is blocked, for every device, and Shutdown waits
  for a device that waits in `Fill`. `HeldByEnded` is this case; `CommandsTaken` and
  `ShutdownCompletes` say that it, the circle below and the panic that follows are the
  only ones.
- The nil value of a closed channel makes `execCommand` of `gpioDevice` panic during a
  shutdown (`gpioDevice/device_linux.go:292`); the Waveshare board's only with
  LogDebug, `httpDevice` checks it.
- `execCommand` of `httpDevice` returns before the reset on some errors, and a
  command that arrives while a device is down stays in the storage; the next
  equal command is then dropped as unchanged. `LastCommandWins` says of which
  commands this is true.
- A burst of commands that fills both channels blocks device and storage for
  good: `CircularWaitNeedsBurst` gives the least number of commands it takes (with
  the capacities of the code 162).
- A `RestartInterval` above about 39 h overflows when multiplied by 2^16; what
  is left of the product may be negative, which is no wait at all. A maximum above 2^16 intervals is
  never reached. `config/config.go:800` checks neither. `ExponentialUpToMaximum` excepts
  the overflow by name.
- A backlog message whose publication fails is dropped, also where the connection
  stays (`mqttClient/clientV5.go:123`), a message put in the backlog after the drain
  has ended stays until the next connection, and direct publications overtake
  the backlog: `KeptUnlessTruncated` names the first, and neither it nor
  `ArrivesOnce` promises order or delivery.
- A `Subscribe` that fails with the connection up is not tried again before the
  next connection (`mqttClient/client.go:76`, `mqttClient/clientV5.go:98`):
  `RoutesSubscribed` excepts the routes `refused`.
- The offline message of Shutdown has one second and no second try
  (`mqttClient/clientV5.go:136`); when it fails, the clean disconnect takes the will
  with it, and the client stays online for others.
- `AddStruct` waits for good when it has more registers to send than fit in a
  channel (16) whose consumer waits for the lock to look one up
  (`dataflow/registerDb.go:50`): `BlockedNeedsBurst`, `AddReturns`.
- The retained structure message has the registers of the last batch only
  (`mqttForwarders/structure.go:96`), so that an MQTT device that connects later
  does not learn of the others. A register that changes its kind keeps its old
  route (`mqttForwarders/command.go:72`) and its old discovery message.
- The channel of a cancelled subscription is closed; the `select` of the delayed
  sender may take the nil value this gives instead of `ctx.Done()`, and panic
  (`mqttForwarders/realtime.go:93`, action `TakeNil`).
- The storage waits for good for a sender that has returned with a full channel
  but is still subscribed (`httpServer/ws.go:168`, `dataflow/valueStorage.go:187`),
  and for a browser that neither reads nor leaves (`httpServer/ws.go:207`):
  `BlockedByDeparted` says that it never waits for anything else.
- Two structure messages can both find that the device has not been set up
  (`mqttDevice/device.go:94`); it is then subscribed twice, and a command is
  published twice. Commands for registers of a later message are not forwarded;
  they stay in the storage for good (`mqttDevice/device.go:292`, `Unwanted`).
- A command routine of an MQTT device resets what it forwards while the storage
  sends to it (`mqttDevice/device.go:330`): with both channels full they wait for each
  other, and every device for them. `CommandsReset` excepts this `CommandCircle` only.
- A value that is forwarded in realtime only, and not retained, is never mirrored
  when its message comes before the register is known or while there is no
  subscription; `RealtimeReaches` says that it comes to nothing else. Telemetry
  repairs this, but only while the other device is available
  (`mqttForwarders/telemetry.go:91`). While the mirror's own connection is down,
  its availability and values stay as they were.
- Names of the registers of the Finder meter are not unique (`PFt`, `Qt`, `St`, `PF1`
  and more): the later one overwrites the earlier. An answer that comes after
  the next request is taken for that of another register of the same length
  (`ShownFits` excepts `overdue`). The "short pause" before a retry does not
  exist (`modbusDevice/finder7M38.go:407`).
- Two devices of one name in different sections replace each other in the pool;
  the first runs on and is never stopped (`pool/pool.go:35`). A generator device
  may be passed over by the forwarders, since it is started after their routines
  (`main.go:134`). A client that receives more devices than there are makes the
  configuration panic instead of returning an error (`config/config.go:478`).
- The clients are stopped before the devices, so that after a graceful shutdown
  the retained availability of the devices themselves stays online.

## 4. Fairness

- `ValueStorage!Fairness`: weak fairness of the main routine, closing, seeing
  the cancellation and consuming: goroutines that can run do. Strong fairness of
  `FillSend` and `RemoveElem`: Go's channels and `sync.RWMutex` serve waiters
  in order. Producing, subscribing, cancelling are not fair. Properties assume
  consumers that read their channels, which all range loops of the code do.
- `DeviceCommands!Fairness`: weak fairness of the storage's main routine, of the
  cleanup of subscriptions, of Shutdown, and of the one goroutine of the restarter and
  its device: its timer ends, and requests end (the HTTP client and the modbus line
  have timeouts). No poll and no connection need ever succeed; the `select` of the
  loop may prefer any case that is ready.
- `RegisterForwarders!Fairness`: routines run; strong for those who wait for the
  lock or for room, and for the `select` of the command forwarder.
- `ValueSenders!Fairness`: strong for the storage and the `select` of the sender.
  A write ends only under a cancelled context; what needs a browser that reads is
  stated under `WritesEnd`. Values need not change or stay.
- `MqttDevice!Fairness`: weak fairness of the handlers, the routines of structure
  messages, the storage and the command routines. On the other side telemetry is
  read while its device stays available, and what is read is published in the end
  (strong: other messages use the same bounded inbox).
- `Modbus!Fairness`: each request ends by its answer or its timeout, the mutex is
  granted, `select` takes each case in time. Slaves need not answer while
  faults are left.
- `GensetController`, `GensetDevice`, `MqttClient` and `Startup` are checked for
  safety only.

## 5. What is proved

For all values of the constants that satisfy the named assumptions of the module
(sets and capacities of any size, any parameters and inputs):

- **`Genset_proofs`, the controller.** `TypeCorrect`. `Settles`: the inductive
  invariant `Converging` says that the iterations made and the `Rank` of the node
  are at most eight together; `RankDecreases` shows that each transition under
  fixed inputs lowers the rank, which is at most six. This needs no bound on
  times or temperatures. `Protects` and `Bounds` follow: a node that is final for
  its inputs satisfies the checks its outputs need, and has not outlasted its
  timeout. `LocksOut`: `LockoutHolds` speaks of the controller at rest only;
  `Locked` says what holds between the press of the reset switch and the
  transition. `RunsInOrder`: `RunRecorded` ties the history to the node
  (in EngineCoolDown the load was removed when the state was entered, and so on).
  `Implements`: each transition is a step of `EnginePhases` or none. All of this
  is proved of `AnySpec`, the controller in any surroundings that change its inputs
  as they like but never set the time back; `Spec` is one instance of it.
- **`Genset_proofs`, the device.** `DeviceIsController` shows that the controller
  among the setters, the ticker and the callbacks of `GensetDevice` is another
  instance: a tick that waits for the controller is never older than the one it
  has (`Clocked`, which places each tick at a multiple of the interval). So
  `DeviceProtects` and `DeviceImplements` hold of the running device.
  `DeviceCountsRealTime` by `CountsInv`: the time recorded for a state is older
  than its entry by at most an interval and twice the longest wait of a tick, because
  the ticks that follow one that waits may be dropped, and the next one may
  itself wait. A state entered before the first tick has the zero time; the
  invariant says how soon that first tick is taken. `DevicePublishes` by `PublishedInv`: the
  last entry for a register in what the callbacks have yet to fill, or else in
  the channel of the storage, or else in its map, is what the controller computed.
  `DeviceInputsFollow` by `FollowInv`, which follows the last value of a bound
  register through the storage, the subscription, the setter and the controller
  (`Way`, `Forwarded`, `Shown`), or, for a value from before the start, among the
  initial ones; a value that is dropped because it equals the one in the map is
  already on its way or has arrived. Where the initial value has overtaken a newer one
  `Forwarded` holds of some value, so that the registers of the generator agree with the
  controller even then. The device has one
  assumption of its own: the inputs start at time zero, as `genset.Inputs{}` of
  `gensetDevice/device.go:113` does.
- **`ValueStorage_proofs`.** `TypeCorrect`. `NeverSendsOnClosed` by `ListInv`:
  the list has no duplicates, so one removal removes all. `SnapshotsHold` by
  `SnapshotInv`: what is being forwarded is the map's value of its key. The
  lemmas `TellsAppend` and `TellsConsume` say what a send and a receive
  do to what a consumer will know. `WaitsForAll` by `Counted` (the wait group is the
  number of producers in `Fill`, of values in the channel, and of the one the main
  routine has) and `Accepting` (the values in the channel lead the map to what was
  accepted; by the same lemmas).
- **`DeviceCommands_proofs`.** `TypeCorrect`, with `Control`: an unused
  subscription has an empty channel and the device runs only under a running
  restarter. `NeverStale` and `OnceInOrder` by `InOrder`: the ids in the channel of
  the present run, in forwarding and in the input channel increase in this
  order, all above `since` and above the last one executed; channels of earlier
  runs may hold anything. `BurstNeeded` by `OnTheWay <= issued`: each value under
  way, resets included, stands for a command of its own, so that two full
  channels and the two values in hand take that many commands. `LastWins` by two
  invariants. `Followed`: the command last issued while the device is up is the last of
  its register in the input channel, or the newest taken (in forwarding, in the
  subscription, with the device or executed), or an equal command that was in the
  storage before the run subscribed has swallowed it. `ResetComes`: an entry the run has
  seen come has its reset still before it, or was executed without one. Both
  hold for any number of runs, any way a command ends, and commands issued while the
  device is up or down.
- **`RegisterForwarders_proofs`.** `NeverSendsOnClosed` by `ListInv` (a listed
  subscription is open and listed once). `LosesNothing`, for the database alone and
  with its forwarders: the present form of each register that passes the filter of
  a subscription has been received, waits in its channel, is being sent, or is among
  the initial ones. `BlocksOnlyAfterBurst` by `BurstInv`: what a subscription
  has in its channel, among the initial registers and to be sent is at most the
  number of registers added so far, because a snapshot has no more registers than
  were stored (`SnapshotBound`). `ForwardersAreConsumers` says that each step of the composition
  is a step of the database; so these results carry over. `ForwardersAnnounce` by
  `FollowInv`, for the structure, the discovery and the command forwarder: the present form
  of a register that passes the filter is being sent, is among the initial ones, is the
  last of its name in the channel, or has been announced; a route needs any form
  on its way, because the register is looked up. Left out are registers `overtaken`
  by an initial one of the same name.
- **`Mqtt_proofs`.** Of the client: `KeepsRoutes` by `RoutesInv`: a route is listed before it
  is subscribed, under one lock with the subscriptions of a new connection, which
  takes what is listed; a route is `refused` only by a Subscribe on this connection.
  `NeverTwice` by `PlaceInv`: each message that waits is in one place, a
  routine's hands or the backlog, and one that has arrived waits again only if
  its arrival was not answered. `LosesNothing` by `KeptInv`: each message is in
  somebody's hands or the backlog, has arrived, or got an error while it was drained;
  with a pigeonhole argument (`BacklogHasRoom`): the backlog holds distinct
  messages other than the one in hand, so that it is not full when that one is
  put back.
  Of the device: `FollowsTopics` by `AvailableInv`, for each topic subscribed: the
  last message about it on the way says what the broker retains, or there is
  none and the device knows it. On a subscription, of a set-up or of a new
  connection, the broker sends its retained messages in some order (`SetAsSeq`, from
  the bijection a finite set has to its cardinality; `AboutFollowed`), which needs
  finitely many topics and registers; a lost connection empties what is subscribed.
  After that the device shows what it knew: the theorem is about subscribed topics.
- **`ValueSenders_proofs`.** `NothingLost` by `SenderInv`. Its core, `Tracks`, says
  for each key where its newest value is (in forwarding, last of its kind in the channel,
  or `Beyond`: with the routine, in a map, in a message being written or outside) and
  that it is the value in the storage. It needs `Roles` (a sender leaves the maps it does not
  use empty, and the message of the websocket is empty unless it is written, so
  that no map hides a newer value), `Fresh` (a sender that has not subscribed holds
  nothing) and `InitialIsCurrent` (an initial value that waits and is not overtaken is
  current, and no other of its key is being forwarded). `AppendNewest` and
  `TailNewest` say what a send and a receive do to the newest of a key in the
  channel. `Announced` gives what is said of browsers.
- **`Modbus_proofs`.** `PromptRuns` by `PromptInv`: while nothing was late or lost, the
  line is free or used by one device alone, and what is on its way or received
  is the one answer to its request, because the mutex is held from the request to
  the return; between two stages of its run the device awaits nothing, so that
  the request does not change under an answer. `ShowsWhatFits` by `Fits`, under any
  faults: an accepted answer has the content of a register of the length asked for,
  whichever request it answers (`FrameFits`); as long as none comes after the next
  request, what is to come is the answer to the request that waits (`Mine`); and without a
  fault the relay is as the device was told (`RelayFits`). `WaitIsExponential` by the lemma
  `Backoff`, for any interval and maximum and any width of a duration: `getRestartInterval`
  never returns more than the maximum, and it returns the interval times a power of two,
  or the maximum where that is less, unless the product overflows. `Poll` lists
  the registers by `Ascending`, the order of their indices; `AscendingExists` shows
  that there is such an order, by the least number for which there is none
  (`LeastNumber`), as the induction theorems of the library cannot be used.
- **`Startup_proofs`.** `OutlivesNothing` and `ForwardsConfigured`, for any
  configurations and names, by `PoolInv` (the pool holds configured devices under their
  names), `UpInv` (what is up, and what has yet to be started or stopped, in each
  stage) and `LookInv` (what a routine is done with has been forwarded).

Only model-checked: liveness (`FillReturns`, `CancelCloses`, `CommandsTaken`,
`ShutdownCompletes`, `AddReturns`, `CatchesUp`, `BlockedByDeparted`,
`MirrorCatchesUp`, `CommandsReset`, `Recovers`), since the prover handles neither
fairness nor ENABLED; and `RealtimeReaches`, of an MQTT device with realtime messages
only. Every other safety property of a passing run is stated by a theorem. No module declares a RECURSIVE operator. `CooledDown`, of
`GensetController`, is part of what `RunsInOrder` and `DeviceProtects` prove
and of no run.

## 6. Running

    tlc -workers 2 -config genset_control.cfg MCGenset
    tlapm Genset_proofs.tla

`PROJECT.json` names the module and configuration of each run.

## 7. Not modelled

- **Victron devices**: a loop that polls the external vedirect library and fills
  what it returns; on an error its run ends, which is `ServiceFails` of the restarter.
- **Device protocols** (teracom, shelly): parsing of status documents, without state.
- **REST handlers**: they read the storages and answer; PATCH fills the command
  storage, which is `DeviceCommands!Issue`.
- **GPIO**: the run is the loop of `DeviceCommands`; requesting chips and lines
  belongs to the external library, its failing is part of `Startup`.
- **Configuration**: of its checks there are the names and references. Durations
  and numbers enter as assumptions on constants; formats and defaults have table
  tests. NaN as an input of the generator controller is left out, with the
  arithmetic of floats.
- **Topic matcher, types**: pure functions on strings, with table tests.
- **Periodic modes** of the forwarders: each tick publishes all that passes the
  filter and keeps no state.
- **Set-up of the generator device that fails half way**
  (`gensetDevice/device.go:134`): earlier bindings stay subscribed until the
  restarter ends, which is the leak of the command devices over again.
- **Circular wait of setters and state storage** (`gensetDevice/inpSetter.go:21`):
  the controller fills while the storage waits for a setter that waits for the
  controller. It is reached with the small channels of `genset_device`, where it
  stops the run without disturbing its invariants; the number of values it takes
  is not stated as `CircularWaitNeedsBurst` states it for command devices.
- **The moment before main listens to signals**: a signal ends the program where
  it is, without any deferred call.
