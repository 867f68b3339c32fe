# A TLA+ model of the gate controller firmware

The firmware drives a two-leaf gate on an ESP32-S3: relays, push buttons, two
light barriers, a wind guard, a warning light, and an MQTT connection to Home
Assistant. These modules model its control logic, TLC checks them on small
instances, and TLAPS proves every safety property the runs check - all timings
of the leaves, all queue depths, all buffer and packet sizes.

## The system

All tasks run on one cooperative executor (embassy). A step of a task is what it
does between two awaits; interleavings happen at awaits. Tasks talk through
`Controls` (atomics and latest-wins `Signal`s), through bounded channels, and
through flash behind a mutex.

| part | state | operations | correct when |
|---|---|---|---|
| leaf motor, `gate-core/src/motor.rs` | relays, estimated position, when it was started and stopped | `run_time`, `start`, `stop`/`settle`, `ready_at` | the estimate of a completed run is at the end; a relay rests before it starts again |
| gate controller, `gate-core/src/gate.rs` | command slot, signals, published direction and position, wind lock, barriers, bypass; pending command, movement in flight, both leaves | methods of `Controls`, `step`, `drive` | safety conditions are never lost, a forbidden movement ends, movements arrive, the estimated leaves keep their order |
| warning light, `gate-core/src/warning_light.rs` | lamp pin, what the task sleeps on | its loop | never sleeps through a reason to blink, never left lit |
| gate task, `src/physical/gate.rs`, `storage.rs` | the record in flash, the cache of it, the save in flight | `step`, save, boot | what rests is durable; the cache hides nothing; restored state is consistent |
| MQTT connection, `src/infra/mqtt_client.rs` | `OUTGOING`, `INCOMING`, `SUB_QUEUE`, `SUBSCRIPTIONS`, `CONNECTED`, the connection | `publish`, `subscribe`, `receive`, `run_once` | the broker gets the newest state, no subscription and no acknowledged command is lost |
| discovery and handler tasks, `src/app/` | topics still to register | republish, register, execute | as above |
| inputs, `gate-core/src/debounce.rs`, `src/physical/inputs.rs` | two small counters; the level seen last | `sample`, the polls of `level_task` | one event per press; the gate knows the light barriers from boot on |
| vendored MQTT client, `vendor/mqtt-async-embedded/src/client.rs` | receive buffer, what of it was handed out, time of the last transmission | `connect`, `publish`, `subscribe`, `poll` | every message complete, in order and once although `poll` is dropped at any await; keep-alive in time |
| Wi-Fi station, `src/infra/wifi_sta.rs` | where its task is | join, wait, pause, join again | the network is pursued for good |
| boot, reset button, provisioning | the config record | choose a mode, erase, save, reboot | a submitted config is saved or the device can be provisioned again |

What is hard: the command slot keeps only the newest command while wind and
barrier conditions arrive beside it; `select` wakes for the first ready reason,
which need not be the important one; a movement may be interrupted, resumed and
reversed at any moment, with roundings in every estimate; power may fail at any
moment, also in a movement or a write; the outgoing queue overflows and the
connection breaks at any time. `PROJECT.json` lists each hazard at its line.

## Modules

| module | models | extends |
|---|---|---|
| `Motor` | one leaf as a record, and the methods of `Motor` as operators | |
| `Gate` | `Controls` and the gate task | `Motor` |
| `GateService` | the gate as the rest of the system sees it (abstract) | |
| `WarningLight` | the light task beside the gate task | `Gate` |
| `Firmware` | the gate task's loop, flash, resets | `Gate` |
| `Device` | light barrier 1 as `level_task` samples it, beside all of that | `Firmware` |
| `Installation` | the leaves themselves, which the firmware only estimates (external) | `Firmware` |
| `MqttLink` | connection, discovery, handler and Wi-Fi tasks, and the broker (external) | |
| `MqttClient` | the vendored client in the select loop of `run_once`, byte by byte, and the socket (external) | |
| `Delivery` | what a user of the client counts on (abstract) | |
| `Provisioning` | boot, reset button, mode, form, save, and the flash mutex shared with the gate task | |
| `Debouncer` | `Debouncer::sample` as `edge_task` uses it | |
| `MotorProofs`, `GateProofs`, `LightProofs`, `FirmwareProofs` | theorems | `Motor`; `Gate` and `MotorProofs`; `WarningLight` and `Firmware`, each with `GateProofs` (`FirmwareProofs` also has `Device` and `Installation`) |
| `MqttLinkProofs`, `MqttClientProofs`, `ProvisioningProofs`, `DebouncerProofs` | theorems | the module they are named after |
| `MC*` | constants for TLC | the module they are named after |

State and actions keep the source's names. A definition whose comment begins
"Mutant of" is a deliberately wrong variant of the definition after it. It is
used by nothing; putting it in place of the original must make the property
fail that `PROJECT.json` pairs it with.

**Time.** The code compares absolute instants with now. A leaf here keeps
distances to now instead (`ran`, `rest`, `due`), and `Tick` moves all of them.
`Tick` is always enabled: a woken task may run late, so a deadline may be missed
by any amount. `ran` is capped at the full travel time, where the code's `min`
makes all larger values equal.

**Steps of the gate task.** `step` and `drive` wait in two places, hence the
actions `Step*` (idle) and `Drive*` (one per arm of the select). Each action is
everything up to the next await, the loop of `drive` with its check for a block,
its pass over both leaves and, when the movement ends, both motors stopped, the
bypass used up, positions classified and the state published. Where a wait is
over at once the code goes on without yielding; the model allows others to come
in between there, which only adds behaviours.

**Publishing.** `Gate` records in `announced` what was last handed to MQTT. The
way from there to the broker is `MqttLink`, where the state is only a version.

**Flash.** Reading and writing may fail, and a reset leaves the record of an
interrupted write old or new (the record map is power-loss safe; it is
external). `suspect` remembers which storage error came in between.

**Provisioning.** A config is only a name and a form valid or not. `told` is
history. The gate task appears as what competes for flash.

**The connection.** It may break whenever the client touches the socket. What
was written but not received is lost with it; the broker forgets the
subscriptions of the session and keeps retained messages. `inbound` includes
what is still under way. The Wi-Fi task is under all of it: a connection is only
made while the network is joined, and one that is lost breaks the connection
sooner or later, which `Break` allows anyway. A command is understood by
`Command::parse` or skipped; `republished` is history.

**The client.** `MqttLink` treats the client as `Delivery` describes it.
`MqttClient` has what is underneath: TCP cuts the stream anywhere, several
packets come in one read, and `poll` is a future that another arm of the select
drops at either of its awaits, also halfway through writing a packet (`torn`
records that). Bytes are pairs of packet and place, so that a packet put together
from the wrong bytes is recognised (`Decoded`). Packet ids are left out, as the
client never compares one: `poll` skips every acknowledgement. `packets`,
`offered` and `delivered` are history; `offered` has the numbers of the packets
that are published messages, in the order the broker sent them. The network stack
gives a connection up when it has heard nothing from the other end for
`SOCKET_TIMEOUT`, in whatever await the task is; a host that is there answers
what it is sent.

**Refinement.** `Gate!ImplementsService` hides signals, motors and time: seen
from outside each movement begins and ends at rest, none begins towards closed
under the wind lock, and every state that is published is the state of that
moment. `MqttClient!ImplementsDelivery` hides bytes, buffers and dropped futures:
the messages of a connection come out complete, in order and once.

**Boot.** `main` reads the record, spawns all tasks together and leaves the order
to the executor. `BootFrom` is `CONTROLS` as the static starts, without the wind
lock; `GateTaskStarts` is the first poll of the gate task, which runs `Gate::new`
and restores the lock (`created`). The executor polls each spawned task once
before any of them a second time, so only a first poll can come before
`Gate::new`: that of `level_task` tells the barrier (`EarlyInput`), that of
`edge_task` only takes the first of `EDGE_STABLE_SAMPLES` samples, and there is no
network yet. So the gate may be moving before anybody looked at the barrier, and
the barrier may be told before the lock is restored. Barrier 2 has the same task;
in `Device` its setter is called at any time with any value, which includes what
the task does. `Gate` on its own starts with `Gate::new` done and the barriers
told or not (`Boot`).

**The leaves.** In every other module a leaf is where the firmware books it.
`Installation` adds where it is: it moves while a relay is on, at the pace of its
travel times and up to the end stops, and a reset does not move it. Estimate and
leaf part in two ways: each interruption rounds the estimate, by less than a
unit of position, and a reset in mid-movement restores the estimate from before
it.

**Debouncer.** The reference (`Pressed`) looks at the whole history: the level is
that of the last window of `StableSamples` equal samples. The history is bounded
(`MaxSamples`), so this model
stops at the bound and its run does not check for deadlock. All others do.

## Runs

| run | checks | instance |
|---|---|---|
| `gate` | `TypeOK`, `SafetyWake`, `SettledWhenIdle`, `LeafOrder`, `DoneMeansAtEnd`, `NoStaleAnnouncement`; steps: `ForbiddenMovementEnds`, `SafeStart`, `CompletedMovementArrives`, `ForcedOpenRunsToTheEnd`, `ImpulseMovesTheGate`, `BypassIsOneShot`; refinement: `ImplementsService` | 4 positions, travel 5 and 4 ticks, head start 2, overrun 1, pause 2, all inputs at any time |
| `warning_light` | `LampWake`, `LampGoesDark`, `LampBlinks`, `MovementIsWarnedAbout` | 2 positions, travel 1, half period 1 |
| `firmware` | `IdleStateDurable`, `CacheIsFlash`; step: `FullRunFindsTheEndStop`, of the leaves themselves | 3 positions, travel 1, leaf A closes in 2, head start 1, storage errors and resets at any time |
| `device_live` | `WindLockPursuedAndDurable`, `BrokenBeamStopsGate`, `AnnouncementCatchesUp` | 2 positions, travel 1, resets, no storage errors |
| `power_loss` | `PowerLossKeepsTrack`, a comment of the code, violated | 3 positions, travel 2, resets, no storage errors |
| `mqtt_publish` | `TypeOK`, `NewestStateOnItsWay`, `ConfigsOnTheirWay`, `NoSubscriptionLost`, `RetainedNeverGoesBack` | 2 state topics, 1 config, queue of 4, 4 versions, 2 command topics |
| `mqtt_commands` | `CommandsInOrder`, `ReadCommandsAreExecuted`, `BrokerConverges` | 1 command topic, queues of 1, 2 versions, 2 commands, each understood or not |
| `mqtt_client` | `WithinKeepAlive`, `HealthyStaysUp`, `LossIsNoticed`, `PublishesAreDelivered`; refinement: `ImplementsDelivery` | packets of 2 and 4 bytes, buffers of 3, outgoing packets of 2, keep-alive 3, check 1, timeout 4, 3 packets per connection |
| `torn_packet` | `NeverTorn`, a line of the client's README, violated | as `mqtt_client` |
| `provisioning` | `StationRunsSavedConfig`, `SubmissionEndsInReboot`, `GateIsNeverShutOut` | 2 valid forms, 1 invalid, storage errors and power loss at any time |
| `saved_page` | what the page says, violated | as `provisioning` |
| `debouncer` | `OncePerPress` | 3 stable samples, every history of 12 |

**Why the bounds are enough.** In `gate` the travel times do not divide evenly
into the positions, so both roundings occur; opening and closing differ; the
head start is longer than a unit of travel, so the leaves can be caught in every
relative position; the pause is longer than the overrun. No input is bounded:
commands, barriers and wind come in any number and order. In `firmware` the two
directions of leaf A differ, so that an estimate by the wrong travel time shows,
and it stops halfway. The remaining runs
shrink only the leaves, whose arithmetic `gate` covers, to have room for the
lamp, flash or liveness. In `mqtt_publish` the queue is one longer than a full
republish and four versions make up to eight messages, so it overflows in every
phase of a reconnect; two topics let a reconnect find one subscription done and
the other on its way. In `mqtt_commands` the
queues are as small as `DepthAssumption` allows, the case in which the
connection task and the handler could wait for each other: of two commands the
second has to wait. (With fewer places than topics they could: the handler would
wait for a place in `SUB_QUEUE`, the connection task for one in `INCOMING`.) In
`mqtt_client` the receive buffer holds one packet and a half, so reads end inside
a packet, and cannot hold the larger one; the send buffer likewise has room for a
part of a packet; the times keep the order of the real ones (50, 10, 90 s) and
are as tight as `KeepAliveAssumption` allows at this scale. Three packets are the
answer to CONNECT and two more of any kind. Twelve samples hold
two presses with a release between them, or one with bounce on both edges.

**`LeafOrder` is about the estimates and depends on the installation.** What it says
of the leaves themselves is up to the roundings and only until a reset in
mid-movement (see the finding `power_loss`). After that the way back is a full run:
`FullRunFindsTheEndStop`, that a leaf booked from one end to the other has really
arrived. `LeafOrder` holds for the shape of
`gate_config.rs`: in either direction the leaf that goes first is not slower than
the other, and the head start is not shorter than the reverse pause. That is
`HeadStartAssumption`; with a leaf B that opens faster the property is false. It
says "not behind" rather than "ahead": when the gate task runs so late that a
leaf's pause and the other's head start are both over, they start together.

**Fairness.** `WF` of the gate task, of the light task, of `level_task`, of each
MQTT task, of the Wi-Fi task and of time: the executor polls a task that was woken, none of them loops without
awaiting, and the clock runs. No fairness is assumed of inputs, of
storage errors, of resets or of connection breaks. `WindLockPursuedAndDurable`,
`BrokenBeamStopsGate` and `BrokerConverges` assume in their statement that
resets, or breaks and failed joins, end. In `MqttClient` reading is strongly
fair: the select polls `poll` before its other arms, so bytes that have arrived
are read before an outgoing message or the timer can drop the future again.
`PublishesAreDelivered` assumes in its statement that the broker keeps reading.
The save has weak fairness in a run without storage errors: a write that does
not fail ends. Taking the flash mutex is strongly fair: whoever releases it
awaits something else before wanting it again. The broker handles what it
received.

**What `device_live` also shows.** A restored wind lock is pursued twice: by the
command `Gate::new` leaves for the first `step`, and by `barrier1_set`, which
sends the forced open again when the beam is clear. `WindLockPursuedAndDurable`
needs both. When `level_task` runs before `Gate::new`, its first call finds no
lock and sends nothing, and as long as the beam stays clear there is no other:
only the command is left. When the beam blocks the command's only attempt, only
`barrier1_set` is left. Without either of them TLC refutes the property.

**What `HealthyStaysUp` leaves out.** It speaks of the client waiting for input,
stage `reading`. While it hands a message over or writes, nothing limits how long
that takes: after a hand-over longer than the socket timeout the connection may
end with the broker there, before the ping that is due has been answered.
The subscriptions `run_once` renews between CONNECT and its loop are in
`MqttLink`; in `MqttClient` the loop follows CONNACK at once.

## Findings

* `power_loss`: the comment on the gate task says "so a power loss never loses
  track of where the gate was or whether the wind lock was engaged"
  (`src/physical/gate.rs:104-106`, likewise `app-core/src/storage.rs:23-24`).
  Only the state `step` returns is saved, so a reset in the middle of a movement
  restores the position from before it, and the next command plans its run from
  a wrong position. The lock, too, reaches flash only when the forced open has
  ended: a reset during it boots unlocked, nothing pursues the open any more, and
  closing is accepted. The run shows a reset that loses both.
  The order of the leaves is then that of the estimates only, although
  `gate_config.rs:8-10` calls it "always preserved": when the record of the closed
  gate is restored with both leaves open, a short open followed by a close leaves
  leaf B, believed closed, where it is while leaf A moves towards closed.
* `torn_packet`: "`poll()` stays cancel-safe" (the vendored client's
  `README.md:16`), and `client.rs:236-237` expects that after a drop in the
  middle of the acknowledgement "the next poll delivers the packet again". On the
  receiving side it does (`ImplementsDelivery`). But the part of a PUBACK or
  PINGREQ the socket has already taken stays in the stream, and the next packet
  follows it. It takes a send buffer with less room than the four or two bytes of
  these packets, hence a broker that has stopped reading for a while.
* `saved_page`: the form is answered "Saved. Rebooting into station mode..."
  (`app-core/src/provisioning.rs:40`) before anything is saved; likewise
  `provisioning_http.rs:18` says the signal is set "once a valid form submission
  has been persisted". When the save fails, the device reboots unconfigured. A
  second form submitted between the save and the reset is lost the same way.

What does hold of restarts is in `firmware` and `device_live`.

## Proofs

Every safety property that a passing run checks - the invariants, the action
properties and both refinements - is a theorem for all values of the constants.
The assumptions are the named `ASSUME`s of the modules, which TLC evaluates on
each instance:

| assumption | says | source |
|---|---|---|
| `MaxPosAssumption`, `TimingAssumption` | the types of scale and timings | `motor.rs` |
| `OverrunAssumption` | the overrun is at least a tick | `END_STOP_OVERRUN`, a second |
| `HeadStartAssumption` | the leaf that goes first is not slower and not started later; the head start covers the reverse pause | `LEAF_A`, `LEAF_B`, `REVERSE_PAUSE` |
| `DepthAssumption` | `OUTGOING` holds one republish, the others one entry per command topic | the depths in `mqtt_client.rs` and the topics of `discovery.rs` |
| `TopicsAssumption` | topics come as finite lists | the topic tables |
| `KeepAliveAssumption` | interval plus check stay below one and a half intervals and within the socket timeout | the comment and values in `mqtt_client.rs` |
| `SizeAssumption` | a packet has at least two bytes; an outgoing one fits the send buffer | the MQTT header; the socket's buffers |
| `FormsAssumption`, `StorageErrorsAssumption`, `HalfPeriodAssumption`, `SamplesAssumption` | types | |

`HeadStartAssumption` is used by `LeavesKeepOrder`, and through the invariant
`Order` by the theorems of `FirmwareProofs`; no other proof cites it. The bounds of the models
(`MaxVersion`, `MaxCommand`, `MaxPackets`, `MaxSamples`, `WireDepth`) are
arbitrary numbers in the proofs.

| module | theorem | property |
|---|---|---|
| `MotorProofs` | `CompletedRunArrives` | a completed run is booked at the end |
| `GateProofs` | `TypeCorrect` | `TypeOK` |
| | `SafetyIsNeverLost` | `SafetyWake` |
| | `GateSettles` | `SettledWhenIdle` |
| | `DoneLeavesArrived` | `DoneMeansAtEnd` |
| | `LeavesKeepOrder` | `LeafOrder` |
| | `AnnouncementsAreFresh` | `NoStaleAnnouncement` |
| | `ForbiddenEnds` | `ForbiddenMovementEnds` |
| | `RelaysStartSafely` | `SafeStart` |
| | `MovementsArrive` | `CompletedMovementArrives` |
| | `ForcedOpenArrives` | `ForcedOpenRunsToTheEnd` |
| | `ImpulsesMove` | `ImpulseMovesTheGate` |
| | `BypassLastsOneMovement` | `BypassIsOneShot` |
| | `GateServes` | `ImplementsService` |
| `LightProofs` | `LightNeverSleepsThrough` | `LampWake` |
| `FirmwareProofs` | `IdleStatesAreDurable` | `IdleStateDurable` |
| | `CachesAreFlash` | `CacheIsFlash` |
| | `BootsInOrder` | `RunsTheGate`, stated there: from `Gate::new` to the next reset the firmware runs `Gate` |
| | `SafeAcrossRestarts` | `SafetyWake`, of the gate with resets |
| | `FullRunsReference` | `FullRunFindsTheEndStop` |
| | `DeviceRunsFirmware` | `Device` implements `Firmware` |
| | `BeamIsNoticed` | `BrokenBeamIsNoticed`, stated there |
| `MqttLinkProofs` | `QueuesStayBounded` | `TypeOK` |
| | `SubscriptionsSurvive` | `NoSubscriptionLost` |
| | `CommandsKeepOrder` | `CommandsInOrder` |
| | `BrokerNeverGoesBack` | `RetainedNeverGoesBack` |
| | `NewestStateArrives` | `NewestStateOnItsWay` |
| | `ConfigsArrive` | `ConfigsOnTheirWay` |
| `MqttClientProofs` | `ClientDelivers` | `ImplementsDelivery` |
| | `KeepsAlive` | `WithinKeepAlive` |
| | `BrokerIsNotGivenUp` | `HealthyStaysUp` |
| `ProvisioningProofs` | `StationIsConfigured` | `StationRunsSavedConfig` |
| `DebouncerProofs` | `PressesCountOnce` | `OncePerPress` |

**A leaf.** `CompletedRunArrives`: the run time rounds down to a whole tick and the
distance to a whole unit of position. The first rounding loses less than one
tick, so one tick of overrun brings the elapsed time back to at least what the
remaining distance takes, and then the second rounding cannot fall short of it.
This is why the overrun has to be at least one tick: without any the property
fails, as its mutant shows. For the order of the leaves `MotorProofs` adds that
what a leaf has left to travel shrinks with the time it has run and grows with
its travel time, roundings included.

**The gate.** All theorems of `GateProofs` rest on one inductive invariant `Inv`:

* `TypeOK`;
* `Leaves`: what a leaf's phase says about its relay, its deadline and its
  position. A running leaf is in the direction of the movement and its elapsed
  and remaining time add up to at least its run time, which together with
  `CompletedRunArrives` makes a done leaf arrive; a waiting leaf has rested by
  the time it is due, which is the reverse pause of `SafeStart`;
* `Shared`: the published direction and position agree with the movement;
* `LockOwnsSlot`: while the wind is locked the command slot holds nothing but
  the forced Open. The trigger overwrites what was there and the early returns
  of the normal inputs keep it clean, which is why no command ends a forced
  open;
* `SafetyWake`: while a movement is forbidden, its reason to wake is set. The
  step proof needs every caller of `drive` to have passed the check for a block,
  and the loop of `drive` to check again before each wait.

Two more are added where they are needed. `Order`, for `LeafOrder`: in a
movement the leaf that goes first is `Ahead` of the other - due no later, begun
no further from its end, on for at least as long, and with no more left to
travel. `LeafOrder` alone says nothing of who starts when, so it does not survive
a tick. `Travel` and `MovedIfOn`, for the refinement and the bypass: an opening
gate that was not closed at the last rest still has a leaf off the closed end
(and the other way round), so that the end of a movement is classified as
`GateService` allows; and `drive` remembers that it has energized a motor. Each
step of the gate task has one of four outcomes (`Rests`, `Begins`, `GoesOn`,
`Ends`), each of them a step of `GateService` or a stutter.

**Restarts.** `FirmwareInv` has two cases. Before `Gate::new` (`Unborn`) nothing
is in `CONTROLS` but what the barrier tasks told, and no relay is on. Afterwards
`Inv` and `Order` hold. In both, `Stored`: flash, cache and the save in flight
hold snapshots in order, and a save in flight is out of date only if the gate
task has more to do. `Gate::new` on any such snapshot makes an initial state of
`Gate`, and every step from there to the next reset is one of `Gate`
(`BootsInOrder`), so everything proved of the gate holds between resets;
`SafeAcrossRestarts` states that for `SafetyWake`. For the leaves this is
bookkeeping: it is the restored estimates that are in order. Each step of `Device` is one of
`Firmware` or nothing to it (`DeviceRunsFirmware`), so that all of this holds of
the device. What the gate knows of barrier 1 is what `level_task` has seen since
the boot (`Sampled`), as a reset makes both forget it together; with
`SafetyWake` that is `BrokenBeamIsNoticed`, the safety half of
`BrokenBeamStopsGate`.

For the leaves themselves, `Swept`: a leaf whose relay has been on for `ran` ticks
has really moved at least that far or stands at its end stop. As the elapsed time
that books the full way is the full travel time at least
(`FullWayTakesFullTime`: rounding down never books more than was run), the leaf
stands at the end stop when its run from the other end is booked - wherever it
was when the run began.

**The connection.** `Types` gives each queue its type and bound, and what the
connection task holds in which state. `NoSubscriptionLost` is inductive with
it. For the order of commands, `Queued`: executed commands, `INCOMING`,
the command in hand and the socket hold later and later ones. For what goes out,
`InOrder`: the packets on the wire, in hand and in `OUTGOING` carry versions
that do not decrease, none older than what the broker retains for its topic. That
alone makes `RetainedNeverGoesBack`; for the newest state `Complete` adds that
from the republish on each topic has its newest version carried or retained. The
core is `KeepNewestKeeps`: what remains of an overflowing queue is its end, which
contains whatever was just added if that fits the depth - hence
`DepthAssumption`.

**The client.** `Clock` bounds the time since the last transmission by the
interval plus the timer of the select, which is `WithinKeepAlive`. `Stream` says
that the bytes in the buffer and in the socket are whole packets in the order
they were sent, up to the last, and that what is marked consumed is exactly the
packet at the front. `Current` is the packet behind that mark, a cursor that no
read and no dropped future moves: every step leaves it (`Stays`), moves it over a
packet that is no message (`PassesOver`), moves it and delivers (`Delivers`), adds
a packet behind it (`Sends`) or starts anew (`Restarts`). `Accounts` ties it to
the history: the messages before the cursor are the delivered ones. So a step of
the client is one of `Delivery` or a stutter. `HealthyStaysUp` needs both: by
`Heard` the silence of a broker that is there is no longer than the client's own
once the connection is up, and while the answer to CONNECT is outstanding it is
`Stream` that shows it is complete or still arriving.

**Provisioning and inputs.** The config that was loaded is the one in flash from
boot to the station mode, and what flash holds is a valid form that was answered
as saved. The debouncer's counter counts the last samples of the awaited kind
and the sample before them is of the other kind, so it is full exactly when a
window of the reference is.

Model-checked only, as the prover has no rule for fairness: the liveness
properties `LampGoesDark`, `LampBlinks`, `MovementIsWarnedAbout`,
`WindLockPursuedAndDurable`, `BrokenBeamStopsGate`, `AnnouncementCatchesUp`,
`ReadCommandsAreExecuted`, `BrokerConverges`, `LossIsNoticed`,
`PublishesAreDelivered`, `SubmissionEndsInReboot` and `GateIsNeverShutOut`.

## Not modelled

The access point, DHCP, DNS and HTTP (library services; their effect is that the
connection comes and goes), the HTML form and the text of its fields, the JSON of
the discovery configs, topic and payload strings, the MQTT codec and packet ids,
the record map in flash, the simulator of the unit tests, the board.

## Plan

The safety half of further liveness properties as theorems: that work which is
left is never without a step that would do it, stated without fairness. For
`ReadCommandsAreExecuted`: a command read from the socket stays in hand or in
`INCOMING` until it is executed. For `AnnouncementCatchesUp` it is
`NoStaleAnnouncement`, for `BrokenBeamStopsGate` it is `BrokenBeamIsNoticed`.
