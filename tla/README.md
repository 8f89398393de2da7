# shotStopper: TLA+ models, TLC runs and TLAPS proofs

This directory holds the formal side of the shotStopper firmware: an ESP32
program that drives the brew circuit of an espresso machine through relay K1,
stops the shot by weight, and serves a web page, a BLE companion and webhooks
beside it. The models are translated from the sources under `src/`; paths below
are relative to `src/shotStopper/` unless they say otherwise.

## 1. Inventory

The firmware runs a handful of contexts that share state:

- the **control task** (`loop()` in `shotStopper.cpp`), the only one that may
  close K1, one pass every few milliseconds;
- a **GPTimer interrupt** and the **esp_timer task**, which open K1 on a deadline;
- the **scale worker**, which owns the BLE connection to the scale;
- the **network task** (Wi-Fi, HTTP server, OTA, pending configurations) and the
  **HTTP server task**;
- the **settings task**, the **webhook task**, the **buzzer task**, and the NimBLE host.

| Component | State it keeps | Operations | What is hard | What makes it correct |
|---|---|---|---|---|
| Relay driver (`MachineRelay.h`, `HardwareTimer.h`, `Safety.h`) | commanded state, trip latches, pin, three timers, generation | close, open, trip, service, reassert | interrupt and callbacks between any two steps | no contact outlives its limit; a cancelled close stays open; a lockout lasts |
| Control loop (`shotStopper.cpp`, `Machine.h`) | session, stopper state, faults | service, sample input, mirror, policy, web command, feed | snapshots older than the state they act on | a closed circuit belongs to a cycle; a trip ends it; a fault reboots |
| Reset guard (`ResetGuard.h`) | RTC record that survives a reset | begin, record, checkpoint | a reset between two stores | an energized K1 is always marked |
| Watchdogs (`Watchdog.h`) | per task supervision | feed, fault, restart | a fault in another task during a shot | a fault opens K1 and reboots |
| Paddle machine (`MachinePaddle*.h`) | paddle level, suppression of a hold | sample, mirror, rewarm | the mirror against trips | a held paddle never undoes a stop |
| Momentary machine (`MachineMomentary*.h`) | pulse, pending stop retries, inferred or reed running state | sample, pulse, retry, infer | inference from the operator's own button | a stop is retried until the machine is off |
| Brew, rinse (`Brew.h`, `BrewTypes.h`, `Rinse.h`) | cycle state, prediction, drip | begin, sample, stop, finalize | stale weights, tare in flight | a stop is requested once, each cycle is recorded once |
| Scale worker (`ScaleWorker.cpp`, `ScaleLink.h`, `ScaleTypes.h`) | link, command queues, acknowledgements | connect, tare, timer, publish | late acknowledgements, reconnects | no sample or ack of an old connection is used |
| Weight and cup sensing (`ScaleSense.h`, `CupPresence.h`) | filters, cup state | sample | noise at thresholds | hysteresis: no flapping |
| Settings store (`Persistence.h`, `NvsDualSlot.h`) | two NVS slots, durable revision | load, save, factory reset | power loss in a write, revision wrap | the last acknowledged settings survive |
| Settings writers (`shotStopper.cpp`, `Network.cpp`) | three copies of the settings | dispatch, save, confirm, revert, reset | lost updates between copies | an acknowledged change is not undone by an older copy |
| Maintenance lease (`shotStopper.cpp`, `Network.cpp`) | lease, stage, cancellation | begin, complete, expire, restart | the lease against a cycle that starts | no maintenance while a cycle runs |
| Web commands (`shotStopper.cpp`, `Network.cpp`) | queues, results | accept, apply, report | a full queue, one result pending | every accepted command gets one terminal result |
| Network (`Network.cpp`, `Time.h`) | STA state, pending window, SoftAP | connect, confirm, revert, recover | late Wi-Fi events | a wrong configuration is reverted |
| Stores (`ShotLog.h`, `ShotCurve.h`, `LastShot.h`, `ResetHistoryStore.h`) | rings in flash | append, load, reset | power loss | no record is lost but the one in flight |
| OTA (`Ota.cpp`, `OtaImage.h`) | upload session, pending verify | begin, write, end, confirm | abort at any point | an unconfirmed image is rolled back |
| Webhooks (`Webhook.cpp`) | queue, attempt | enqueue, deliver, retry | overflow, retries | bounded retries, no duplicate of a delivered event |
| Recovery (`RecoveryGesture.h`, `Recovery.h`) | gesture, intent record | feed, begin, finish | a reset in the middle of a recovery | an intent is carried out or dropped, not half done |
| BLE companion (`ble/`, `BleCompanion.h`) | sessions, radio policy | connect, command, notify | the radio shared with the scale | the scale has precedence |
| Alerts (`Alert*.h`, `Buzzer*.h`) | channel, pattern | request, step | preemption | a safety alert is never displaced |
| Scale library (`libraries/EspressoScaleBLE`) | client state, operations, event queues filled by the BLE host | scan, connect, subscribe, write, poll, reset | callbacks of operations that are no longer current, queues at their limit | the client never waits for what nobody will report |
| Wall clock (`Time.h`, NTP in `Network.cpp`) | clock state, SNTP client, gate of the radio | arm, answer, abort, service | the gate is published as four atomics by other tasks | no attempt is left that cannot be answered |
| Serial CLI, domain rules, diagnostics, migration, web page, scripts | | | | not modelled: sequential text, layout or measurement code |

## 2. Modules

| Module | Models | Kind |
|---|---|---|
| `CircuitLease` | what the relay driver promises: a close is a lease of bounded length | abstract specification |
| `RelayDriver` | `MachineRelay.h` and its timers: each critical section, pin access and timer call as an operator | operators over the driver's state |
| `ControlLoop` | the control task as steps another context can interrupt; interrupt, callbacks, faults, glitches, resets | specification |
| `ControlLoopProofs` | theorems about `ControlLoop` and its refinement of `CircuitLease` | proofs |
| `DualSlotStore` | `Persistence.h`, `NvsDualSlot.h`: records, revisions and the choice of slots | operators |
| `SettingsStore` | every writer of the settings: boot recovery, network task, control task, settings task, power loss | specification |
| `SettingsStoreProofs` | theorems about `SettingsStore` | proofs |
| `ScaleLink` | what the control task may count on from the scale and its worker | abstract specification |
| `BrewCycle` | the brew: samples, weight control, guards, retares, timers of the scale, record of a shot; over `ScaleLink` | specification |
| `MCBrew` | the configurations of `brew.cfg` | model checking |
| `ScaleWorker` | `ScaleWorker.cpp`: preference, search, commands and answers; shown to implement `ScaleLink` | specification |
| `ScaleClient` | the BLE client of the scale library and the callbacks of the host | specification |
| `Maintenance` | the lease, the two command queues, the scan, the planned restart | specification |
| `Firmware` | `Ota.cpp`: upload, journal, commit, verification, boot loader | specification |
| `WifiNetwork` | station, access point, trials of a configuration, serial commands | specification |
| `TimeSync` | the wall clock and the NTP client behind the radio's gate | specification |
| `MomentaryView` | what a momentary build knows of its group: the reed and the inferred view | operators |
| `Momentary` | presses, pulses, stop retries of a momentary machine under the loop | specification |
| `History` | shot log, curves and last shot: memory, flash, the two writers | specification |
| `Webhook` | `Webhook.cpp`: worker, queue, gate and cancellation | specification |
| `Buzzer` | `Buzzer.h`: the sound that plays and the one that waits | specification |
| `BrewProofs` | theorems about `BrewCycle` | proofs |
| `MaintenanceProofs`, `FirmwareProofs`, `WifiNetworkProofs`, `HistoryProofs` | theorems about these modules | proofs |
| `MCServices` | the ten modules from `ScaleWorker` to `Buzzer` on small instances; those with theorems are instantiated from their proof modules | model checking |
| `ServicesInvariants` | the inductive invariants of `ScaleClient`, `ScaleWorker`, `Momentary` and `Buzzer`, over the variables of `MCServices` | proofs |
| `ServicesProofs` | these theorems, and those about `ScaleClient`, `ScaleWorker`, `TimeSync`, `Momentary`, `Webhook` and `Buzzer`, of the behaviours that `MCServices` checks | proofs |

The relay and the settings share no state: the relay never waits for a save, and
a save is never made while a cycle runs (`controlAllowsConfigurationNow`,
`beginMaintenanceLease`). `BrewCycle` and `ScaleWorker` meet in `ScaleLink`: the
brew is checked over the link that `ScaleLink` promises, and the worker is checked to
keep that promise, so the two are composed without multiplying their states. The
other services meet the brew only in gates and requests that it raises at any time,
which are free choices of their models.

### The relay and the control loop

`RelayDriver` holds the variables of the C++ globals by their names
(`circuitClosed`, `relaySafetyState`, ...). An operator is one uninterruptible
piece of code: a `relayMux` section, one GPIO access, one timer call. `ControlLoop`
gives the control task a program counter `pc` whose values name those pieces;
between two of them any other context may run. `setMachineCircuitClosed` has
eight callers; `call` keeps who called. Its close is the sequence `close` (the
snapshot `before`), `closeStop`, `publish` (ARMING with a new generation),
`armIsr`, `armService`, `commit`; its open is `open`, `openStop`. A cycle that turns into a
rinse closes again only what a trip has opened since the pass took its snapshot (`rinse`,
`BeginRinse`); a rinse from the web finds the circuit closed, or is a start like another.

Abstractions, all in `ControlLoop` and `RelayDriver`:

- a cycle that runs is the one stopper state `CYCLE`; the policy may end it at any
  pass, which covers the end by weight, by wall, by a web stop and by the lease;
  when each of these ends it is what `BrewCycle` is about;
- the generation counter is the flag `armGenCurrent`: only "is it still the one
  I published" is ever asked;
- time is a tick; `sinceClosedAt` saturates at the hard limit, the largest value
  any comparison needs; `contactAge` is a history variable for the properties;
- the limits a cycle asks for are in `1..HardMax`, as the settings validation
  leaves them, so the refusal `INVALID_LIMIT` is unreachable and left out;
- the two esp_timers start together or not at all: when the first starts and the
  second fails, the code trips and stops all timers, as when both fail;
- the external feedback and heartbeat hardware, compiled out by default, and
  `relaySafetyFault`, which nothing reads for a decision, are left out;
- the unsafe override of the web start, which skips the readiness gate, is left out
  here; it is the configuration `Override` of `MCBrew`.

Contexts: `ISR` may fire whenever its alarm is due; if `"isr" \in Prompt` no tick
passes while it is due. `ServiceTimers` likewise (`DueCallback`); with `Delayed` set, a
callback may also come from before the present close, since `esp_timer_stop` does not
withdraw one that is under way and it reads the time before it takes `relayMux`
(`DelayedCallback`): such a callback finds every limit passed. `GpioGlitch` is the loss of the
pin's level that `reassertCommandedRelayClosedPin` exists for. `Crash` resets at
any point, also between the RTC marker and the pin of the commit. `OtherTasks`
raise the flags the loop polls.

### The settings store and its writers

`DualSlotStore` has what `savePersistedSettings`, `loadPersistedSettings` and
`resetPersistedSettingsToFactory` compute; `SettingsStore` has the tasks that call
them. `pc` is the boot sequence of `setup()` (`inspect` the recovery record, the
`gesture`, a recovery, `load`), and after it the network task: `run` between
commands, or the steps of a factory reset. Boot and command share those steps, as
`resetAllDurableStores` does; `caller` says for whom they run. `TaskSave` is the
settings task, the other actions of `ControlStep` are the control loop, and
`PowerLoss` may come at any point.

A settings record is a `recipe` (runtime configuration, presets and bullseye melody:
only the control task changes them, so that it may compare and decide in one step) and a `net` (the station configuration: what the network
task owns). Each of the two tasks keeps its own copy, and each save is composed of
both: that is where one task can bring back what another has changed. The preferred
scale, which is in the same record, is changed by the scale worker while the control
task decides about its save; that part is in `ScaleWorker` (`Dispatch`, `Copy`, `Decide`).

Abstractions:

- one step per holding of the flash lock, but for the factory reset, which holds it
  over its two slots: `writeA` (locked, slot A), `writeB` (slot B, verified,
  unlocked), `note` (the result is used after the unlock);
- flash: a write reported done has stored the record; a write that failed or was cut
  has left the old record or none that is valid. Reads do not fail: an NVS partition
  that cannot be opened at boot makes `setup()` save the defaults over the settings,
  which is not modelled;
- `InReach` (constant `MaxGap`) is a bound of the model: no slot falls more than
  `MaxGap` revisions behind the other. In the code the order of two revisions is
  lost when they are 2^31 apart. The theorems hold for every `MaxGap` for which the
  order is defined, up to 2^31 - 2 for the revisions of the code;
- `verifyFactorySettings` compares the network, the device password and the scales,
  and not the runtime settings or presets; in the model, the network. The BLE settings, the shot log and the curves are steps that may fail;
- the station configuration is there or not; its pending and confirmed states, the
  device password and the webhook are left out, and so is the command that finds
  the same network already saved and saves nothing;
- a lease is begun when the machine is idle; its queues, its settle time and its
  cancellation are those of `Maintenance`;
- `Overlap = FALSE` assumes that no runtime save is in flight when a factory reset is
  accepted. The lease stops new ones and waits 100 ms before the command is
  forwarded; nothing makes it wait for the save. `settings_scratch` sets it to TRUE.

### The brew and the scale

`ScaleLink` is the scale as the control task sees it: a link with a generation that
counts connections, weights of which any number may be missed, a queue of commands,
one answer for each command that was executed, lost or read in any order, and a
worker that may stall. `BrewCycle` extends it with the pass of `stateMachineTask`:
`session` is `CycleSession` with the trajectory of the shot, `timerStop` is
`pendingScaleTimerStop`, `drip` is `pendingFinalize`; `observed` and `current` are
the last sample seen and the last one kept, each with its age and the connection it
came from. A tick is `MAX_AUTOMATION_WEIGHT_AGE_MS`, after which a weight is stale;
the state machine runs in each. Weights are steps that the code tells apart (empty,
recovery minimum, target, recovery maximum, a cup, overload). The regression, the
classifier of touches, the cup detector and the gestures are choices; what is
modelled is what the code does with their results. A sample is read if it is of the last
connection, also when that has been lost since (`TakeWeight`). A rinse comes from the
paddle, out of a running brew, or from the web.

`config` fixes the settings of a behaviour, and with them which branches of the
policy are alive: the features interact in pairs (a retare and the baseline it
awaits, a lost link and a guard, a deferred stop of the scale's timer and the next
cycle), and each configuration of `MCBrew` turns on those whose interplay it is
about.

`ScaleWorker` has the pass of the worker as steps, because the control task writes
what it reads between them: the preference and its reset, the pause, the queue of
commands. What the control task saves of the preferred scale is a copy taken when a save
is dispatched or has ended, and a decision made from the copy later. The BLE client is what the worker sees of it (searching, connecting, up).
`Promised` maps the worker to `ScaleLink`, variable by variable. `ScaleClient` is
that client: `client` is what the worker owns, `mail` what callbacks leave for it
(two bounded queues, one candidate, flags that outlive a full queue), `call` a
callback that has checked its operation and has not acted yet, `radio` the host.
Left out: which links the host is already closing, the answers of a procedure that
is no longer the current one, the vendor protocols, samples and the scale's standby.

### The other services

`Maintenance` keeps the two queues between the HTTP task, the control task and the
network task (`inbox`, `outbox`), the one-place slots for what found no room (`owed`,
`completion`), the lease, the job under way, the Wi-Fi scan and the planned restart.
`Firmware` has the two slots of the boot loader with their states in otadata, the
session, and the two journal records; a restart may come between any two steps.
`WifiNetwork` has one action per service of a pass of the network task and per
command; times are choices. A saved network is configured at once; the restart that it
asks for comes at any time later, with commands, requests and the old link in between, or
is taken back by a command whose save fails (`ChangeConfig`, `SaveFails`, `AskRestart`).
Until then a pass serves nothing but commands. `TimeSync` splits the setters of the gate and `armNtp` at
each atomic. `Momentary` splits a pass of `loop()` at the three places where the
view of the group is taken; a retry, a pulse and a press last as long as they like.
The walls of a run are served in a rinse as well.
`History` has three stores with a copy in memory and one in flash, written by the
control task (over several passes) and by the HTTP task. A save computes the checksum,
yields and then copies the memory (`Begin`, `Copy`): the other task may have changed it in
between, with or without the lock of the flash (`Make`, `RecordShot`). A single change of
the memory is one step. `Webhook` splits the life of a request at the mutex and the
atomics; a start of its worker that fails changes nothing and is not a step. `Buzzer` has one sound that plays and one
that waits, moved on by a timer and by the loop.

`MCServices` checks these ten together in one run: the variable `subject` says whose
behaviour it is, and the variables `v1` to `v17` are given to that module by
`INSTANCE ... WITH`. Their states add up; nothing is composed here that the code
composes.

## 3. Runs

| Run | Question | Bounds |
|---|---|---|
| `relay_interleavings` | safety under every interleaving, the interrupt prompt, and the refinement of `CircuitLease` | `HardMax = 3`, limits 2 and 3: a wall shorter than and equal to the cap; `Delayed = TRUE` |
| `relay_service_timers` | the bound on a contact when only the esp_timers are prompt | `HardMax = 2`, limits 1 and 2; `Delayed = TRUE` |
| `relay_released_paddle` | the pin agrees with the command when no paddle is held | `HardMax = 3`; `Delayed = FALSE` |
| `relay_liveness` | contacts open, trips end cycles, faults reboot | `HardMax = 2`, limit 1, no timer prompt; `Delayed = FALSE` |
| `relay_stale_reassert`, `relay_mirror_recloses`, `relay_reset_during_close` | findings, see section 5 | `HardMax = 2` |
| `settings_store` | the stored settings under failures, power losses, the wrap and all writers | `MaxRevision = 9`, `MaxGap = 3`, two recipes, `Overlap = FALSE` |
| `settings_scratch`, `settings_reset_undone` | findings, see section 5 | the same; `Overlap = TRUE` in the first |
| `brew` | the brew over the promised link, in ten configurations | 1 or 2 connections and cycles, walls of 1 to 4 ticks, a queue of 3 commands, 2 unread answers |
| `services` | ten components, one for each behaviour | below |

For the relay, three ticks are enough: the code compares elapsed time with one limit and with
the cap only, so a wall below the cap, a tick in which nothing is due, and the
deadline itself are the cases there are. For the settings, nine
revisions pass the wrap, leave room for the reset's clamp at the last two, and keep
revisions within reach of each other distinguishable from those that are not (half
the range is 5, the reach 3); a second recipe is what a stale copy brings back.
No constraint cuts a run; every bound is a constant in a guard.

For the brew, two connections and two cycles are what a stale sample, answer or stop
needs to meet the wrong one; a third cycle identifier is the one to come. A wall of
three ticks leaves a fresh, a stale and a lost sample before it; four are needed where
a trend must build up first. For the services: queues of one place make every send
meet a full queue, but for the worker's commands, two of which wait at a time, with two
answers unread, so that their order can be wrong; two scales or networks are what a stale
choice confuses (the networks are symmetric: no property is about their order); seven
operations of the client are a scan, a connection, its set-up, its loss and a second
round; four boots are two updates and a roll back; one shot in stores of one, with a
failure and a crash, is the save that is cut; two claims of the gate are one that
overlaps another. Two requests at a time meet in `Maintenance` (`MaxRequests`); the
run of three that was made while the model was written shows nothing more, and the
theorem `LeaseCarried` covers any number.

**Fairness.** `WF(Control)`: the scheduler runs the control task, or the task
watchdog resets the chip, which is `Crash`. `WF(Tick)`: time passes. A prompt timer
fires when due. `relay_liveness` sets `Prompt = {}`: no timer is assumed to fire and
the loop's own deadline must do. A callback that outlives the stop of its timer can only
trip early, and is under no fairness; the two runs of the relay without it ask about the
level of the pin, where it matters: it may come after `serviceRelaySafety` has read its
snapshot and long before any deadline, so that finding 1 happens with a released paddle
too, and about what happens when no timer fires.

`settings_store` assumes `WF` of the boot sequence and of a command in progress
(`setup()` and the network task run); nothing is assumed of power, of writes, or of
the other tasks.

`brew` and `services` assume no fairness: their properties are safety, and what
must eventually happen is stated as a state that cannot be left waiting
(`EndIsAnnounced`, `LeaseIsCarried`, `SyncingListens`, `WaitsForSound`): whenever
someone waits, what ends the wait is still on its way.

What the run `brew` shows. A shot that the weight ends was weighed by a connected
scale with a fresh sample on the connection the session owns (`WeightStopIsCurrent`);
two samples that will stop it are of that connection and not from before a tare
(`DirectStopIsOwn`); nothing but a wall or the user ends it under the protection
(`NoStopUnderProtection`); the offset is learned from a shot under weight control from
end to end (`LearnsFromWholeShots`); a shot that owes a record gets it once, also when
the next cycle comes first (`RecordedOnce`); the scale's timer is stopped after it was
started and before it is started again, although a stop jumps the queue
(`TimerCommandsInOrder`), and no session is replaced before its stop was asked for
(`TimerStopRequested`).

What the run `services` shows:

- `EndIsAnnounced`: the client of the scale never waits for a report that was lost,
  whatever filled the queues and whichever operation the report was of;
- `ChoiceHeld`: when the worker has looked at the user's last choice it acts on it,
  whatever it was doing when the choice was made; `KeepsPromise`: the worker
  implements `ScaleLink`, in particular it takes the commands in their order and answers
  each once;
- `LeaseIsCarried`: the lease, which blocks every brew, is never lost with a queue;
- `SessionHasItsBytes`, `AlwaysBootable`: an upload resumes over its own bytes, and at
  any loss of power there is an image to boot;
- `AccessOnlyWhenAsked`, `ConfirmedHasWorked`: an access point does not come back once
  the station has joined, and no network is confirmed that never worked. The exception
  `early` is a corner of the code: a network is on trial from its save on, the restart for
  it comes 750 ms later or after the brew, and the old link counts as its own until then.
  A request over that link, which is as little as a look at the status page
  (`Network.cpp:4326`), confirms it unseen if the restart is taken back by a failed save;
- `SyncingListens`: an attempt to set the clock can be answered or is ended;
- `ClosedIsExplained`, `StopsOnce`: K1 is closed for a press or a pulse, and one stop
  toggles the group once. The exception is a limit that is reached in a rinse: it gives a
  pulse and trips, and the trip ends the rinse, which gives another
  (`MachineMomentaryControl.h:159`, `:235`);
- `LoadFindsLastSave`: the store that is loaded is the one saved last. The exceptions
  are corners of the code. `torn`: a save that another task overtakes between the checksum
  and the copy (`ShotLog.h:156`, `ShotCurve.h:127`) writes what no load accepts and reports
  it as saved, so that a load finds an older one, or none. `setBack`: clearing the curves sets their generation to 1
  (`ShotCurveTypes.h:125`), and until both slots are rewritten an older slot may win;
- `OverlapCancels`: a request that overlaps a claim of the radio is cancelled, also
  when its client could not be cancelled at the first attempt;
- `QueuedIsHeard`: a sound that was accepted is heard or gives way to one that
  matters more.

What the run `settings_store` shows: settings outside of a reset change only by an
acknowledged save (`StoredIsKept`), what is acknowledged is what the next boot finds
(`AckedIsStored`), a reset that passed its verification has left factory settings
whichever slot failed (`VerifiedIsFactory`), no erase without a record
(`EraseIsLatched`), no recipe in use is forgotten (`UnsavedIsPending`, which is not about
the preferred scale: see section 5), erased
credentials do not come back (`CredentialsStayErased`), and no recovery restarts the
machine for ever (`BootReachesRun`). The exceptions stated in these properties are
corners that the code does have:

- `AtWrap`: the revision goes from 2^32 - 1 to 1, both odd; that one save overwrites
  the newest record, and a power loss in it falls back to the one before;
- `LastRevisionIn`: a factory reset clamps `existingMax` to 2^32 - 3, so in the last
  two revisions its records are not newer than what they replace;
- `resetPartial`: a reset in which slot A could not be written but B was verified
  reports success. A reset does not respect the parity of revisions, so the next
  save may go to B as well; if it is torn there, a boot finds A, with the settings
  and credentials from before. The corner lasts until a save that a boot would find
  has succeeded;
- `AcrossWrap`: slot B holds a revision before the wrap and slot A one after it. A
  reset takes the greater of the two numbers, not the newer record
  (`Persistence.h:341`), so its revisions are those of slot B; if slot A cannot be
  written, the old record in it stays newer than what the reset has verified and
  reported, and newer than the saves that follow, until they pass the wrap. The
  revisions of the run are too few to reach this; it was found by the attempt to
  prove `AckedIsStored` for every `MaxGap`, and the properties now except it.

Not runs, but worth knowing, from the same code: a command whose save fails sets
`restartPending_` to FALSE and so cancels the restart due after an earlier command
(`Network.cpp:2908`); a torn record of a network reset is indistinguishable
from a torn factory reset, and the boot then resets all settings
(`abandonMalformedRecoveryIntent`).

## 4. Proofs

`ControlLoopProofs` proves, for every `HardMax`, `Limits`, `PaddlePositions`, `Prompt`
and `Delayed` that satisfy the named assumptions: type correctness, that a closed
circuit belongs to a cycle, that a lockout lasts, that a cancelled close stays
open, that a mirror which closes again keeps the latch that ends the cycle, and,
when `"isr" \in Prompt`, that no contact outlives its limit and that the loop
implements `CircuitLease`. When no paddle is held (`PaddlePositions = {FALSE}`) and no
callback outlives the stop of its timer (`~Delayed`), whichever timers are late: that the pin agrees with the command and the marker with
the pin.

Types and `RelayInvariant` are not listed in a run: they are proved. None of these is
inductive by itself. The argument rests on `RelayInvariant`:

- `ClosedIsPublished`: closed only in the published state CLOSED, and not within
  the steps that are about to close or have opened;
- `AlarmCovers`: from its arming on, the interrupt's alarm is due within the limit,
  and nothing stops it while the circuit is closed: this gives `ContactWithinLimit`;
- `CloseBelongsToCycle`: no cycle ends between the request and the commit;
- `LockoutBarsClose`: only the control task sets a lockout, and never in a step from
  which it could leave it, so the unlocked writes of the close cannot lift it;
- `CancelledIsOpen`: the trip that cancels a close has opened the pin.

Two properties have an invariant of their own. `MirrorSawATrip` (for
`MirrorRecloseKeepsTrip`): the mirror closes only a circuit that was closed when it
looked, so a trip came between, and from `close` to `commit` nobody clears the latch.
`ReleasedInvariant` (for `EnergizedOnlyWhileCommanded` and `EnergizedIsMarked`): only
`serviceRelaySafety` rewrites the level, on a snapshot of a closed circuit
(`ReassertedByService`); and since no alarm comes before its deadline
(`NoAlarmIsEarly`), a snapshot that is older than a trip is one of a circuit whose
deadline has passed, so that the check which follows in the same pass opens the
contact. A held paddle, and a callback from before the present close, are left out because
finding 1 is what happens there.

`SettingsStoreProofs` proves, for every `MaxRevision`, `MaxGap` and set of recipes
within the assumptions of `DualSlotStore`:

- `TypeCorrect`: types, resting on lemmas about what each operator returns;
- `NextIsNewer`: the wrapping order of revisions, across the wrap;
- `EraseLatched`, by `Latched`: a resumed operation is the one of the record, and a
  command runs only after the boot;
- the rest when `Overlap` is FALSE (section 2; with it the two properties of finding 4
  are false, and these may be). `Quiet` says that while a reset runs nobody else
  saves: the lease, or the boot that has no tasks yet;
- `AckedHolds`, `KeptHolds` and `VerifiedHolds`, by `StoreInvariant`, whose parts relate
  the durable revision to the two slots: `RevisionsInOrder` (no slot is newer than the
  durable revision, slot A is the first to pass the wrap, and away from a partial reset
  it is not left behind by half the range), `AtSecondSlot` and `AtNote` (what a reset
  has written, or has failed to write, when it is between its two slots and when it
  notes the result after the unlock), `AfterReset` (what it leaves for the next boot),
  and `TakeTurns` (the stored record is in the slot of its parity, so that a save, which
  goes by parity, overwrites the other one; the two records of a reset are excepted,
  since both are factory settings). `Ranges` and `SaveStep` are the arithmetic of the
  wrapping order, `StoreStep` the step;
- `UnsavedHolds`, by `RecipeInvariant`: the stored recipe is the running one, that of
  the request whose result has not been seen, or the difference is pending;
- `CredentialsErased`. `CredentialsStayErased` speaks of the slots only, and any task
  with a copy could break it. `Clean` says that after each step of the reset the
  credentials are gone from one more place, and afterwards from all: slots, scratch,
  the result handed on, the network task's copy, a request in the queue.

`BrewProofs` proves all seven properties of the run `brew`, for every set of
configurations and every length of the windows that satisfy `ConfigsAssumption` and
`WindowsAssumption`; no bound of `MCBrew` is used. They follow from one invariant,
`BrewInvariant` (`BrewInvariantHolds`):

- `WeightKept`: what the weight path keeps of a session. It owns one connection while
  it weighs, and when a sample of a later connection has come it listens on that one or not
  at all (`ConnectionOwned`); a stop that two samples confirm is of that connection
  and no tare is settling (`ConfirmedIsOwn`); the protection ends with its time
  (`ProtectionKept`); a lost shot is not learned from (`LostIsNotLearned`). A sample
  passes through a dozen functions that each change part of the session; the lemmas of
  the module say of each what it keeps, and `ConfirmedIsOwn` is open between the first
  and the last of them (`WeightOpen`);
- `OwedByLast`: a record is owed by the last session only, once it has ended, and not
  when it has been made;
- `TimerKept`: the starts and the answers to them are in the order of the sessions, a
  stop is behind the start of its own session and before the next start although it
  jumps the queue, and a session that ended with its timer running has its stop
  deferred until it is asked for.

`DirectStopHolds`, `LearningHolds` and `TimerOrderHolds` are invariants; `WeightStopHolds`,
`ProtectionHolds`, `RecordsHold` and `TimerStopHolds` are about steps.

The services have one theorem for each property that depends on an order of steps
rather than on data:

- `MaintenanceProofs`, `LeaseCarried`, for every `InboxLength` and `MaxRequests`. That
  the lease is *somewhere* is not inductive: a send may overwrite the one slot for
  completions. `CarriedOnce` says that it is in exactly one of five places (a job in
  the outbox, the job under way, the scan, the completion in its slot, the completion
  in the inbox) and that nothing else is in any of them; hence the slot is free
  whenever a completion needs it. `QueueMoves` has what a send and a receive do to a
  queue. A lease replaced under the override is excepted (`replaced`), as in the run;
- `FirmwareProofs`, `AlwaysBoots`, for every set of images and every `ImageSize` above
  0. `OneIsKept`: while the running image is confirmed it is the one that is selected
  unless a commit selected the other, whole; while it is not, no session is open and
  the other slot holds the image to go back to. `BytesKept` by `BytesAreKept`: a record
  of the journal stays true of its own prefix however old it is, and a session is
  resumed only over that prefix, so a record that could not be erased does no harm;
- `WifiNetworkProofs`, for every set of networks. `ConfirmedWorked` by
  `ConnectedHasWorked`: the station counts as connected only with a configuration it
  has joined, also after a trial was taken back, or with one whose save no restart has
  followed, which `early` then names when it is confirmed. `AccessAsked` by `AskedInvariant`: a
  station that has joined and has lost its network is not started again;
- `HistoryProofs`, `LastSaveFound`, for any number of shots, requests and failures, by
  `HistoryKept`. A save writes the slot that is not read, and of the curves what it writes
  is newer than what is read (`SaveShaped`); what a load finds is thus left alone until the
  last step of the save, and a crash or a failure in between changes only what is not read.
  The pointer of the log names a slot that can be read (`LogKept`), and the generation in
  memory is never behind the one in flash, also after a load that found the older slot;
  both until a torn save (`torn`), and the latter until the web clears the curves, which
  sets the generation back (`setBack`; see the hazards). The last shot has no exception;
- `ServicesProofs`, `ListensHolds`, for the wall clock, without a bound on the changes
  of the gate. `Answerable` says at each step of the attempt what may have started,
  unless a caller is about to ask for the abort or has asked;
- `ServicesProofs`, `OverlapHolds`, for every `QueueLength` of the webhooks and any number
  of events and claims. `CancelsComing` says whose turn it is: the caller that closed the
  gate, or the network task, whose retry needs the latch.

`ServicesProofs` carries them to the behaviours that are checked: `SubjectStays` says that
a behaviour of `MCServices` begins as one of its subject and each of its steps is one of
its subject, so that what holds of every behaviour of the service holds of it
(`LeaseHolds`, `BootHolds`, `BytesHold`, `AccessHolds`, `ConfirmedHolds`, `LastSaveHolds`).
The others are proved there, about services without a proof module of their own; their
inductive invariants are in `ServicesInvariants`, or, of the clock and the webhooks, in the
modules of these:

- `ExplainedHolds`, for the momentary machine. `K1Explained`: K1 is closed only for a
  press or a pulse, and, from the reading of the switch to the pass that follows it, a
  press only counts if it is forwarded. Each function of the machine either leaves K1,
  the switch and the pulse alone (`Untouched`) or closes K1 for nothing only if it was
  already (`Keeps`); a pass is a chain of them. The attempt found arms of the pulse that
  were not exclusive in the model (TLC takes the first, the language does not say): they
  are now;
- `StopsOnceHolds`, for the momentary machine, for any number of presses. That a group is
  toggled once is not inductive: a pulse on top of a toggle is kept off by different means
  at each place. `StopCounted` has them: nothing runs and no rinse begins with a toggle
  behind it; a stop that waits to be seen in the weight leaves a view that permits no
  pulse (`Tallied`); a brew in which the group has been toggled ends in the same pass,
  by a step that knows of it, through the press (`skip`) or through a pulse that is still
  under way; and a rinse has no toggle behind it, and no stop of the firmware that a retry
  could repeat (`Uncut`), but for its limit, whose trip ends it in the same pass. Each note, sensor and request of the machine is proved to keep its share of
  this, and a pass is a chain of them;
- `SoundHolds`, for the buzzer, by `WaitsBehindFinite`: a sound waits only behind one
  that ends by itself;
- `PromiseHolds`, the refinement of `ScaleLink` by the worker, for every set of scales and
  every length of the queues. Each step of the pass is a step of the link or leaves it
  alone; the one that is not plain is the execution of a command, which the link allows
  to succeed only while it is connected, and the worker decides from the client.
  `LinkShown` joins the two: a client that is up is shown as connected, or discovery is
  about to show it;
- `ChoiceHolds`, for the preference of a scale, by `ChoiceKept`. That no wrong scale is up
  is not inductive: one that is being searched for, or connected to, comes up later. `Fits`
  says it of the whole attempt, except while the worker has still to look at the choice,
  because its reasons wait in the mailbox, were taken and not yet applied, or are to follow
  a change of mode;
- `EndHolds`, for the client of the scale library, by `Informed`, over the client, its
  mailbox, the radio and the callback in progress. That an end is announced is not
  inductive: the report of it has to be recognised when it comes. So a report that bears
  the operation of the client bears its generation too (`Stamps`); one operation has one
  handle (`OneHandle`), and none before the radio has answered (`Untaken`); the beginning
  of a link is learnt before its end (`Learns`); and a link that was reported is on the
  air, or its end is told (`LinkTold`), unless the host was reset, which the client sees
  by its `sync`. The attempt found arms of `MayLink` and `ProcedureEvent` that were not
  exclusive in the model (again TLC takes the first): they are now.

No theorem assumes more than the named assumptions of its module, but for those said
above: a released paddle, `~Delayed`, `~Overlap`, a prompt interrupt, an image that is not empty. No
proof uses fairness. The inductive invariants were model-checked on the instances of the
runs, and that of the settings also with 16 revisions, before they were proved.

Model-checked only:

- the bound by the esp_timers alone (`ContactWithinLimit` in `relay_service_timers`):
  `ContactBounded` is for a prompt interrupt;
- liveness (`ContactOpens`, `TripEndsCycle`, `FaultReboots`, `BootReachesRun`), which the
  prover cannot treat.

## 5. Findings

1. **A stale rewrite of the CLOSED level** (`MachineRelay.h:232`). The mirror's
   reassertion reads the pin and writes it with no lock, on a snapshot that may be
   older than a trip; K1 then stays energized in the state TRIPPED with its timers
   stopped. `serviceRelaySafety` calls the same code but checks the deadline on the
   same snapshot afterwards, which takes the level away again
   (`EnergizedOnlyWhileCommanded`). It takes a held paddle and a level that had
   already been lost.
2. **The mirror can re-close** (`MachinePaddleControl.h:25`): two snapshots, a trip in
   between. The latch that is preserved ends the cycle in the same pass
   (`MirrorRecloseKeepsTrip`), so the second close is short.
3. **A reset during a close does not lock out** (`ResetGuard.h:239`), whatever the
   documentation and a comment of `MachineRelay.h` say.
4. **A factory reset reads the scratch buffer after it has unlocked it**
   (`Persistence.h:397`). A runtime save that waits for the lock gets it there, and
   the reset hands on what that save left in the buffer.
5. **A factory reset is undone by a pending save** (`shotStopper.cpp:4306`). What the
   control task has not saved yet when the reset is accepted, it saves after it:
   recipe, presets and preferred scale are back after the restart, the credentials
   are not.

Not runs, but met while modelling. Where a property is about one of these it names it as
its exception (section 3), and the model has the steps that lead there; the others are
outside of what the properties say. Each is a corner that a change in its neighbourhood
should know of.

- *Momentary.* A held switch, or a pulse, closes K1 again after the hard limit has
  opened it, with a clock of its own (`MachineMomentaryControl.h:60`). A limit that is
  reached in a rinse pulses, and the end of that rinse pulses again (the exception of
  `StopsOnce`); a second web stop in the grace time pulses
  again; a rinse re-closes with no pause. Where a retry is skipped, its flag stays and
  the retry never pulses, which `docs/STATE_MACHINES.md` tells otherwise. A planned
  restart asks for the stop in the pass that restarts, so its pulse is cut.
- *Maintenance.* A lease begun under the override replaces the one slot and its
  command (`shotStopper.cpp:4053`). A failed save clears a restart due after an
  earlier command. A restart that was forwarded and is cancelled by the paddle is
  forgotten, one that was not is held. A pending restart blocks the end of a scan.
- *Network.* A network that was saved can be confirmed over the link of the old one before
  the restart (the exception of `ConfirmedHasWorked`). The restart of the access point for a new device password outlives
  `AP_STOP` (`forced` in the model).
- *Clock.* The callback of SNTP checks the gate and then queues: a completion of an
  aborted attempt may be applied when the gate opens again, unlike its comment says.
  A stale abort ends the next attempt. In the states FAILED, SYNCING and OFF the time
  reads 0 although an anchor exists.
- *Webhook.* The control loop closes the gate on every pass of a cycle, which cancels
  requests also where they should not be deferred. A stale abort cancels the next
  request. Enabling webhooks while the worker is stopping leaves it stopped.
- *History.* A save that another task overtakes is reported as done and cannot be read (the
  exception `torn` of `LoadFindsLastSave`). A save from the HTTP task clears the dirty mark of a shot that was added
  meanwhile. Of a log that could not be written and curves that could, a crash makes
  an identifier be used again with an old curve. A load after a failed rating drops a
  shot that is not saved yet.
- *Scale.* The dirty mark of the preferred scale is cleared for a copy that may be older
  (`shotStopper.cpp:4271`, `Decide` of `ScaleWorker`): the scale that was chosen in between
  is in no save, and nothing is pending for it. `UnsavedIsPending` is about the recipe,
  which only the control task changes, and would be false of the preferred scale. A cancelled connection that the host completes all the same stays open until
  the peer drops it.
- *Buzzer.* `service()` takes the time before the lock, and a phase may be younger than
  it. New notes drop a melody that waits.

## 6. Plan

Done: the relay and the loop, the settings, the brew over the scale's link, the worker
and the client, maintenance, network, time, updates, the momentary machine, stores,
webhooks, buzzer. What is left, in this order:

1. **Momentary above the relay**: `Momentary` has its own trips; composed with
   `RelayDriver` the re-close after a hard limit becomes a property.
2. **BLE companion**: sessions, and its share of the host with the scale.
3. **Liveness of the services**: a lease ends, a search goes on, an upload can be begun
   again, under the fairness of their tasks.
4. **Samples of the worker**: the mailbox of weights with timestamps, below the ages
   that `ScaleLink` promises.

Properties that are types or restate a guard are not in the runs; what proofs need of
them is in the proof modules.

## 7. Not modelled, and why

The regression of the brew prediction (floating point), the vendor protocols of
scales and of the BLE companion (byte codecs), the thresholds of the cup detector,
debounce and the decoding of gestures, HTTP parsing, sessions and page generation,
mDNS, the text of the serial command line (its network commands are modelled),
melodies and templates, layout migration and validation of records, domain rules,
diagnostics, the web page, scripts and build files: sequential text, layout or
arithmetic code, whose errors a unit test finds, or input and output only. The BLE
companion is state that is not modelled yet (section 6). `PROJECT.json` lists each
component with its status.
