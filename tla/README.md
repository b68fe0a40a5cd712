# A TLA+ verification project for the ESP32 firmware

The firmware under `src/` (Arduino core, FreeRTOS) runs an IoT node: it keeps a
configuration in flash, evaluates a rule over an input and drives an output,
runs a delayed action, updates itself over the air, and supervises its
components and links. This directory models the parts of it in which something
can go wrong that a unit test would hardly reach, checks them with TLC and proves the
safety properties of every component with TLAPS.

## 1. The system

### 1.1 Who runs when

| context | what runs in it | sources |
|---|---|---|
| **loop task** | `setup()`, then `loop()`: application FSM, `FirmwareUpdate::tick()`, the cooperative scheduler (TaskScheduler), `runtimeEvents.process(8)`, MQTT | `src/src/main.cpp:1182` |
| **async_tcp task** ("HTTP task") | every HTTP handler, and what a committed configuration calls back | `main.cpp`, `update_service.cpp`, `update_policy.cpp` |
| **OTA workers** | one FreeRTOS task per remote check or install | `remote_update_service.cpp` |

Four mutexes exist, each with a timeout: `ConfigLock` (500 ms), `PolicyLock`
(300 ms), `StateLock` of the remote update (250 ms), `SchedulerLock` (100 ms).
The event bus, the rule runtime, the local schedule, the install engine and the
package verifier have none, although two tasks call them.

### 1.2 Components

| component | state it keeps | operations | talks to | what makes it correct |
|---|---|---|---|---|
| Configuration store `configuration_store.cpp` | two NVS slots, active pointer, RAM copy | begin, apply, rollback | HTTP handlers; calls the rule loader back | a commit is atomic under failed writes and power loss; RAM is what a reboot finds; the rule loader follows; the previous document is there for rollback |
| Event bus `core/event_bus.cpp` | ring, handler list, drop counter | subscribe, post, process | every component | bounded FIFO, each event to each handler once, in order, eventually |
| Rule engine, fault policies `rules/` | rule, last decision | configure, evaluate, resolve | rule runtime | hysteresis; the output left by a fault |
| Rule runtime `rules/rule_runtime.cpp` | FSM, one-shot task, pending flag | refresh, request, handleEvent, execute | bus, scheduler, engine, input, output | never stuck, never armed without a rule, the resting output follows the rule, no self-feeding |
| Persisted rule loader `rules/persisted_rule_loader.cpp` | loaded revision | activateDocument, reload, applyParsed | store callback, runtime | a committed rule comes in force with its policy |
| Virtual input and output `components/` | health, value; on or off | setValue, injectFault, recover; applyDesired | bus, runtime, schedule | events for each change |
| Local schedule `schedules/local_schedule_service.cpp` | FSM, one-shot task, action | activate, execute | store callback, scheduler, output | a waiting schedule has work, a removed one has none, once and not early |
| Install engine and verifier `update_service.cpp`, `firmware_package_verifier.cpp` | update state, hash, prepared package | prepare, begin, write, finish, tick | HTTP, OTA worker, Update library, bootloader | only complete signed images are accepted; a trial can be given up; restart and verdict come |
| Remote update `remote_update_service.cpp` | state, worker handle, URLs | requestCheck, requestApply, the workers | HTTP, MQTT, scheduler, install engine | one worker, installing what was checked; never busy for ever |
| Update policy, scheduler `update_policy.cpp`, `update_scheduler.cpp` | policy in RAM and NVS; watch and check tasks | post, record; watch, apply, check | HTTP, remote update | the check task follows the policy |
| Supervisor, registry, connectivity `core/`, `components/` | component table, health of each component, FSM | sample, evaluate | links, input, bus | the aggregate comes to say what is the case |
| Wi-Fi and MQTT links, application FSM `main.cpp` | link tasks, session, portal, FSM state | coordinate, reconnect, telemetry, portal, save settings | WiFiManager, PubSubClient, scheduler, HTTP | no link stays down with nobody trying; portal and services never share the port |
| Restart service, double-reset detector `restart_service.cpp`, `main.cpp` | the detector's marker over resets | restartNow, detect, close the window | every component that restarts the device | an ordered restart is not half of a human's double reset |
| Metadata, OTA hook, board constants, release scripts | none or constants | | | |

Hard behaviours: two tasks calling one object without a lock (rule runtime,
schedule, install engine, bus); check-then-act between two sections of one lock
(remote update, scheduler); writes that fail or lose power between two steps
(store, install); one-shot scheduler tasks that stay "enabled" until the next
scheduler pass; bounded queue with a silent drop; timeouts of locks and of
downloads; verdicts given by elapsed time; sessions that are dead before anybody
notices; a marker that must survive a human's reset and not the firmware's. `PROJECT.json` lists each at its
line under `hazards`, with the properties that cover it.

## 2. Modules

| module | models | composed with |
|---|---|---|
| `AtomicConfiguration` | the abstract store: one current document, replaced atomically under a new revision | |
| `ConfigurationStore` | `configuration_store.cpp` with the loader as the callback sees it | implements `AtomicConfiguration` |
| `ConfigurationStoreProofs` | theorems about it | |
| `BoundedFifo` | the abstract queue | |
| `EventBus` | `core/event_bus.cpp` | implements `BoundedFifo` |
| `EventBusProofs` | theorems about it | |
| `OneShotTask` | a `TASK_ONCE` task of TaskScheduler (external), as the code uses it | |
| `RuleEngine` | the pure part of rule evaluation and fault policies | |
| `RuleRuntime` | runtime, loader, input, output and the order of `loop()` | `RuleEngine`, `OneShotTask`; the bus as the FIFO `EventBus` implements |
| `RuleRuntimeProofs` | theorems about it and about `RuleEngine` | |
| `LocalSchedule` | `local_schedule_service.cpp` | `OneShotTask` |
| `LocalScheduleProofs` | theorems about it | |
| `FirmwareUpdate` | install engine, verifier, both callers, partitions, bootloader (external) | |
| `FirmwareUpdateProofs` | theorems about it | |
| `RemoteUpdate` | requests and workers | sees the engine through its answers |
| `RemoteUpdateProofs` | theorems about it | |
| `UpdateScheduler` | policy, watch and check tasks | sees the remote update through one call |
| `UpdateSchedulerProofs` | theorems about it | |
| `Links` | Wi-Fi, MQTT session, portal, application FSM, double-reset detector, restarts: `main.cpp`, `restart_service.cpp` | |
| `Supervision` | supervisor, connectivity component, virtual input | |
| `Node` | both as `setup()` and `loop()` wire them | `Links`, `Supervision` |
| `NodeProofs` | theorems about it | |

`MC*.tla` are the small instances, one per specification with state.

### How state and actions correspond to the code

Variables carry the names of the code's globals and members where TLA+ allows
it (`activeSlot`, `queue_`, `workerTask`, `remoteState`, `updateState`); the
comment at each names the member otherwise. Variables marked `history` have no
counterpart and are written only to state properties. `PROJECT.json` `map` gives
each definition its lines. An operation is one action if nothing can interleave
with it, else one action per stretch between two points where another task, a
write failure or a reset can act:

* **ConfigurationStore.** `apply()` and `rollback()` are `Apply`/`Rollback`
  (parsing, validation, stamping: any refusal leaves no trace), `WriteSlot`,
  `WritePointer` and `Callback`, which runs after `ConfigLock` is released.
  `begin()` is `BootLoad`, `BootRecover`, `BootDefaultSlot` and
  `BootDefaultPointer`, or `BootUnopened` when the mutex or the NVS is not to be had; the rule loader's own `begin()` is `Reload`. A slot write
  may succeed, keep the old bytes or leave bytes the read-back refuses; a
  pointer write, of one byte, succeeds or has no effect. `PowerLoss` is possible
  anywhere, and slots in `Decaying` may be damaged meanwhile.
* **EventBus.** `process()` is `Pop`, one `Call` per handler and `Return`;
  handlers post between these.
* **RuleRuntime.** `loop` is a program counter over one pass of `loop()`:
  scheduler (`Schedule`, then `executeEvaluation` cut into `Callback`,
  `ResolveFault`, `Decide`, `Apply`, `Done`), the other tasks (`FeedInput`,
  `OtherTasks`), and delivery (`Deliver`, `EndPass`). `web` is a counter over
  `applyParsed` (`Configure`, `SetFaultPolicy`, `WebRefresh`, `WebRequest`).
  `InputRequest` is the lab build's input endpoint.
* **LocalSchedule.** `web` counts through `activateDocument` (`Activate`,
  `WebDisable` or `Rearm`, `Arm`, `RestartDelayed`), `loop` through
  `executeAction` (`Fire`, `Apply`, `Finish`). The FSM is the table
  `Transitions`.
* **FirmwareUpdate.** Each of the two tasks has a counter: `beginPreparedInstall`
  is `BeginInstall` and `Open`, `writePreparedChunk` is `Hash` and `Flash`,
  `finishPreparedInstall` is `Finish`, `End` and `Announce`, `preparePackage` is
  `Prepare`, `Clear` and `Verify`. `tick()` is `TickRestart`, `TickAccept` and
  `TickReject`; `Boot` is the bootloader and `begin()`. `Update.begin()` erases
  nothing: the first `Update.write()` of a session does (`Write`), and until then
  `session` is empty and what the other partition holds may still be booted.
* **RemoteUpdate.** Each section of `StateLock` is an action: `RequestCheck` or
  `RequestApply`, then `StartWorker`, then `RequestFails`; the workers' sections
  likewise, with the network between them as a choice of outcomes.
* **UpdateScheduler.** The watch is `Watch` (read the policy) and `ApplyPolicy`,
  the check is `CheckReads`, `Check` and `Request`.
* **Links, Supervision, Node.** `setup()` from the detector on is `Detect`, then
  `ForcePortal` or `AutoConnect`. Each task of the scheduler is an action
  (`CoordinateWifi`, `RunWifiReconnect`, `CoordinateMqtt`, `RunMqttReconnect`,
  `RunMqttTelemetry`, `Sample`, `Evaluate`), as are the other stretches of `loop()`
  (`RequestedRestart`, `CloseWindow`, `Process`, `Tail`). They are not put
  in the order of the chain: any of them may be not due in a pass, so
  every order of two of them happens over two passes. What does need the order is kept:
  `late` says that the pass began ten seconds after the boot, when `drd->loop()`, first in it
  (`CloseWindow`), has cleared the marker; `RollbackReboot`, of `tick()`, comes after that. The HTTP task acts between any two
  (`SaveSettings`, `WebConnect`, `LabInput`), and so do access point, broker,
  radio and the reset button. A blocking `connect()` decides by what it finds at its end.
  A session is `"live"`, `"stale"` (cut, and `connected()` still says yes) or `"none"`;
  `mqttClient.loop()` in `Tail` is where a missed keep-alive ends a stale one.
  `Reset` is what a reset of the chip leaves: NVS and the detector's marker.

Operators under a comment "Fault:" are not part of any `Next`: each is a
plausible bug, used to see that a property would notice it.

## 3. Runs

| run | instance | checks |
|---|---|---|
| `config_atomic` | 4 payloads, one refused by the validators, revisions to 4, sound slots | RAM = what a reboot finds, loader follows, previous document kept, revisions differ, refinement of `AtomicConfiguration` |
| `event_bus` | 2 events, a ring of 3, room for 2 of 3 handlers, batches of 2, 5 posts | ring arithmetic (in `TypeOK`), order to each handler, refinement of `BoundedFifo`, delivery |
| `rule_runtime` | 3 rules, 2 readings, 2 policies, queue of 3, batch of 1 | never stuck, armed only for a rule, resting output, coming to rest |
| `local_schedule` | every action, both answers | never stuck, work follows the schedule, once and not early, waiting ends |
| `firmware` | 4 builds of 2 chunks, 5 streams, an upload and a download | accepted = complete and signed and no downgrade unless overtaken, trial is safe, restart and verdict come |
| `remote_update` | 2 requesters, 2 workers, 2 releases | one worker, right release; no handle left and not busy for ever unless the lock was missed |
| `update_scheduler` | 2 intervals, 3 policies posted | report and task agree with the observed policy unless a lock was missed, disabled stops whatever is missed, enabled checks |
| `node` | the device: no constants | an ordered restart is no double reset, portal or services, links settle, supervisor follows |
| `config_rollback_target`, `firmware_error`, `firmware_trial`, `update_scheduler_lock` | as above | where code and documentation part, see section 6 |

**Why the bounds are enough.** Store: revision 4 is reached by four commits,
so the exhaustion test, rollback of a rollback and reuse of a slot all happen;
the proofs cover every bound, and any decay, which the run leaves out so that
the refinement can be checked. Bus: five posts fill a ring of three and wrap it;
a batch as long as the ring lets posts of a handler be taken by the same call.
Rule runtime: the lower reading turns the output on, the higher turns it off under
one rule and holds it under the other, so all three branches of the hysteresis
occur; an evaluation posts up to two events and an input change three, so a queue of
three overflows; a batch of one puts a pass between any two deliveries. Schedule:
nothing is bounded, `applied` saturates at 2. Firmware: two chunks are the least that
can be mixed or cut; the two signed builds allow a trial of a trial; the streams hold an
unsigned image, which is also the older one, and one more build has no manifest; the engine does not tell connections apart, so the mixed stream stands for
two alternating uploads, and upload and download interleave freely. Remote update:
with two requesters there can be two workers and no third while one request is in
hand; any wait for the lock may be in vain, any number of times. Node: there is nothing to
bound, one access point, one broker, one input. Scheduler: three posted policies make enable, disable and enable again, and a change
of interval under way.

**Fairness.** Weak fairness is claimed only for what a task does by itself once
it is scheduled: `loop()` going round (rule runtime, schedule, bus, watch), a
handler or worker finishing what it began (each blocking call has a timeout),
and time passing. Nothing is assumed about requests, events, the network or power.
`UpdateScheduler` claims strong fairness of `CheckReads`: the watch
interrupts it every second, yet TaskScheduler visits the tasks in turn.
`Node` claims weak fairness of `setup()` going on, of sampling, of evaluating, of the radio
(once told to reconnect it finds an access point that stays, and loses one that is
gone), and of the link tasks as a whole: while one of them has something to do, one
of them acts. That is less than the scheduler gives, which visits each in turn. The closing of the
detector's window, requests, resets, access point and broker are not fair.
`FirmwareUpdate` claims no fairness of `TickAccept` (the device may
never be healthy) and weak fairness of `TickReject`, whose premise then holds.

**Deadlock** is checked in every run but `event_bus`, where the system stops once the
`Posts` events it may post are delivered.

## 4. Proofs

`ConfigurationStoreProofs` proves, for every set of payloads, every `MaxRev` and
(except for the last) every set of decaying slots:

* `TypeCorrect`: `Spec => []TypeOK`;
* `RamAlwaysDurable`: `Spec => []RamIsDurable`;
* `EngineAlwaysFollows`: `Spec => []EngineFollowsStore`;
* `PreviousAlwaysInOtherSlot`: `Spec => []PreviousIsInOtherSlot`;
* `RevisionsAlwaysDiffer`: `Spec => []SlotRevisionsDiffer`;
* `ImplementsAtomic`: with no decaying slot, `Spec => Atomic!Spec`.

Assumed is only `StoreAssumption`: `MaxRev` is a natural, `Accepted` a subset of
`Docs` that holds the default, `Unreadable` is no document.

The argument. `RamIsDurable` is nearly inductive; it needs that between the slot
write and the pointer write the inactive slot holds exactly `staged`, and that
`ready` is false until boot has served a document. The two revisions differ because
`staged.rev` is one more than the active one's, below `MaxRev + 1` by the
exhaustion test, so that `%` does not bite. `EngineFollowsStore` needs what holds
in the states it does not speak of: in `callback` the engine lags one commit behind,
in `reload` it has not been told yet. `PreviousIsInOtherSlot` needs the same
statement for every later `pc`: the inactive slot is overwritten only on the way to
a commit (which moves `previous`) or to a failure (which sets `disturbed`).
The strengthenings are stated in the module above the theorems that use them,
each step proved action by action. For the refinement every boot step, failed
write and power loss is shown to leave `BootDocument` alone, and `WritePointer` to
replace it by `staged`, which is a step of the abstract specification.

`NodeProofs` proves about `Node`, which has no constants and rests on no assumption,
over any sequence of outages, boots and resets:

* `TypeCorrect`: `Spec => []TypeOK`;
* `OneOwnerOfThePort`: `Spec => []PortalHasThePort`;
* `RestartNeverDoubleReset`: `Spec => RestartIsNoDoubleReset`.

The inductive invariant `NodeInv` adds three facts to the types: before `setup()` is
through neither portal nor services are up (so the step that opens the one cannot meet
the other), `at = "boot" /\ ordered => ~drd`: an ordered restart has cleared the
marker, or comes after the window of the detector, and, for the latter, `late => at = "loop"
/\ ~drd`: once a pass came late the marker is gone until the next boot. Each action keeps it part by part; a
reset is one lemma for the four restarts.

`EventBusProofs` proves, for every size of the ring, of the handler list and of a batch and
any number of posts (`BusAssumption`: the sizes are positive):

* `TypeCorrect`: `Spec => []TypeOK`, with `tail_` where `head_` and `count_` say;
* `EveryHandlerInOrder`: `Spec => []InOrderToEveryHandler`;
* `RingIsFifo`: `Spec => FifoSpec`, every step of the ring a step of the FIFO or a stutter.

The invariant states the order for the i-th entry of the handler list (`Ordered`): what was
accepted is what that handler saw, then the event in hand if the round has not come to it
(`Share`), then the content of the ring. It needs that nobody is on the list twice (`Once`)
and that a round stays on the list and within its batch (`InRound`). Both the order and
the refinement rest on lemmas about the ring: `post` appends to its content and `Pop` takes
the head of it, wherever the indices wrap.

`RuleRuntimeProofs` proves, for every set of well-formed rules, every set of readings that
has 0, every choice of policies that has SAFE_OFF, and every length of queue and batch
(`RuntimeAssumption`):

* `TypeCorrect`: `Spec => []TypeOK`;
* `NeverLeftEvaluating`: `Spec => []NeverStuckEvaluating`;
* `NeverArmedWithoutRule`: `Spec => []ArmedOnlyForRule`;
* `RestingOutputRight`: `Spec => []RestingOutputAgrees`.

A rest says nothing about the way to it, so `Covered` says in every state what the rest
comes from: either somebody will look again (an event is queued, a request is pending, an
activation is under way, something was missed), or what the loop task has in hand is right
for the input as it is now. That a settled output needs no second look is a lemma about
the engine: deciding twice is deciding once, which the hysteresis of a well-formed rule and
every fault policy have.

`LocalScheduleProofs` proves, for every set of actions and of answers that has TRUE
(`ScheduleAssumption`):

* `TypeCorrect`, `NeverLeftFiring`, `WorkAlwaysFollows`, `OnceUnlessCrossed`:
  `Spec => []` of `TypeOK`, `NeverStuckFiring`, `WorkFollowsSchedule`, `RunsOnceUncrossed`.

The first two properties are inductive with what a half-done activation has established
(`Activating`); the last one needs, as long as nothing has crossed, where the FSM is at each
place of both tasks (`Crossless`, `Pending`, `Running`).

`UpdateSchedulerProofs` proves, for every set of intervals that is not empty and any number
of policies (`SchedulerAssumption`):

* `TypeCorrect`: `Spec => []TypeOK`; `TaskAlwaysFollows`: `Spec => []TaskFollowsObserved`.

It needs that a policy observed or read is the one in force or has a lower revision
(`Versions`): a policy that is equal by its revision is equal.

`RemoteUpdateProofs` proves, for any number of requesters, workers and releases
(`RemoteAssumption`: `None` and `ByHand` are neither a release nor a worker):

* `TypeCorrect`: `Spec => []TypeOK`; `NoHandleLeft`: `Spec => []HandleMeansWorker`;
* `NeverTwoWorkers`: `Spec => []OneWorker`;
* `InstallsWhatWasPrepared`: `Spec => DownloadsWhatIsPrepared`.

Until two requests meet, only one requester is between its locks, and then no worker is on;
a worker that is alive has the handle (`Alone`), the state is the one of its work (`States`), and the
release of the prepared package is in `baseUrl` or in the copy of the worker, wherever an
install may take it from (`Kept`).

`FirmwareUpdateProofs` proves, for every set of builds, signed builds and streams, every size
of an image from two chunks on, and any number of connections (`UpdateAssumption`):

* `TypeCorrect`: `Spec => []TypeOK`; `OnlySignedAccepted`: `Spec => []AcceptedIsSigned`;
* `TrialAlwaysSafe`: `Spec => []TrialIsSafeUnlessDerailed`;
* `NeverBackUnasked`: `Spec => OnlyRollbackGoesBack`.

The hash is of the chunks as they were hashed, the partition has them as they were written,
and between the two the other task may have begun a new install. The two sequences may
therefore differ, and that the hash fits does not say that the partition holds the package. What
holds is: the session has at least the chunks that were counted (`Counted`), and while the
engine receives, the two have a chunk in common (`Common`), but for the time right after
a beginning, when at most one chunk in flight is from before. So what is verified and also
bootable as an image, which `Update.end()` looks at, is the package, its chunks naming their build.
A session has written nothing while there is still an image to boot, so both facts speak of
`session`, not of the partition. This takes two chunks at least: with `Size = 1` TLC finds the run in which the chunk of
before is the whole image. `UpdateAssumption` therefore asks for `Size > 1`; an upload
callback brings one TCP segment at most and a read of the worker one buffer, an image for
this chip is hundreds of them.
Afterwards `Ending`, `Selected` and `Chosen` carry the fact to the restart as long as no
install is written in between. A trial is safe as nothing is in progress in PENDING_VERIFY
(`AtRest`): the only call the engine takes up then sets FAILED, which `derailed` records.

Every inductive invariant was first checked by TLC on the instances of section 3 (for
`FirmwareUpdate` also with two uploads). Each lives in its proof module as `IInv`, in named
parts; the proof that a step keeps it goes action by action and part by part.

**Only model-checked:** every liveness property (`AllDelivered`, `ComesToRest`,
`WaitingEnds`, `RestartComes`, `VerdictComes`, `BusyEnds`, `DisabledStops`,
`EnabledChecks`, `LinksSettle`, `SupervisorFollows`), which the installed provers do not
reach, with everything that needs ENABLED or induction over data. Every safety property of a
passing run is stated by a theorem.

## 5. Abstractions

* JSON, texts, counters, logs and timestamps are left out; a document is a
  revision and a payload, parsing is membership of a set.
* A pointer write that fails has no effect (one byte in NVS). Contention
  for `ConfigLock` is left out: only the HTTP task commits.
* The bus is modelled on the loop task. The production build posts from nowhere
  else; the lab endpoints post from the HTTP task and race on `count_`, which is not
  modelled (in `RuleRuntime` their posts are atomic).
* A `trigger()` of the FSM library is one step.
* A mutex that could not be made, a `ConfigLock` that is not had at boot and an NVS that
  does not open are one refusal of `begin()` (`BootUnopened`).
* Cryptography is the set `Signed`; SHA-256 of an image is the image. A size
  larger than the partition is a refusal.
* `Boot` is not followed when the running image was given up and nothing else
  can boot. What nobody can boot counts as erased when a session is opened over it. At most one OTA worker is in the engine (`RemoteUpdate` says when).
* `FirmwareUpdate`'s clock counts only as far as `tick()` compares it: 750 ms,
  10 s, 30 s. Health, one number in the code, is the unfair choice of `TickAccept`.
* `RemoteUpdate` lets every wait for `StateLock` be in vain; where that leaves the handle
  set for ever, `missed` is set, and `HandleMeansWorker` and `BusyEnds` speak of the other behaviours.
  A worker is alive up to its last section under the lock: what it still does then,
  `recordResult` and `vTaskDelete`, touches nothing the service looks at.
* `UpdateScheduler` lets every wait for `PolicyLock` and `SchedulerLock` be in vain, but for the one
  in `begin()`, when nobody else runs. The result of a check, which is stored in the policy
  without a new revision, is left out.
* `Links` is the production build: the lab endpoints that disconnect a link and suppress its
  reconnection for 8 s are left out (`LabInput`, for the input's health, is not). Retry
  intervals and counters are left out: a task that is enabled may be due at any time.
  The MQTT settings are complete or not (`saved`); a mixture of two complete ones is a broker
  that does not answer.
* `Supervision` leaves out the two virtual outputs, whose health is Ok or Disabled, which
  the supervisor does not tell apart; and the events of component and supervisor,
  which their only handler logs.
* A refused `restartDelayed` is left out of `LocalSchedule`: TaskScheduler refuses a task
  that has no scheduler or whose OnEnable handler says no, and `actionTask_` has a
  scheduler and no handler.
* `Links` knows the time only by `late`. What it rests on is that less than 20 s pass
  between `drd->loop()` (`main.cpp:1187`) and `tick()` (`main.cpp:1193`) of one pass: the
  verdict on a trial comes 30 s after the boot at least, the window closes at 10 s.

## 6. Where the code departs from what is written

With a run of their own (`findings` in `PROJECT.json`):

1. `RollbackTargetWasActive`: a commit that fails at the pointer write leaves its
   document in the inactive slot, and the next rollback activates it
   (`docs/configuration.md:22`).
2. `ErrorIsFailed`: a download that stalls leaves the engine RECEIVING, until a restart
   or an upload that fails (`docs/ota.md:58`).
3. `TrialIsSafe`: an upload without a package during the trial of an image sets
   FAILED, which ends the watch over it and admits an install whose first write erases
   the image it would go back to (`docs/ota.md:139`).
4. `EnabledIsArmed`: one missed `PolicyLock` disarms the check task until the
   policy changes (`docs/architecture.md:222`).

Without one; the properties say where they make room for these:

5. A request for an evaluation that meets the work task after its only iteration
   and before the scheduler retires it is coalesced with work that is over; its
   `pending_` stays up until the next event (`docs/configuration.md:187,190`,
   `rule_runtime.cpp:147`). `RestingOutputAgrees` excepts it by `~pending`.
6. An activation that crosses an execution of the schedule ends COMPLETED with its
   delayed task enabled (`docs/architecture.md:433`,
   `local_schedule_service.cpp:174`). `RunsOnceUncrossed` excepts it.
7. The two tasks share the install engine: an install that is written after another was
   verified and before its restart replaces the image the restart is ordered for
   (`docs/ota.md:120`, `update_service.cpp:327`), with an older build too. `AcceptedIsSigned`,
   `OnlyRollbackGoesBack` and `RestartComes` except it by `overtaken`, from its first write on.
8. Two requests to the remote update that meet between their locks can end with
   two workers, as the failed one clears the other's handle
   (`remote_update_service.cpp:460`). `OneWorker` and
   `DownloadsWhatIsPrepared` except it by `met`; `HandleMeansWorker` and `BusyEnds`
   hold all the same.
9. A restart the firmware orders clears the detector's marker, and the boot after it leaves a
   new one: a single hardware reset within 10 s of a software reboot opens the portal.
   `docs/BOOTSTRAP.md:160` says that a software reboot "does not count toward human
   double-reset recovery"; true of the reboot (`RestartIsNoDoubleReset`), not of the boot that
   follows it (`main.cpp:1158`). The same sentence says that all intentional restarts
   go through `RestartService`; the one that gives a trial image up does not
   (`update_service.cpp:423`), and is harmless because the window is closed by then: `drd->loop()` comes
   before `tick()` in every pass, and the proof of `RestartIsNoDoubleReset` uses just that.
10. The diagram in `docs/architecture.md:60` sends WIFI_CONNECTING to OFFLINE when the first
    connection fails; WiFiManager opens the portal then, and the code goes to
    CONFIG_PORTAL (`main.cpp:1151`).

## 7. Plan

Done: store, bus, rule runtime, schedule, install engine, remote update and update
scheduler with their lock timeouts, and the node of links and supervision; the safety
properties of each proved.

Left to model, in this order:

1. A composition of store, rule runtime and schedule over one activation callback,
   with an abstract "configuration in force".
2. The lab build: posts to the unlocked bus from the HTTP task, suppressed
   reconnection with its signed comparison of `millis()`.

Theorems worth proving next: with the composition of 1, that it implements its abstract
configuration; that the bus inside `RuleRuntime` is the FIFO of `EventBus`; of `Node`, what
its liveness properties rest on and is not liveness (a link that is down has a task that is
enabled).

Not modelled, and not planned: the release scripts and the constant headers (no behaviour
on the device), firmware metadata and the OTA hook (constant reports), HTML pages and
status documents.
