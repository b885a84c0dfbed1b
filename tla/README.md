# Transport: models and proofs

Transport is a laboratory program (Python, PySide6) that drives a low-temperature
transport experiment: superconducting magnets, sample heaters, source meters, lock-ins
and long unattended measurement series. Its hard part is not the physics but control:
a GUI thread, one worker thread per instrument, timers, renderer processes, and
instruments that go on moving by themselves. This directory holds TLA+ models of that
control, what TLC checks on small instances of them, and what TLAPS proves for every
instance.

Paths below are relative to `src/`, the repository. `PROJECT.json` says for every
definition which lines it translates ("map"), lists every part of the program
("components") and, each at its line, what is hard to test ("hazards").

## 1. The system

| Component | State it keeps | Operations | Talks to |
|---|---|---|---|
| Sample-heating interlock (`app/sample_heating_interlock.py`) | newest magnet and control readings, commands under way, reservation | `begin_*`/`end_*`, `note_*`, `*_block_reason` | called by the Lake Shore and APS100 threads and the GUI, under one lock |
| Lake Shore 335 (`controllers/lakeshore335_controller.py`) | session, poll timer, requested and confirmed target | connect, poll, apply, heater off | asks the interlock; its readings feed thermal safety and the panels |
| Thermal safety (`app/thermal_safety.py`, `app/field_thermal_policy.py`) | time of the last unstable reading | evaluate, begin, continue | read by the batch, the transport, the APS100 worker and the panels |
| MagnetController and worker (`controllers/magnet_controller.py`) | request queue, stop event, session, telemetry cache | connect, safe move, sweep, pause, configure, restore, snapshot, shutdown | GUI posts, the APS100 thread executes, answers are queued back |
| APS100 / attoDRY1000 adapter (`app/devices/aps100_attodry1000_adapter.py`) | the supply's sweep, leads, heater of the persistent switch | safe move, driven and persistent mode, zero leads, pause | runs in the APS100 thread, guarded by stop event, thermal check and timeouts |
| Gate Scan field batch (`app/engine/gate_scan_field_batch.py`) | phase, job index, results, request identity, checkpoint file | start, resume, stop, result handlers, thermal waits | magnet controller, thermal verdicts, measurement thread, disk |
| B-field transport (`app/engine/bfield_transport_controller.py`, `_sweep.py`) | run state, hold, pauses under way, cleanup | start, hold/resume, stop, endpoint, cleanup, shutdown | magnet controller, monitor, an I/O lane of its own |
| attoDRY2100 controller and adapter (`controllers/attodry2100_controller.py`) | mailbox with priorities, handles, stop events, lifecycle | connect, setpoint, start, stop, detach, temperature, prepare/request shutdown | callers on any thread, watchdog timers, the thread that owns the vendor's SDK |
| Device manager (`app/device_manager.py`) and drivers (`instruments/`) | sessions, busy flags, ramps, ownership, protection | connect, manual ramp, readback, protection, emergency stop, disconnect, shutdown | GUI, ramp threads, measurement workers |
| Measurement lifecycle (`app/quick/measurements.py`, `app/workers/`) | run generation, claim, terminal event, cleanup warning | launch, pause, stop, terminal, release | one worker thread per run, device manager, output files |
| Sweep plans (`app/workers/`, `app/gate_transform.py`, `app/numeric_series.py`) | none | the points of every sweep, their counts and previews | forms, workers |
| The Quick program (`app/quick/application.py` and its services) | closing, hardware closed, accepted; update download and installation | requestClose, retryClose, download, install | every service |
| Forms and previews (`app/quick/recipes.py`, `sweep_preview.py`, `sampling.py`) | drafts, rows, errors; preview version | edit, flush, choose; rebuild | the launch of a run |
| Live plot (`app/quick/plot.py`) | layout, panels, limits per layout | choose, pan, run begins and ends | preferences on disk |
| Widgets window (`app/ui/tabs/`) | tab's worker, reservation, log, PNG jobs | start, stop, pause, cleanup, emergency stop | the same device manager |
| History, analysis, exports (`app/quick/history*.py`, `app/ui/png_export_process.py`, `transport_png_exporter.py`, `app/curve_*.py`) | spool directory, viewer process, session, display lane, cache | export, reload, close; choose, zoom, follow; read, grid, reduce | processes, pipes and files |

What is hard in it, and what makes it correct:

* **Permissions that outlive their moment.** The interlock grants a heater or magnet
  command in one locked step; the command acts later, on another thread, and its
  effect (a sweep, a heater) stays after it returns. Correct: never both at once, and
  never a decision from a reading that is no longer true.
* **Long commands and stops.** A safe move has up to thirty steps with mandatory dwells
  between them. Correct: the switch changes only at matched currents, the leads move
  only across a settled switch, the field only towards its target, a stop gets through.
* **Queues in both directions.** A stop is an event that bypasses the queue it is meant
  to affect; answers and telemetry arrive after the session has changed. Correct: one
  answer per request, an acknowledged pause covers what was asked before, nothing old
  is shown after something new.
* **A series that outlives the program.** Correct: a checkpoint claims only work that is
  on disk, a measurement runs only at its verified field, an alarm holds.
* **Timers racing answers, in a thread that must never be killed** (attoDRY2100).
  Correct: the transport is never closed over active field control, and a stop that was
  accepted is executed and holds.
* **Ownership.** Who may touch a source changes between manual work, measurements,
  connections and the emergency stop, each in a thread of its own whose end is one event
  and whose release is a later one. Correct: one owner per output, everything given back
  exactly once, zero before it is closed.
* **Ends.** Closing the program, or leaving it for the installer of an update, asks
  everybody to stop, is retried from timers and signals, and may be given up half way.
  Correct: hardware is closed only when nothing uses it and the APS100 is parked since
  its last work; the program stays usable after a close that failed.
* **Display.** Lanes, pools and processes answer late. Correct: what is shown, exported or
  launched belongs to what is selected; an accepted export is never lost.

## 2. The modules

| Module | Models | Checked in | Proofs |
|---|---|---|---|
| `HeatingInterlock` | the interlock with its three threads, heater and magnet | `magnet_lane` | `MagnetLane_proofs` |
| `PersistentMove` | safe move, driven and persistent mode, step by step | `magnet_lane` | `MagnetLane_proofs` |
| `MagnetController` | the GUI half and the worker half of the APS100, and what passes between | `magnet_controller` | `MagnetController_proofs` |
| `GateScanBatch` (`MCGateScanBatch`) | the series with worker, queues, measurement thread, disk, panel | `gate_scan_batch` | `GateScanBatch_proofs` |
| `BFieldTransport` | the controller of field sweeps | `bfield_transport`, `bfield_stop` | `BFieldTransport_proofs` |
| `TransportSetup` | the programming of the supply for a sweep and its restoration | `bench` | `Bench_proofs` |
| `SampleTemperature` (`MCSampleTemperature`) | Lake Shore, panel, shared evaluator, the batch as a client | `sample_temperature` | `SampleTemperature_proofs` |
| `AttoDry2100` | controller, watchdog timers and owner's thread | `standalone` | |
| `DeviceManager` | who may touch the voltage sources | `bench` | `Bench_proofs` |
| `VoltageSources` | the drivers' ramps below it, and the protection | `bench` | `Bench_proofs` |
| `SweepPlans`, `SweepChecks` | planners, and what they are held against | `bench` | |
| `RunContract` | what a measurement service promises (abstract) | | |
| `MeasurementRun` | a measurement from form to released instruments; implements `RunContract` | `measurement_run` | `MeasurementRun_proofs` |
| `Application` | close, updates and installation; uses `RunContract` | `application` | `Application_proofs` |
| `ConditionForm`, `FormPreview`, `PlotView`, `PlotData` | tables of conditions; previews; live plot; plotted data | `application`, `shared_axis` | |
| `MeasurementTabs` | runs in the Widgets window | `measurement_tabs` | |
| `PngRenderer`, `AnalysisWindow`, `HistoryView` | exports; the viewer process; its display | `standalone` | |
| `MagnetLane`, `Bench` (`MCBench`), `QuickProgram`, `Standalone` | compositions, see section 3 | | |

How they fit together. The magnet is modelled at three depths: `GateScanBatch` sees a move
as one request with a result, `MagnetController` as something that ends in the worker
thread, `PersistentMove` as all its steps. `RunContract` is the abstract specification
between `MeasurementRun`, which implements it (`ImplementsContract`, a refinement with
`INSTANCE RunContract WITH`), and `Application`, which stands on it. `FormPreview`,
`ConditionForm` and `MeasurementRun` are the stations of one form.

### Magnet, heater and temperature

`HeatingInterlock`. Each locked method is one atomic step; between two of them the threads
interleave freely. `lsPC` and `apsPC` say where the two worker threads are in their
slots; `lsRead` and `apsRead` are readings they hold and have not yet noted. The
instruments have a state of their own. A magnet that moves is "charging" when an ordinary
command began the sweep and "unloading" when protective cleanup did, which is exempt from
the interlock. A reading that is too old answers like a missing one, so age is an action
that drops it.

`PersistentMove`. `pc` is the statement of the operation; the supply's sweep, the switch and
the answer to `PSHTR?` have actions of their own. Fields and currents are levels: two values
within the tolerance are the same level. Time is not counted: a dwell ends only after
the switch has settled (the configured dwells are assumed long enough), and every timeout
may strike whenever its loop waits. `cut` is a ghost: the switch is in a transition that
nobody waits for, because an operation ended or began during it; the properties about
leads and field hold outside such a window.

`MagnetController`. Requests are numbered as they are posted, readings as they are read.
`stop` is the event that `pause()` sets in the GUI thread, `cache` the telemetry the worker
writes past the GUI's queue; `stopped` in a request is a ghost: where it was when the stop
came. Left out: enabling and disabling of polling, rates, the remote refresh.

`GateScanBatch`. A GUI handler is one step with everything it calls. The APS100 worker has a
FIFO queue, its signals queue to the GUI, one measurement thread runs at a time, and the
temperature verdict is a nondeterministic input. A kill of the program loses all but
`checkpoint` and `data`. Thermal protection is armed for the whole series (the batch
refuses to start otherwise); an equal pause that already waits is not queued again;
telemetry is coalesced as `LatestTelemetry` does; request identifiers are fresh while
anyone holds them (they are UUIDs); nobody changes the field at the supply's front panel.

`BFieldTransport`. The controller's state is one record and every handler an operator from
records to records; what it asks of worker and lane is posted when it returns. Readings
outside a run are not published, temperatures stay during cleanup, and settling, plots,
logs and checkpoints are left out. `cut` marks a cleanup that went on without its own pause
(its session was lost, a late configuration moved the magnet, or an earlier pause's
acknowledgement stood for one that failed) and a series begun before the queues of such a
cleanup had drained.

`TransportSetup`. configure, start, restore and the synchronous runner, with calls that may
fail before or after their effect; the supply refuses limits that cross. The runner moves to
the start once, before its first condition: in a one-way sweep the "start" leg of every later
condition is read where the one before ended (`Goal`), although `estimate_transport_times`
counts the way back and the asynchronous controller drives it.

`SampleTemperature`. Temperatures and fields are levels, time is ticks. The GUI drains its
queue and serves its timers within a tick; age of telemetry is a missing reading; native Zone
mode, ramps, automatic bands and changes of the configuration at run time are left out.

`AttoDry2100`. `req` holds the requests that anything still refers to: mailbox, handles,
a timer, the owner or an undelivered answer; slots are reused, the last one is left to a
stop. Callers' methods are atomic where the code holds its lock. The owner executes one
request in phases, one per exchange with the SDK, so that stops and timers fall between
preflight and write. A timer acts in two steps, because the code marks the request first
and calls `request_stop` after it has released the lock. Polling, `retry_stop` (no caller),
targets and telemetry are left out.

### Instruments and measurements

`DeviceManager`. At most one thread of each kind (`op`, `manual`, `reader`, `protector`,
`emergency`); it ends in phase "ended" and the slot of its `finished` is an action of its
own. Every access to the bus is one step and may fail. Gates are voltage sources;
monochromator, lock-ins and resistance mode are left out. `raced` in `manual` is a ghost: a
ramp that the shutdown restarted beside its own zeroing, of whose end nothing is promised.

`VoltageSources`. One output and its three users, a level being one ramp step. `overlapped`
and `partial` mark what the properties exclude: a worker's Keithley ramp that an emergency
ramp has interleaved with, and a protection whose application failed half way.

`SweepPlans`. Voltages are integers in units of the smallest step; a behaviour is one plan.
`SweepChecks` holds each plan against a reference definition: the points announced are the
points validated, previewed and carried out, in the order they are said to be.

`MeasurementRun`. User, preflight thread, worker thread and GUI; the worker's signals are
received in the order they were emitted, the thread's `finished` last. Worker programs are
sequences of steps, each of which may fail. Engines of modes 4 and 5 are on or off.

`MeasurementTabs`. Four tabs of the Widgets window with a worker each, the lock-in panel,
the log and the coordinator of channel PNGs. Nobody presses Start within 250 ms of a run's
end.

### The program and its display

`Application`. `requestClose` and `_retry_close` against everything that may be busy, and the
update service; the measurement service is `RunContract`, the device manager's shutdown one
step, the stop of the attoDRY2100 and the parking of the APS100 an answer that may fail.

`ConditionForm`, `FormPreview`, `PlotView`, `PlotData` are sequential components whose difficulty
is the order of edits, flushes, choices and late answers. `PlotData` is mostly functions of one
input (snapshots of a growing file, traces, maps, choices, cache, reduction for the
screen), checked for every input within its bounds.

`PngRenderer`. Exporter and detached renderers share a directory only; a slot of the window
is atomic, every step of a renderer its own action. `AnalysisWindow`. Viewer process and
launcher exchange lines, in order; `form` says which of the two frontends runs.
`HistoryView`. One lane, one job at a time, and everything the user does meanwhile.

## 3. The runs

| Run | Asks | Bounds | Distinct states |
|---|---|---|---|
| `magnet_lane` | interlock: exclusion, cold while charging, heating only when parked, a heater switched on during a sweep is switched off. Operations: switch, leads, field and outcome; a stop gets out of every loop | 2 failures, 1 front-panel change; 3 levels, 3 operations, 1 error | 0.5 M |
| `gate_scan_batch` | alarms hold until answered, an abort is final, no move outlives its series, honest checkpoint | two scenes: 3 jobs at 2 fields, all six verdicts, 1 fault; 2 jobs, 2 starts, 1 kill or lost session | 2.3 M |
| `magnet_controller` | answers, pauses, stops, telemetry keep their meaning; answers, telemetry and shutdown arrive | 3 requests, 2 readings, 2 sessions | 0.3 M |
| `bfield_transport` | what is recorded, resumed, released, and cleared for a close; the magnet starts to move only where it may | 2 conditions, 1 reading per leg, 1 run, 1 adverse event | 5.0 M |
| `bfield_stop` | violation, see section 4 | 1 condition, nothing adverse | |
| `bench` | one owner per output, everything given back, verified zeroing before a close; ramps and protection; programming and restoration; plans | one gate and one DAQ output, 2 levels, 2 commands, 1 fault; 3 levels, 2 ramps, 2 faults; 4 scenes; all inputs within the bounds of `SweepChecks` | 3.6 M |
| `measurement_run` | reservation, launch, zeroing, terminal result, metadata of all six modes; refinement of `RunContract` | 2 starts, 1 edit, 2 questions, 1 fault | 5.7 M |
| `application` | a close is quiet and ends, an installation is safe; form, plot, previews and data | 1 failed parking; bounds of the four display modules are in `QuickProgram` | 1.6 M |
| `shared_axis` | violation, see section 4 | as `application` | |
| `measurement_tabs` | a run keeps its devices, its log ends once and truthfully, PNGs once | 4 tabs, 3 runs, 2 PNG jobs, 2 other users | 4.6 M |
| `sample_temperature` | permission exactly after an earned dwell; "ready" only for the instrument's own target | 5 scenes, dwells of 2 ticks, 3 magnet and 4 sample levels | 1.4 M |
| `standalone` | attoDRY2100 closes stopped and stops prevail; exports, viewer sessions, display | 3 request slots, 1 failure, 1 timeout; 2 jobs, 4 renderers, 2 reloads; 2 openings, 2 reloads; 5 scenes of the display | 2.8 M |

`MagnetLane`, `Bench`, `QuickProgram` and `Standalone` put components into one run that share no
state: `part` is chosen initially and only that component moves. In `Standalone`, `without`
leaves out one of three pairs of commands of the attoDRY2100 so that any two commands
still meet (all seven together were also checked).

Why these bounds are enough to be interesting: every hazard listed needs at most two
requests that interfere, one thing that fails and one that comes late. The interlock
has no bound on the number of commands at all, only on failures. Three field levels
give a target on either side of the stored field and an intermediate one; three
operations let the second begin in what the first left and the third in what the
second made of it. Three jobs at two fields contain both a change of field and a second
condition at the same field. Two conditions give the transport a step between runs, one
or two legs a return. Where the cases are too many for one instance, scenes say which
of them a behaviour may contain. Every property of a passing run is also run against a
broken version of the code (operators commented "Mutant"), which violates it.

Deadlock is checked in every run; where the program really is over, or the bounds leave
nothing to do, a stuttering disjunct of the next-state relation says so.

### Fairness

Liveness is checked under what the program's scheduling gives and nothing more.

* `HeatingInterlock`: a thread inside a slot returns; the Lake Shore's polling timer
  keeps firing while it is connected. Nothing is assumed of the user or of the APS100.
* `PersistentMove`: the worker thread runs, the supply ramps, the switch settles. That a
  timeout strikes is not assumed, so a stop gets through without one.
* `MagnetController`: both event loops run.
* `Application`: a queued call is made and time passes; a run asked to stop ends, a move of
  the APS100 ends and the APS100 answers; an Analysis process told to close, with its
  input closed, ends. Other manual work may hang for ever: the close gives up on it.

In `GateScanBatch` and `BFieldTransport` what must be answered is a safety property: whoever
waits has something under way that will answer (`MovesBelong`, `Proceeds`).

## 4. What was found

Two disagreements with a comment or a test have a run of their own:

* `bfield_stop` / `StopStrengthens`. A comment in `stop()` says that a STOP during a successful
  driven completion must strengthen the cleanup. Once the restoration is acknowledged,
  while biases are still being zeroed, it only rewrites the final mode:
  the run is recorded as persistent and the heater stays on.
* `shared_axis` / `SharedAxis`. Limits chosen for a pair of curves, then layout "two", another
  curve for one of them, and back: the old limits return for the curve that stayed and not
  for the new one, while the plot says that the axis is shared.

Smaller observations made while modelling, which the properties exempt or state around:

* APS100. A STOP that came while a move was still queued is lost, because the move clears the
  event when it begins (`magnet_controller.py:391`). A stop during the confirmation of the
  heater ends the operation with the switch in transition (`aps100_attodry1000_adapter.py:942`),
  and a later move does no dwell of its own (`cut`).
* attoDRY2100. A STOP that failed keeps its handle, and every later one is answered with that
  failure (`attodry2100_controller.py:885`); a detach and a new CONNECT let the transport be
  closed over active field control (:341); cancelled requests end unreported (:874).
* B-field transport. configure that is answered after STOP still posts its move; a monitor hold
  that comes during a thermal hold loses the resume; the field transition between rows
  can wedge the state (so it is excluded from `Proceeds`); a pause acknowledged during a hold
  enables Continue; a cleanup takes the acknowledgement of an earlier pause for its own, so
  that the failure of its own is found too late, and a series started at once after a
  cleanup that lost its session inherits requests and answers of the old one (both `cut`).
  Two warm phases can make a "finished" series skip a condition. After a thermal pause at the
  start of a sweep, `_on_sweep_started` (1179) sets the phase "sweeping" although the hold goes
  on, so a snapshot accepts an endpoint; a Continue before its pause is acknowledged starts
  the leg again, and if that acknowledgement comes while it is warm, the next condition waits
  as resume "next" while the repeated sweep comes to its endpoint once more. The next Continue
  advances for the first and the second acknowledgement for the other: with two conditions
  the series ends "finished", with the first endpoint twice and the second never.
* Transport set-up. An endpoint that reads exactly 0 T is recorded twice (`or 1e9`); the
  runner's pause in `finally` is unprotected (`unpaused`); limits captured equal can never
  be put back.
* Sources. The emergency ramp and a worker's ramp of a Keithley interleave without a lock, and
  "Emergency safe ramp complete" can precede a worker's write; a protection that failed half
  way restores the software limit though the instrument may keep the new one; a voltage
  that was refused is cached.
* Device manager. Shutdown's direct call of `_finish_manual_worker` may restart a manual ramp;
  if that shutdown then fails, the ramp's end can be reported as reached though the shutdown
  has zeroed its gate (`raced`); a reconnection that cannot zero a gate drops its
  live session (line 1127; `dropped`, which `CloseVerified` exempts); a pending
  emergency turns the end of a manual ramp into a success; a second emergency stop pressed
  while the emergency ramp runs is ignored, even for an output on which that ramp has
  already failed (line 1319).
* Sample temperature. A new series without a heater cycle inherits the stability of the last
  (`StartsEarned` exempts it); a hold without a target never consults the evaluator, so the
  dwell survives readings off target.
* Measurement. Workers that report early leave metadata "finished" where the service says
  "error"; a stop after such a report leaves the panel "stopping" and its PNG job is
  overwritten by the next start (`late`); a map stopped during its return to zero is logged
  "stopped"; `main_window.closeEvent` does not wait for an ordinary worker.
* Program. `_retry_close` retries without a pause while the APS100 parks; an APS100 that never
  confirms keeps the close open; a heater-off is accepted while closing.
* Display. A close between a renderer's empty listing and its look for "stop" leaves a job
  accepted just before unrendered (`raced`; `Drained` exempts a close there, not a reload, whose
  job the replacement or a close's successor must still render); arrangements made in a Quick viewer while accepted
  exports finish are lost by a reload; a saved view of another type is shown for a moment
  with the wrong plot (`mixed`); a pan between choice and plot is written to the old
  viewport; a CSV row cut in its last field passes for a value until the next look at the file;
  a preview timer that falls into a run is not restarted after it (`missed`); a row error made
  in the details pane of a cell that is then hidden blocks Start without a visible field
  (`pane`).

## 5. The proofs

TLC shows a property on the instance of a run; the theorems below show it for every value of
the constants: any number of jobs, requests, runs, faults, field levels. Each rests on the one
named assumption of its module (`BoundsAssumption`, `MoveAssumption`, ...), which says that
bounds are natural numbers and that a special value is distinct from the ordinary ones;
`SampleTemperature` has a second, `ScenesAssumption`, about its data: a scene's readings and
jobs are records of the declared shapes, 0 is a field, and the way between two fields leads
over fields. `Bench` has one for each of its lower parts: every protection profile has a limit
within the source's (`SourcesAssumption`); current ranges are in order, the envelope lies within
the magnet's field, and a plan has at least two legs with targets within the envelope
(`SetupAssumption`), which `build_trajectory` and `validate_field_bounds` see to. No theorem
assumes fairness.

Every proof has the same shape: an invariant `IInv` stronger than the property (the property
alone is not inductive), which TLC has checked on the instance of the run before it was
proved; `Init => IInv`; a step, with one case per action or, in the larger modules, one per
kind of step; and the consequence. In a module with thirty handlers the handlers are first
classified: one lemma per handler says which few kinds of step it can be, and the parts of
`IInv` are then proved once per kind. An action property follows from the invariant and the
step.

| Module | Theorem | States | `IInv` |
|---|---|---|---|
| `MagnetLane_proofs` | `TypeCorrect` | types, and a command's begin is paired with its end | `SnapshotHonest /\ WriteParked /\ ReadbackHonest`: what the interlock believes is what the two threads have seen or are about to tell it |
| | `Exclusion`, `Cold`, `HeatsOnlyParked` | no heater while the field moves, a charging magnet has a cold sample, heating only when parked | |
| | `SettledSwitch` | the operation trusts the switch only after it has settled | `SwitchSettled /\ HeaterHonest /\ Places /\ Sweeping /\ Changing`: at each statement, what has been verified about leads, field and switch and still holds |
| | `FollowsField` | leads move only across a settled switch, the field only towards its target | |
| | `LaneIsBoth` | the composition the run checks is a behaviour of each of its two parts, fairness included | (none needed) |
| `MagnetController_proofs` | `MailboxIsSound` | one answer per request, in order; a pause covers what was asked before it | `Numbers /\ Answers /\ Pauses /\ Newest /\ Telemetry /\ Stopping`: requests wait in order of number, answers lie behind what is to be executed, the open session is the newest and none that the GUI knows to be over, the cache holds its newest reading, a stopped move has seen the event or will |
| | `ShownGoesForward` | nothing old is shown after something new | |
| `GateScanBatch_proofs` | `AlarmIsSafe` | an alarm holds until it is answered | `Labels /\ Done /\ Series /\ Warm /\ Session /\ Flight /\ Known /\ Answered`: identities of requests in queue, worker and signals, at most one of them in flight for the phase that waits; what is on disk; what the batch knows of session and temperature |
| | `MovesAndRunsBelong` | no move or measurement outlives the phase that asked for it | |
| | `CheckpointIsHonest` | the checkpoint claims only work whose data is on disk | |
| | `AbortEndsSeries` | after an abort nothing of the series starts again | |
| `BFieldTransport_proofs` | `MagnetStaysSafe` | after a pause only the operator moves the magnet, and a close is cleared with its heater off | `Sound1`: who holds the instruments, that the lane works for a run or a cleanup and ends by zeroing, that every sample carries the count of pauses it was asked under, that a paused run is held; `Sound2`: no motion is queued behind a request for persistence, at most one such request is under way, and until the magnet is configured nothing else is |
| | `OwnershipStaysQuiet` | no source is driven after the release, and a magnet given back is paused with no motion queued | `Sound1`; `Sound3`: every cleanup that was not cut has a pause in the queue behind the last motion and before the restore, or the supply is already paused, or the GUI will hear of a lost session or a failed pause before it hears that anything was restored |
| | `RowsStayWhole` | no row across a pause | `Sound1` |
| `SampleTemperature_proofs` | `PermissionIsEarned` | a move is permitted exactly on a full dwell of recovered sights; a setting that fails half way leaves the heater off or says so | `PanelSound`: the last setpoint on its way to the panel is the instrument's unless somebody changed it there, and the panel's target is the one it was told; `Counting`: the evaluator's dwell is never longer than the sights were recovered and at most a tick behind |
| | `ReadyIsHonest` | "ready" means the instrument's own target, for the whole dwell | `PanelSound` |
| | `StartsAreEarned` | every move and every measurement starts on a dwell of its own requirement | `Itinerary`: a verified field is where the magnet stands, and the next move begins persistent at it, so it ends in a heater cycle that clears the dwell; `Steadily`: the measurement's dwell is backed by sights of its requirement in the first series, and in every series that has heated |
| `MeasurementRun_proofs` | `SoundRuns` | outputs are zero and metadata final when the instruments are given back | `Lanes /\ Signals /\ Progress /\ Left`: who holds reservation and signals at each stage of a run, how far the worker's program is, and what a worker that left has left behind |
| | `StartsAsValidated` | a run starts with the form that was validated | |
| | `Implements` | `MeasurementRun` implements `RunContract` | |
| `Application_proofs` | `ClosesQuietly` | hardware is closed only when nothing uses it and the APS100 is parked | `CloseSound /\ ClosingQuiet /\ Parking /\ Downloads /\ Closes` |
| `Bench_proofs` | `OneOwnerAtATime` | one owner, every emergency stop served, shutdown finds nobody else, the last target wins | `Turns /\ Told /\ Promised /\ Spared /\ Paced /\ Verified /\ LostSessions`: whose turn it is; what was last told and who could make it untrue; who is still going to move an output that an emergency stop promised to zero; what a disconnection has left behind it |
| | `SessionsClosedAtZero` | no session is closed at a level other than zero, except by a reconnection that failed | |
| | `SourcesAreSound` | no write moves an output by more than a step, ramps do not make each other fail, a stop ends at zero, a gate has the protection it is believed to have | `SourceInv`: whoever ramps knows where the output is (on the DAQ because it holds the lock, on a gate until two ramps overlap); after a stop the output is at zero, or a cleanup or a ramp to zero is still to come; what driver and instrument hold at each step of a protection |
| | `SetupIsSound` | a sweep has the rates and limits asked for, both are put back or named, nothing fails of itself, and a run that returns has every leg in order | `SetupInv`: which limits are still to be written and that none of them will cross; what has been captured, programmed and put back at each place; which legs have a record at their goal |

`Implements` and `ClosesQuietly` belong together: `Application` uses the measurement service
through `RunContract` only, so what is proved about closing holds for every service that
implements the contract, and `MeasurementRun` does.

What the proofs changed in the models. `MeasurementRun`: with two failures, which no run
enumerated, a photocurrent run that failed before it had decided which gates it uses counted
as driving all of them, so its "safe" was a claim about a gate it never touched; `driven` is
now what the run really uses. `DeviceManager`: with two gates a ramp restarted by a shutdown
that fails can end "reached" at a level the shutdown has zeroed since (now `raced`), and with
two emergency stops the second one promised outputs that the running emergency ramp had
already failed on, where the code ignores it; the one-gate run reached neither.
`BFieldTransport`: the invariant failed on instances larger than the run's, twice. With two
series, the second inherits what a cut cleanup of the first left in the queues; with two
adverse events, a cleanup is satisfied by the acknowledgement of an earlier pause and its own
pause fails afterwards. Both are what the code does; `cut` now records them. `SampleTemperature`: the permission
property is stated with the comparison the evaluator itself makes, so that it also holds for a
dwell of 0, which the form accepts and no scene of the run has. `TransportSetup`: with any plan
a second condition of a one-way sweep does not begin at the start; no scene had such a plan, and
the property demanded a record there. `Goal` now says where it begins, and a scene has the plan.

What stays with TLC:

* Liveness under fairness and everything about ENABLED: `HotSweepEnds`, `StopEndsMove`,
  the arrival of answers and telemetry, `CloseEnds`, the renderers' and readers' progress.
  The prover has no rule for them.
* Induction over data: what the recursive planners of `SweepPlans`, the functions of
  `PlotData` and their references compute is compared for all inputs within bounds.
* `BFieldTransport`: that a finished series was at every endpoint (`FinishedComplete`) and that
  somebody can always go on (`Proceeds`). The attempt to prove the first found it false for
  two adverse events (section 4): TLC, led along that path, confirms a condition that is
  skipped. It is stated for one event, where the run checks every state.
* Modules without theorems: `MeasurementTabs`, `AttoDry2100`, the planners and the modules of
  the display.

## 6. Not modelled

Instrument command strings, parsing and units, painting, ticks and colours, QML, the connection
dock and the magnet panel of the Widgets window are I/O, presentation or floating-point
formulas without shared control state. The physics of the instruments enters only as what an
exchange can answer. Native Zone mode of the Lake Shore, the drag/drive calibration and
spectra are left out, as are `retry_stop` and the blocking wrappers of the attoDRY2100, which
nothing calls. Tests and documents are read for what they promise and are not modelled.
"components" in `PROJECT.json` gives the reason for each part.
