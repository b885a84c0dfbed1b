-------------------------- MODULE BFieldTransport --------------------------
(***************************************************************************)
(* BFieldTransportController                                               *)
(* (src/app/engine/bfield_transport_controller.py): a series of field      *)
(* sweeps, one or two legs for every bias condition, orchestrated by the   *)
(* GUI thread.  The magnet is driven through the APS100 worker's queue,    *)
(* biases and samples through an I/O lane (transport_tasks.py), and the    *)
(* answers of both are queued to the GUI in the order of posting.          *)
(* Telemetry, timers and the operator interrupt at any moment.             *)
(*                                                                         *)
(* The controller's state is one record, c, and every handler an operator  *)
(* from records to records: what it asks of the worker and of the lane is  *)
(* collected in c.ask and c.do and posted when the handler returns.        *)
(***************************************************************************)
EXTENDS Naturals, Sequences

CONSTANTS
    Conditions, \* bias conditions of the series
    Reads,      \* transport_monitor_recovery_reads
    MaxTrouble, \* bound: adverse events
    MaxRuns     \* bound: series started

ASSUME ConstantsAssumption ==
    /\ Conditions \in Nat \ {0} /\ Reads \in Nat \ {0}
    /\ MaxTrouble \in Nat /\ MaxRuns \in Nat

VARIABLES
    c,        \* the controller
    gui,      \* signals and lane completions queued to the GUI
    \* the APS100 worker, the supply and the magnet
    aps,      \* requests posted, not taken
    busy,     \* the long request it executes
    stopping, \* the reason in the stop event, "no" when clear
    linked,   \* it has an adapter
    sweep,    \* where the supply is sweeping to, "no" when paused
    field, heater,
    reading,  \* the field it has published, "none" once the GUI has seen it
    \* the I/O lane and what it drives
    lane, bias,
    thermal,  \* what the Lake Shore evaluator answers
    trouble, runs,
    \* history
    interrupted, \* paused for temperature or monitoring, not yet continued
    holds,       \* pauses for temperature or monitoring so far
    forced,      \* STOP or close asked for while the run was on
    cut,         \* a cleanup lost its session, was crossed by a motion or went on
                 \* without its own pause, or the series began over remains of another
    reached,     \* endpoints of this series, in order
    spanned      \* a row was kept although a pause came after its request

magnetVars == <<aps, busy, stopping, linked, sweep, field, heater, reading>>
history == <<interrupted, holds, forced, cut, reached, spanned>>
vars == <<c, gui, magnetVars, lane, bias, thermal, trouble, runs, history>>

Phases == {"idle", "configuring", "positioning", "biasing", "starting_sweep", "sweeping",
           "endpoint_hold", "monitor_hold", "thermal_hold", "cleanup", "over"}
Targets == {"none", "start", "stop"}
Fields == {"start", "stop", "between"}
Resumes == {"sweep", "positioning", "bias", "endpoint", "next"}
Waits == {"nothing", "pause", "persistent", "restore", "restore_done"}

NoHold == [on |-> FALSE, phase |-> "idle", leg |-> 0, target |-> "none",
           ack |-> FALSE, reads |-> 0, aps |-> FALSE, lake |-> FALSE, bias |-> FALSE]
Holds == [on : BOOLEAN, phase : Phases, leg : 0..1, target : Targets, ack : BOOLEAN,
          reads : 0..Reads, aps : BOOLEAN, lake : BOOLEAN, bias : BOOLEAN]

Controller ==
    [active |-> FALSE, cleaning |-> FALSE, phase |-> "idle", round |-> FALSE, row |-> FALSE,
     cond |-> 1, leg |-> 0, target |-> "none", hold |-> NoHold, generation |-> 0,
     thermalHold |-> FALSE, thermalPause |-> FALSE, manual |-> FALSE, button |-> FALSE,
     resume |-> "sweep", transition |-> FALSE, endpointPause |-> FALSE, ackWaiting |-> FALSE,
     biasInflight |-> FALSE, pending |-> 0,
     rowTransition |-> FALSE, rowInflight |-> FALSE, rowEntered |-> FALSE, rowCooling |-> FALSE,
     stored |-> FALSE, lanes |-> FALSE, claimed |-> FALSE, exclusive |-> FALSE,
     status |-> "none", final |-> "persistent", waiting |-> "nothing", zeroed |-> TRUE,
     failures |-> FALSE, saving |-> FALSE, shutdownWaiting |-> FALSE, shutdownExclusive |-> FALSE,
     shutdownDone |-> FALSE, ask |-> <<>>, do |-> <<>>]

Init ==
    /\ c = Controller /\ gui = <<>>
    /\ aps = <<>> /\ busy = "no" /\ stopping = "no" /\ linked = TRUE
    /\ sweep = "no" /\ field = "between" /\ heater = "off" /\ reading = "none"
    /\ lane = <<>> /\ bias = 0 /\ thermal = "ok" /\ trouble = 0 /\ runs = 0
    /\ interrupted = FALSE /\ holds = 0 /\ forced = FALSE /\ cut = FALSE
    /\ reached = <<>> /\ spanned = FALSE

-----------------------------------------------------------------------------
(* The cleanup.                                                            *)

Ask(k, request) == [k EXCEPT !.ask = Append(@, request)]
Do(k, task) == [k EXCEPT !.do = Append(@, task)]

Request(op, to) == [op |-> op, to |-> to]

\* _cleanup: pause, zero the biases, and then what final says.
Cleanup(k, status, final) ==
    IF k.cleaning \/ ~(k.active \/ k.claimed \/ k.exclusive)
    THEN k
    ELSE Do(Ask([k EXCEPT !.cleaning = TRUE, !.hold = NoHold, !.status = status,
                          !.final = final, !.phase = "cleanup", !.waiting = "pause",
                          !.transition = FALSE, !.zeroed = FALSE, !.failures = FALSE],
                Request("pause", "user")), [task |-> "zero"])

\* _fail; a reason that names the temperature leaves the heater as it is.
Fail(k, final) == IF k.active /\ ~k.cleaning THEN Cleanup(k, "failed", final) ELSE k

\* _finalize_files' last word on the status, and _release_after_cleanup.
Release(k) ==
    [k EXCEPT !.claimed = FALSE, !.exclusive = FALSE, !.active = FALSE,
              !.phase = "over", !.cleaning = FALSE,
              !.status = IF k.failures /\ @ = "finished" THEN "failed" ELSE @]

\* _finish_cleanup: biases first, then the files, then the release.
Finish(k) ==
    IF ~k.cleaning THEN k
    ELSE IF ~k.zeroed THEN [k EXCEPT !.waiting = "restore_done"]
    ELSE IF k.lanes THEN [k EXCEPT !.saving = TRUE]
    ELSE Release(k)

\* _request_restore
Restore(k) ==
    LET waits == [k EXCEPT !.waiting = "restore"]
    IN  IF k.waiting = "restore" THEN k
        ELSE IF ~k.stored THEN Finish(waits)
        ELSE Ask(waits, Request("restore", "no"))

BeginPersistent(k) == Ask([k EXCEPT !.waiting = "persistent"], Request("persistent", "no"))

\* _force_persistent_cleanup: STOP and close during a cleanup.
ForcePersistent(k) ==
    LET conservative == [k EXCEPT !.final = "persistent"]
    IN  IF k.waiting = "restore" THEN BeginPersistent(conservative) ELSE conservative

\* Mutant: a failed pause counts like an acknowledged one.
AnswersCleanupFreely(k, name) ==
    CASE name \in {"pause", "failed:pause"} /\ k.waiting = "pause" -> Restore(k)
      [] name = "persistent" /\ k.waiting = "persistent" -> Restore(k)
      [] OTHER -> k

\* The second half of _on_magnet_operation, and _handle_cleanup_pause_failure:
\* without a confirmed pause nothing is given back.
AnswersCleanup(k, name) ==
    CASE name = "pause" /\ k.waiting = "pause" ->
             IF k.final = "persistent" THEN BeginPersistent(k) ELSE Restore(k)
      [] name = "failed:pause" /\ k.waiting = "pause" ->
             LET failed == [k EXCEPT !.failures = TRUE]
             IN  IF k.final = "persistent" THEN BeginPersistent(failed) ELSE failed
      [] name = "failed:persistent" /\ k.waiting = "persistent" -> [k EXCEPT !.failures = TRUE]
      [] name = "persistent" /\ k.waiting = "persistent" -> Restore(k)
      [] OTHER -> k

-----------------------------------------------------------------------------
(* Legs, conditions and pauses.                                            *)

\* What the evaluator says: a new cycle needs "ok", an ongoing leg does not
\* mind that the temperatures have not recovered ("cool").
Continuing(k) ==
    /\ ~k.thermalHold
    /\ k.phase \in {"positioning", "biasing", "starting_sweep", "sweeping", "endpoint_hold", "monitor_hold"}
Permitted(k) == thermal = "ok" \/ (thermal = "cool" /\ Continuing(k))

Position(k) ==
    Ask([k EXCEPT !.phase = "positioning", !.target = "none"], Request("move", "start"))

\* _begin_leg; without a target it raises before anything is sent.
BeginLeg(k, leg, target) ==
    IF ~k.active \/ k.cleaning \/ k.hold.on THEN k
    ELSE IF target = "none" THEN [k EXCEPT !.leg = leg]
    ELSE Ask([k EXCEPT !.leg = leg, !.target = target, !.endpointPause = FALSE,
                       !.phase = "starting_sweep"], Request("sweep", target))

StartCondition(k) ==
    Do([k EXCEPT !.phase = "biasing", !.biasInflight = TRUE, !.target = "stop", !.leg = 0],
       [task |-> "bias", cond |-> k.cond])

\* _next_condition
NextCondition(k) ==
    LET next == [k EXCEPT !.cond = @ + 1]
    IN  IF k.cond = Conditions THEN Cleanup(next, "finished", "driven")
        ELSE IF ~k.round THEN Position(next)
        ELSE StartCondition(next)

\* Where the sweep goes after an acknowledged endpoint.
Advance(k) ==
    LET done == [k EXCEPT !.transition = FALSE]
    IN  IF k.round /\ k.leg = 0 THEN BeginLeg(done, 1, "start")
        ELSE IF ~Permitted(done) THEN [done EXCEPT !.thermalHold = TRUE, !.resume = "next"]
        ELSE NextCondition(done)

\* _begin_monitor_hold
BeginHold(k) ==
    LET warned == [k EXCEPT !.manual = TRUE, !.button = FALSE]
    IN  IF ~k.active \/ k.cleaning \/ k.hold.on THEN warned
        ELSE Ask([warned EXCEPT
                    !.hold = [NoHold EXCEPT !.on = TRUE, !.phase = k.phase, !.leg = k.leg, !.target = k.target],
                    !.generation = @ + 1, !.phase = "monitor_hold"], Request("pause", "monitor"))

\* Mutant: a sample that was under way is kept.
PauseKeepsSamples(k) ==
    LET warned == [k EXCEPT !.manual = TRUE, !.button = FALSE]
    IN  IF k.thermalPause \/ k.thermalHold \/ ~k.active THEN warned
        ELSE Ask([warned EXCEPT !.thermalPause = TRUE, !.thermalHold = TRUE, !.phase = "thermal_hold"],
                 Request("pause", "thermal"))

\* _request_thermal_pause
ThermalPause(k) ==
    LET warned == [k EXCEPT !.manual = TRUE, !.button = FALSE]
    IN  IF thermal = "lost" THEN BeginHold(warned)
        ELSE IF k.thermalPause \/ k.thermalHold \/ ~k.active THEN warned
        ELSE Ask([warned EXCEPT
                    !.thermalPause = TRUE, !.thermalHold = TRUE, !.generation = @ + 1,
                    !.resume = CASE k.phase \in {"positioning", "configuring"} -> "positioning"
                                 [] k.phase = "biasing" -> "bias"
                                 [] k.phase = "endpoint_hold" -> "endpoint"
                                 [] OTHER -> "sweep",
                    !.rowCooling = FALSE, !.phase = "thermal_hold"], Request("pause", "thermal"))

\* Telemetry is back: never more than a thermal hold.
Recovered(k) ==
    [k EXCEPT !.hold = NoHold, !.thermalHold = TRUE, !.thermalPause = FALSE,
              !.phase = "thermal_hold", !.leg = k.hold.leg, !.target = k.hold.target,
              !.resume = CASE k.hold.phase = "endpoint_hold" -> "endpoint"
                           [] k.hold.phase = "biasing" -> "bias"
                           [] k.hold.phase \in {"configuring", "positioning"} -> "positioning"
                           [] OTHER -> "sweep"]

\* _check_monitor_recovery: enough fresh pairs of readings, taken after the
\* acknowledgement of the pause.
CheckRecovery(k) ==
    LET counted == [k EXCEPT !.hold.reads = IF @ < Reads THEN @ + 1 ELSE @,
                             !.hold.aps = FALSE, !.hold.lake = FALSE]
    IN  IF thermal = "trip" THEN Fail(k, "unchanged")
        ELSE IF thermal = "lost" THEN [k EXCEPT !.hold.reads = 0]
        ELSE IF ~(k.hold.ack /\ k.hold.aps /\ k.hold.lake) THEN k
        ELSE IF counted.hold.reads < Reads THEN counted
        ELSE IF k.hold.phase = "biasing" /\ ~k.hold.bias THEN counted
        ELSE Recovered(counted)

HoldAcknowledged(k) == [k EXCEPT !.hold.ack = TRUE, !.hold.aps = FALSE, !.hold.lake = FALSE]

\* An acknowledged endpoint, when nothing holds the run.
EndpointGo(k) ==
    IF k.hold.on THEN HoldAcknowledged(k)
    ELSE IF ~k.transition THEN k
    ELSE IF k.pending > 0 THEN [k EXCEPT !.ackWaiting = TRUE]
    ELSE Advance([k EXCEPT !.ackWaiting = FALSE])

\* What keeps _resume_after_thermal_recovery waiting.
Unsettled(k) ==
    \/ k.thermalPause
    \/ k.resume = "bias" /\ k.biasInflight
    \/ k.rowTransition /\ ~k.rowEntered
    \/ k.rowCooling

\* Only the wait between two conditions ends by itself.
NormalWait(k) == k.rowTransition /\ ~k.manual

\* The dispatch at the end of _resume_after_thermal_recovery.
Resumed(k) ==
    IF k.rowTransition
    THEN LET next == [k EXCEPT !.rowTransition = FALSE, !.rowInflight = FALSE,
                               !.rowEntered = FALSE, !.cond = @ + 1]
         IN  IF k.cond = Conditions THEN Cleanup(next, "finished", "driven") ELSE Position(next)
    ELSE LET plain == [k EXCEPT !.resume = "sweep"]
         IN  CASE k.resume = "positioning" -> Position(plain)
               [] k.resume = "endpoint" -> EndpointGo(plain)
               [] k.resume = "bias" -> BeginLeg(plain, 0, "stop")
               [] k.resume = "next" -> NextCondition(plain)
               [] OTHER -> BeginLeg(k, k.leg, k.target)

\* _resume_after_thermal_recovery
Resume(k, operator) ==
    LET seen == [k EXCEPT !.manual = @ \/ thermal \in {"warn", "trip", "lost"}]
        shown == [seen EXCEPT !.button = ~NormalWait(seen) /\ thermal = "ok" /\ ~Unsettled(seen)]
        go == [seen EXCEPT !.thermalHold = FALSE, !.manual = FALSE, !.button = FALSE]
    IN  IF k.cleaning \/ ~k.active \/ ~k.thermalHold THEN [k EXCEPT !.button = FALSE]
        ELSE IF (operator \/ NormalWait(seen)) /\ ~Unsettled(seen) /\ thermal = "ok"
             THEN Resumed(go)
        ELSE shown

\* _begin_row_persistent_transition
BeginRow(k) ==
    IF k.rowInflight THEN k
    ELSE Ask([k EXCEPT !.rowInflight = TRUE, !.rowEntered = FALSE, !.thermalHold = TRUE,
                       !.rowCooling = TRUE], Request("persistent", "no"))

EndpointAcknowledged(k) ==
    IF k.pending > 0 THEN [k EXCEPT !.ackWaiting = TRUE]
    ELSE LET now == [k EXCEPT !.ackWaiting = FALSE]
         IN  IF k.rowTransition THEN BeginRow([now EXCEPT !.transition = FALSE, !.resume = "sweep"])
             ELSE IF k.thermalHold THEN Resume([now EXCEPT !.resume = "endpoint"], FALSE)
             ELSE Advance(now)

\* _on_magnet_operation: one signal for four kinds of pauses.
MagnetOperation(k, name) ==
    IF k.hold.on /\ ~k.cleaning /\ name = "pause" THEN HoldAcknowledged(k)
    ELSE IF k.shutdownWaiting
    THEN CASE name = "persistent" ->
                  [k EXCEPT !.shutdownWaiting = FALSE, !.shutdownDone = TRUE, !.shutdownExclusive = FALSE]
           [] name = "failed:persistent" -> [k EXCEPT !.shutdownWaiting = FALSE]
           [] OTHER -> k
    ELSE IF k.cleaning THEN AnswersCleanup(k, name)
    ELSE CASE name = "pause" /\ k.thermalPause ->
                  LET paused == [k EXCEPT !.thermalPause = FALSE]
                  IN  IF k.transition THEN EndpointAcknowledged(paused) ELSE paused
           [] name = "pause" /\ ~k.thermalPause /\ k.transition -> EndpointAcknowledged(k)
           [] name = "persistent" /\ k.rowTransition -> Resume([k EXCEPT !.rowEntered = TRUE], FALSE)
           [] name \in {"failed:pause", "failed:persistent"} -> Fail(k, "persistent")
           [] OTHER -> k

-----------------------------------------------------------------------------
(* Handlers of the worker's and the lane's answers.                        *)

\* _on_configured: it looks at the run, not at its cleanup.
Configured(k, ok) ==
    IF ~k.active THEN k
    ELSE IF ~ok THEN Fail(k, "persistent")
    ELSE LET kept == [k EXCEPT !.stored = TRUE]
         IN  IF k.hold.on THEN [kept EXCEPT !.hold.phase = "positioning"]
             ELSE IF k.thermalHold THEN [kept EXCEPT !.resume = "positioning"]
             ELSE Position(kept)

\* _on_safe_move
Moved(k, result) ==
    IF k.active /\ ~k.cleaning /\ result = "thermal" /\ k.thermalHold
    THEN [k EXCEPT !.resume = "positioning"]
    ELSE IF ~k.active \/ k.hold.on \/ k.cleaning THEN k
    ELSE IF result = "failed" THEN Fail(k, "persistent")
    ELSE IF result # "ok" THEN Fail(k, "unchanged")
    ELSE IF k.thermalHold THEN [k EXCEPT !.resume = "positioning"]
    ELSE StartCondition(k)

\* _on_sweep_started
SweepStarted(k, ok) ==
    IF ~k.active \/ k.cleaning \/ k.hold.on THEN k
    ELSE IF ok THEN [k EXCEPT !.phase = "sweeping"] ELSE Fail(k, "persistent")

\* _on_restore_result
Restored(k, ok) ==
    IF k.cleaning /\ k.waiting = "restore"
    THEN Finish([k EXCEPT !.failures = @ \/ ~ok]) ELSE k

\* _on_magnet_error: what reading the status reports is a loss of monitoring.
MagnetError(k, what) ==
    IF k.cleaning \/ k.shutdownWaiting THEN [k EXCEPT !.failures = TRUE]
    ELSE IF ~k.active THEN k
    ELSE IF what = "read" THEN BeginHold(k) ELSE Fail(k, "persistent")

\* _on_magnet_disconnected
MagnetDisconnected(k) ==
    IF k.cleaning THEN Finish([k EXCEPT !.failures = TRUE])
    ELSE IF k.active THEN BeginHold(k) ELSE k

\* _biases_ready
BiasesReady(k, ok) ==
    LET over == [k EXCEPT !.biasInflight = FALSE]
    IN  IF k.cleaning \/ ~k.active THEN over
        ELSE IF ~ok THEN Fail(over, "persistent")
        ELSE IF k.hold.on THEN [over EXCEPT !.hold.bias = TRUE]
        ELSE IF k.thermalHold THEN Resume([over EXCEPT !.resume = "bias"], FALSE)
        ELSE BeginLeg(over, 0, "stop")

\* A read that spans a pause is not a point of the sweep.
Kept(k, row) == ~k.hold.on /\ row.generation = k.generation

\* _sample_ready, without the row itself.
SampleReady(k, ok) ==
    LET one == [k EXCEPT !.pending = @ - 1]
    IN  IF ~ok THEN Fail(one, "persistent")
        ELSE IF one.pending = 0 /\ k.ackWaiting /\ ~k.cleaning /\ ~k.hold.on
             THEN MagnetOperation(one, "pause") ELSE one

\* Mutant: nobody goes on when the biases are late.
BiasesZeroedOnly(k, ok) == [k EXCEPT !.zeroed = TRUE, !.failures = @ \/ ~ok]

\* _zero_biases_ready
BiasesZeroed(k, ok) ==
    LET zero == [k EXCEPT !.zeroed = TRUE, !.failures = @ \/ ~ok]
    IN  IF k.waiting = "restore_done" THEN Finish(zero) ELSE zero

-----------------------------------------------------------------------------
(* The actions of the GUI thread.                                          *)

\* The handler's new state; what it asked for is posted in order.  A pause
\* sets the stop event at once.
PauseReasons(asked) == {asked[i].to : i \in {j \in DOMAIN asked : asked[j].op = "pause"}}

Becomes(k) ==
    /\ c' = [k EXCEPT !.ask = <<>>, !.do = <<>>]
    /\ aps' = aps \o k.ask /\ lane' = lane \o k.do
    /\ IF PauseReasons(k.ask) = {} THEN UNCHANGED stopping
       ELSE stopping' \in PauseReasons(k.ask)

\* A pause for temperature or monitoring interrupts the run until the operator
\* continues it; a cleanup that has begun is not interrupted any more.
Holding(k) == \E i \in DOMAIN k.ask : k.ask[i].op = "pause" /\ k.ask[i].to # "user"
Interrupts(k) ==
    /\ interrupted' = (~k.cleaning /\ k.active /\ (interrupted \/ Holding(k)))
    /\ holds' = IF Holding(k) THEN holds + 1 ELSE holds

Outside == UNCHANGED <<busy, linked, sweep, field, heater, bias>>

\* start() until the magnet is reserved: no run, a connected magnet with fresh
\* readings, a permission of the thermal evaluator, and nobody who owns the magnet.
MayStart ==
    /\ runs < MaxRuns /\ ~c.active /\ ~c.cleaning /\ linked /\ thermal = "ok"
    /\ ~c.claimed /\ ~c.exclusive /\ ~c.shutdownExclusive

\* Nothing of an earlier series is left: no request but to connect, no answer but errors.
Drained ==
    /\ busy = "no" /\ sweep = "no" /\ lane = <<>>
    /\ \A i \in DOMAIN aps : aps[i].op = "connect"
    /\ \A i \in DOMAIN gui : gui[i].kind \in {"error", "disconnected"}

\* start(): the devices are claimed and the magnet is configured.
Start(round, row) ==
    /\ MayStart
    /\ runs' = runs + 1
    /\ Becomes(Ask([Controller EXCEPT !.active = TRUE, !.round = round, !.row = row,
                        !.phase = "configuring", !.claimed = TRUE, !.exclusive = TRUE,
                        !.lanes = TRUE],
                   Request("configure", "no")))
    /\ interrupted' = FALSE /\ holds' = 0 /\ forced' = FALSE
    /\ reached' = <<>> /\ spanned' = FALSE /\ cut' = ~Drained
    /\ UNCHANGED <<gui, reading, thermal, trouble>> /\ Outside

\* start() that fails after the reservation: there are no lanes yet.
StartFails ==
    /\ MayStart
    /\ runs' = runs + 1
    /\ Becomes([Cleanup([Controller EXCEPT !.exclusive = TRUE, !.claimed = TRUE], "failed", "persistent")
                    EXCEPT !.zeroed = TRUE, !.do = <<>>])
    /\ interrupted' = FALSE /\ holds' = 0 /\ forced' = FALSE
    /\ reached' = <<>> /\ spanned' = FALSE /\ cut' = ~Drained
    /\ UNCHANGED <<gui, reading, thermal, trouble>> /\ Outside

\* stop(): by the operator.
StopRun(k) ==
    IF k.cleaning THEN ForcePersistent(k) ELSE Cleanup(k, "stopped", "persistent")

Stop ==
    /\ c.active \/ c.cleaning
    /\ ~forced
    /\ Becomes(StopRun(c)) /\ forced' = TRUE /\ interrupted' = FALSE
    /\ UNCHANGED <<gui, reading, thermal, trouble, runs, holds, cut, reached, spanned>> /\ Outside

\* Mutant: the last thing known of the heater is trusted.
PrepareShutdownTrusting(k) ==
    IF k.cleaning THEN ForcePersistent(k)
    ELSE IF k.active THEN Cleanup(k, "stopped", "persistent")
    ELSE [k EXCEPT !.shutdownDone = TRUE]

\* prepare_shutdown() without an earlier clearance: stop the run, or else fence
\* and queue a persistent request behind whatever was asked before.
PrepareShutdown(k) ==
    IF k.cleaning THEN ForcePersistent(k)
    ELSE IF k.active THEN Cleanup(k, "stopped", "persistent")
    ELSE IF k.shutdownWaiting THEN k
    ELSE Ask([k EXCEPT !.shutdownExclusive = TRUE, !.shutdownWaiting = TRUE],
             Request("persistent", "no"))

Close ==
    /\ ~c.shutdownDone /\ runs > 0
    /\ Becomes(PrepareShutdown(c)) /\ interrupted' = FALSE
    /\ forced' = (forced \/ c.active \/ c.cleaning)
    /\ UNCHANGED <<gui, reading, thermal, trouble, runs, holds, cut, reached, spanned>> /\ Outside

\* Another part of the program refused the close: cancel_shutdown_preparation().
CloseRejected ==
    /\ c.shutdownDone
    /\ Becomes([c EXCEPT !.shutdownDone = FALSE])
    /\ UNCHANGED <<gui, reading, thermal, trouble, runs, history>> /\ Outside

\* The Continue button is shown enabled only where the handlers left it so.
Continue ==
    /\ c.button
    /\ Becomes(Resume(c, TRUE)) /\ interrupted' = FALSE
    /\ UNCHANGED <<gui, reading, thermal, trouble, runs, holds, forced, cut, reached, spanned>> /\ Outside

Handled(s) ==
    CASE s.kind = "configured" -> Configured(c, s.ok)
      [] s.kind = "moved" -> Moved(c, s.name)
      [] s.kind = "swept" -> SweepStarted(c, s.ok)
      [] s.kind = "operation" -> MagnetOperation(c, s.name)
      [] s.kind = "restored" -> Restored(c, s.ok)
      [] s.kind = "error" -> MagnetError(c, s.name)
      [] s.kind = "disconnected" -> MagnetDisconnected(c)
      [] s.kind = "biases" -> BiasesReady(c, s.ok)
      [] s.kind = "sample" -> SampleReady(c, s.ok)
      [] s.kind = "zeroed" -> BiasesZeroed(c, s.ok)

Moves(asked) == \E i \in DOMAIN asked : asked[i].op \in {"move", "sweep"}

\* What leaves a cleanup without a paused magnet.  The acknowledgement of an earlier
\* pause is as good for it as that of its own, which may then fail.
Cuts(s) ==
    /\ c.cleaning
    /\ \/ s.kind = "disconnected" \/ Moves(Handled(s).ask)
       \/ s.kind = "operation" /\ s.name = "failed:pause" /\ c.waiting # "pause"

Deliver ==
    /\ gui # <<>> /\ gui' = Tail(gui)
    /\ Becomes(Handled(Head(gui)))
    /\ Interrupts(Handled(Head(gui)))
    /\ cut' = (cut \/ Cuts(Head(gui)))
    /\ spanned' = (spanned \/ LET s == Head(gui)
                              IN  s.kind = "sample" /\ s.ok /\ Kept(c, s) /\ s.holds # holds)
    /\ UNCHANGED <<reading, thermal, trouble, runs, forced, reached>> /\ Outside

\* The final files are written (_files_finished).
Saved ==
    /\ c.saving
    /\ Becomes(Release([c EXCEPT !.saving = FALSE, !.lanes = FALSE]))
    /\ UNCHANGED <<gui, reading, thermal, trouble, runs, history>> /\ Outside

\* What the handlers do besides answering: the run's adverse events.
Adverse(k) ==
    /\ trouble < MaxTrouble /\ trouble' = trouble + 1
    /\ Becomes(k) /\ Interrupts(k)
    /\ UNCHANGED <<gui, runs, forced, cut, reached, spanned>> /\ Outside

\* _fail() for a reason of the run's own: the supply's fault, no progress, an
\* output that cannot be written, monitoring that did not come back.
RunFails ==
    /\ c.active /\ ~c.cleaning
    /\ Adverse(Fail(c, IF c.hold.on /\ thermal = "lost" THEN "unchanged" ELSE "persistent"))
    /\ UNCHANGED <<reading, thermal>>

\* A stale reading, the telemetry watchdog, a Lake Shore that is gone.
MonitoringLost ==
    /\ c.active /\ ~c.cleaning /\ ~c.hold.on
    /\ \/ reading' = "none" /\ UNCHANGED thermal
       \/ thermal' = "lost" /\ UNCHANGED reading
    /\ Adverse(BeginHold(c))

\* One row for the lane, unless one is under way; the last one is read anyhow.
Sample(k, near) ==
    IF k.pending > 0 /\ (~near \/ k.pending > 1) THEN k
    ELSE Do([k EXCEPT !.pending = @ + 1],
            [task |-> "sample", generation |-> k.generation, holds |-> holds])

\* _begin_endpoint_hold
EndpointHold(k) ==
    IF k.transition \/ k.endpointPause THEN k
    ELSE Ask([k EXCEPT !.transition = TRUE, !.endpointPause = TRUE, !.phase = "endpoint_hold",
                       !.rowTransition = @ \/ (k.row /\ k.cond < Conditions /\ (~k.round \/ k.leg = 1))],
             Request("pause", "user"))

\* _process_snapshot of a fresh, healthy reading.
SnapshotHandled(k, at) ==
    IF ~k.active \/ k.cleaning THEN k
    ELSE IF k.hold.on THEN CheckRecovery([k EXCEPT !.hold.aps = TRUE])
    ELSE IF ~Permitted(k) THEN IF k.thermalHold THEN k ELSE ThermalPause(k)
    ELSE IF k.target = "none" \/ k.phase # "sweeping" \/ k.transition THEN k
    ELSE IF at = k.target THEN EndpointHold(Sample(k, TRUE)) ELSE Sample(k, FALSE)

Snapshot ==
    /\ reading # "none" /\ reading' = "none"
    /\ LET k == SnapshotHandled(c, reading)
       IN  /\ Becomes(k) /\ Interrupts(k)
           /\ reached' = IF k.transition /\ ~c.transition
                         THEN Append(reached, <<c.cond, c.leg>>) ELSE reached
    /\ UNCHANGED <<gui, thermal, trouble, runs, forced, cut, spanned>> /\ Outside

\* on_lakeshore_snapshot
LakeHandled(k) ==
    IF ~k.active \/ k.cleaning THEN k
    ELSE IF k.hold.on THEN CheckRecovery([k EXCEPT !.hold.lake = TRUE])
    ELSE IF Permitted(k) \/ (k.thermalHold /\ thermal # "trip") THEN Resume(k, FALSE)
    ELSE IF thermal = "trip" THEN Fail(k, "unchanged")
    ELSE ThermalPause(k)

LakeSnapshot ==
    /\ LakeHandled(c) # c
    /\ Becomes(LakeHandled(c)) /\ Interrupts(LakeHandled(c))
    /\ UNCHANGED <<gui, reading, thermal, trouble, runs, forced, cut, reached, spanned>> /\ Outside

\* The thermal half of _on_telemetry_watchdog.
WatchdogHandled(k) ==
    IF ~k.active \/ k.cleaning THEN k
    ELSE IF k.hold.on THEN CheckRecovery(k)
    ELSE IF k.phase \notin {"biasing", "starting_sweep", "sweeping", "endpoint_hold"} \/ Permitted(k) THEN k
    ELSE IF thermal = "trip" THEN Fail(k, "unchanged") ELSE ThermalPause(k)

Watchdog ==
    /\ WatchdogHandled(c) # c
    /\ Becomes(WatchdogHandled(c)) /\ Interrupts(WatchdogHandled(c))
    /\ UNCHANGED <<gui, reading, thermal, trouble, runs, forced, cut, reached, spanned>> /\ Outside

\* heater_cool_s after the condition's persistent request.
RowCooled ==
    /\ c.rowCooling /\ c' = [c EXCEPT !.rowCooling = FALSE]
    /\ UNCHANGED <<gui, magnetVars, lane, bias, thermal, trouble, runs, history>>

-----------------------------------------------------------------------------
(* The worker thread of the APS100 and the supply.                         *)

Tell(more) == gui' = gui \o more
Signal(kind, name, ok) == [kind |-> kind, name |-> name, ok |-> ok]
Operation(name) == <<Signal("operation", name, TRUE)>>
NotConnected == <<Signal("error", "other", FALSE)>>

Running == c.active /\ ~c.cleaning
GuiAside == UNCHANGED <<c, lane, bias, thermal, runs, history>>
Next0 == aps' = Tail(aps)
Taken(op) == busy = "no" /\ aps # <<>> /\ Head(aps).op = op

\* A device call either succeeds or is one of the adverse events.
Succeeds == UNCHANGED trouble
Breaks == trouble < MaxTrouble /\ trouble' = trouble + 1

Configure ==
    /\ Taken("configure") /\ Next0
    /\ \/ linked /\ Succeeds /\ sweep' = "no" /\ Tell(<<Signal("configured", "", TRUE)>>)
       \/ ~linked /\ Succeeds /\ Tell(<<Signal("configured", "", FALSE)>>) /\ UNCHANGED sweep
       \/ linked /\ Breaks /\ Tell(<<Signal("configured", "", FALSE)>>) /\ UNCHANGED sweep
    /\ UNCHANGED <<busy, stopping, linked, field, heater, reading>> /\ GuiAside

\* safe_move_to_field and enter_persistent_mode clear the stop event.
TakeLong ==
    /\ \E op \in {"move", "persistent"} : Taken(op) /\ busy' = (IF linked THEN op ELSE "no")
    /\ Next0
    /\ IF linked THEN stopping' = "no" /\ UNCHANGED gui
       ELSE /\ UNCHANGED stopping
            /\ Tell(IF Head(aps).op = "move" THEN <<Signal("moved", "failed", FALSE)>> ELSE NotConnected)
    /\ UNCHANGED <<linked, sweep, field, heater, reading, trouble>> /\ GuiAside

\* The move reaches the start of the sweep in driven mode, or is stopped, or fails.
MoveEnds ==
    /\ busy = "move" /\ busy' = "no"
    /\ \/ stopping = "no" /\ Succeeds /\ field' = "start" /\ heater' = "on" /\ sweep' = "no"
          /\ Tell(<<Signal("moved", "ok", TRUE)>>)
       \/ stopping # "no" /\ Succeeds /\ sweep' = "no" /\ field' = "between" /\ UNCHANGED heater
          /\ Tell(<<Signal("moved", stopping, FALSE)>>)
       \/ Breaks /\ sweep' \in {"no", "start"} /\ field' = "between" /\ heater' \in {"on", heater}
          /\ Tell(<<Signal("moved", "failed", FALSE)>>)
    /\ UNCHANGED <<aps, stopping, linked, reading>> /\ GuiAside

PersistentEnds ==
    /\ busy = "persistent" /\ busy' = "no"
    /\ \/ Succeeds /\ heater' = "off" /\ sweep' = "no" /\ Tell(Operation("persistent"))
       \/ Breaks /\ heater' \in {"off", heater} /\ Tell(Operation("failed:persistent")) /\ UNCHANGED sweep
    /\ UNCHANGED <<aps, stopping, linked, field, reading>> /\ GuiAside

\* start_transport_sweep
TakeSweep ==
    /\ Taken("sweep") /\ Next0
    /\ \/ linked /\ Succeeds /\ sweep' = Head(aps).to /\ Tell(<<Signal("swept", "", TRUE)>>)
       \/ (IF linked THEN Breaks ELSE Succeeds) /\ Tell(<<Signal("swept", "", FALSE)>>) /\ UNCHANGED sweep
    /\ UNCHANGED <<busy, stopping, linked, field, heater, reading>> /\ GuiAside

\* pause: without an adapter there is an error and no answer.
TakePause ==
    /\ Taken("pause") /\ Next0
    /\ stopping' = IF linked /\ stopping = "no" THEN "user" ELSE stopping
    /\ \/ linked /\ Succeeds /\ sweep' = "no" /\ Tell(Operation("pause"))
       \/ linked /\ Breaks /\ UNCHANGED sweep
          /\ Tell(<<Signal("error", "other", FALSE)>> \o Operation("failed:pause"))
       \/ ~linked /\ Succeeds /\ UNCHANGED sweep /\ Tell(NotConnected)
    /\ UNCHANGED <<busy, linked, field, heater, reading>> /\ GuiAside

TakeRestore ==
    /\ Taken("restore") /\ Next0 /\ Tell(<<Signal("restored", "", linked)>>)
    /\ UNCHANGED <<busy, stopping, linked, sweep, field, heater, reading, trouble>> /\ GuiAside

\* The timer publishes a reading between two requests, or cannot read; readings
\* published outside a run or during its cleanup change nothing.
Poll ==
    /\ linked /\ busy = "no"
    /\ \/ Running /\ reading = "none" /\ reading' = field /\ Succeeds /\ UNCHANGED gui
       \/ Breaks /\ Tell(<<Signal("error", "read", FALSE)>>) /\ UNCHANGED reading
    /\ UNCHANGED <<aps, busy, stopping, linked, sweep, field, heater>> /\ GuiAside

\* The field follows the supply, which holds at the limit it was sent to.
Sweeping ==
    /\ sweep # "no" /\ field' = (IF field = "between" THEN sweep ELSE "between")
    /\ sweep' = IF field = "between" THEN "no" ELSE sweep
    /\ UNCHANGED <<gui, aps, busy, stopping, linked, heater, reading, trouble>> /\ GuiAside

\* A reading finds the session lost.
Unlink ==
    /\ linked /\ busy = "no" /\ Breaks /\ linked' = FALSE
    /\ Tell(<<Signal("error", "read", FALSE), Signal("disconnected", "", FALSE)>>)
    /\ UNCHANGED <<aps, busy, stopping, sweep, field, heater, reading>> /\ GuiAside

\* The user connects again: a request like any other, which disconnects first.
AskConnect ==
    /\ ~linked /\ \A i \in DOMAIN aps : aps[i].op # "connect"
    /\ aps' = Append(aps, Request("connect", "no"))
    /\ UNCHANGED <<gui, busy, stopping, linked, sweep, field, heater, reading, trouble>> /\ GuiAside
TakeConnect ==
    /\ Taken("connect") /\ Next0 /\ linked' = TRUE
    /\ Tell(<<Signal("disconnected", "", FALSE)>>)
    /\ UNCHANGED <<busy, stopping, sweep, field, heater, reading, trouble>> /\ GuiAside

-----------------------------------------------------------------------------
(* The I/O lane: one thread, tasks in order, cancelled by a cleanup.       *)

Cancelled == c.cleaning \/ ~c.active
MagnetAside == UNCHANGED <<c, magnetVars, thermal, runs>>
LaneDone(kind, ok) == lane' = Tail(lane) /\ Tell(<<Signal(kind, "", ok)>>)

\* _apply_biases: ramping, then settled.
BiasRamps ==
    /\ lane # <<>> /\ Head(lane).task = "bias" /\ bias # 0 /\ bias' = 0
    /\ UNCHANGED <<gui, lane, trouble, history>> /\ MagnetAside

BiasEnds ==
    /\ lane # <<>> /\ Head(lane).task = "bias" /\ bias = 0
    /\ \/ ~Cancelled /\ Succeeds /\ bias' = Head(lane).cond /\ LaneDone("biases", TRUE)
       \/ (IF Cancelled THEN Succeeds ELSE Breaks) /\ UNCHANGED bias /\ LaneDone("biases", FALSE)
    /\ UNCHANGED history /\ MagnetAside

TakeSample ==
    /\ lane # <<>> /\ Head(lane).task = "sample"
    /\ lane' = Tail(lane)
    /\ \/ ~Cancelled /\ Succeeds
          /\ Tell(<<[kind |-> "sample", name |-> "", ok |-> TRUE, generation |-> Head(lane).generation,
                     holds |-> Head(lane).holds]>>)
       \/ (IF Cancelled THEN Succeeds ELSE Breaks) /\ Tell(<<Signal("sample", "", FALSE)>>)
    /\ UNCHANGED <<bias, history>> /\ MagnetAside

\* _zero_biases: a source that cannot be zeroed does not stop the others.
ZeroBiases ==
    /\ lane # <<>> /\ Head(lane).task = "zero"
    /\ \/ Succeeds /\ bias' = 0 /\ LaneDone("zeroed", TRUE)
       \/ bias # 0 /\ Breaks /\ UNCHANGED bias /\ LaneDone("zeroed", FALSE)
    /\ UNCHANGED history /\ MagnetAside

\* Temperatures change, for the worse they count; a cleanup does not look at them.
Warms ==
    /\ Running /\ Breaks /\ thermal' \in {"cool", "warn", "trip"} \ {thermal}
    /\ UNCHANGED <<c, gui, magnetVars, lane, bias, runs, history>>
Cools ==
    /\ ~c.cleaning /\ thermal # "ok" /\ thermal' = (IF thermal = "cool" THEN "ok" ELSE "cool")
    /\ UNCHANGED <<c, gui, magnetVars, lane, bias, trouble, runs, history>>

-----------------------------------------------------------------------------
Rest == UNCHANGED vars

Worker ==
    Configure \/ TakeLong \/ MoveEnds \/ PersistentEnds \/ TakeSweep \/ TakePause \/ TakeRestore \/ TakeConnect
Lane == BiasRamps \/ BiasEnds \/ TakeSample \/ ZeroBiases

Next ==
    \/ \E round, row \in BOOLEAN : Start(round, row)
    \/ StartFails \/ Stop \/ Close \/ CloseRejected \/ Continue
    \/ Deliver \/ Saved \/ RunFails \/ MonitoringLost
    \/ Snapshot \/ LakeSnapshot \/ Watchdog \/ RowCooled
    \/ Worker \/ Poll \/ Sweeping \/ Unlink \/ AskConnect
    \/ Lane \/ Warms \/ Cools \/ Rest

Spec == Init /\ [][Next]_vars

-----------------------------------------------------------------------------
(* Properties.                                                             *)

Requests == [op : {"configure", "move", "persistent", "sweep", "pause", "restore", "connect"},
             to : Targets \cup {"no", "user", "monitor", "thermal"}]
Kinds == {"configured", "moved", "swept", "operation", "restored", "error", "disconnected",
          "biases", "sample", "zeroed"}

\* Every variable has its type.
TypeOK ==
    /\ DOMAIN c = DOMAIN Controller /\ c.ask = <<>> /\ c.do = <<>>
    /\ c.hold \in Holds /\ c.phase \in Phases /\ c.target \in Targets
    /\ c.resume \in Resumes /\ c.waiting \in Waits /\ c.pending \in 0..2
    /\ c.cond \in 1..Conditions + 1 /\ c.leg \in 0..1
    /\ \A i \in DOMAIN gui : gui[i].kind \in Kinds /\ gui[i].ok \in BOOLEAN
    /\ \A i \in DOMAIN aps : aps[i] \in Requests
    /\ \A i \in DOMAIN lane : lane[i].task \in {"bias", "sample", "zero"}
    /\ busy \in {"no", "move", "persistent"} /\ stopping \in {"no", "user", "monitor", "thermal"}
    /\ sweep \in {"no", "start", "stop"} /\ field \in Fields /\ heater \in {"on", "off"}
    /\ reading \in Fields \cup {"none"} /\ bias \in 0..Conditions
    /\ thermal \in {"ok", "cool", "warn", "trip", "lost"}

Endpoints ==
    IF c.round THEN [i \in 1..2 * Conditions |-> <<1 + (i - 1) \div 2, (i - 1) % 2>>]
    ELSE [i \in 1..Conditions |-> <<i, 0>>]

\* In a series with at most one adverse event: it is reported "finished" only when
\* the magnet was at every endpoint of every condition, once each and in order,
\* whatever pause, loss of monitoring and continuation came in between.  (Two warm
\* phases can skip a condition: _on_sweep_started makes the phase "sweeping" under
\* a thermal hold, so that an endpoint counts during it, and a Continue goes on while
\* its acknowledgement is still to come.)  After any number no bias is left.
FinishedComplete ==
    c.phase = "over" /\ c.status = "finished" /\ ~cut =>
        /\ trouble <= 1 => reached = Endpoints
        /\ bias = 0

\* No row is committed whose reading was asked for before a pause for
\* temperature or monitoring (_sample_ready and the two places that count pauses).
RowsUninterrupted == ~spanned

\* When the devices are given back the lane is done with them, so nothing
\* drives a source that another run may claim.
LaneQuiet == ~c.claimed => lane = <<>>

\* When the magnet is given back after a cleanup that was not cut, no motion of
\* the run is queued or under way and the supply is paused.
ReleasedQuiet ==
    runs > 0 /\ ~c.exclusive /\ ~cut =>
        /\ sweep = "no" /\ busy # "move"
        /\ ~Moves(aps)

\* A run that was paused for its temperature or its monitoring moves the magnet
\* again only after the operator continued it.
NoAutomaticResume ==
    [][interrupted /\ interrupted' =>
          ~Moves(SubSeq(aps', Len(aps) + 1, Len(aps')))]_vars

\* The clearance to disconnect for an application close is given with the
\* magnet's heater off, unless a cleanup lost its session before.
CloseSafe == [][~c.shutdownDone /\ c'.shutdownDone /\ ~cut => heater = "off"]_vars

\* After a pause the magnet moves for the operator only, and the clearance to
\* disconnect finds its heater off.
MagnetSafe == NoAutomaticResume /\ CloseSafe

Idle ==
    /\ aps = <<>> /\ busy = "no" /\ gui = <<>> /\ lane = <<>>
    /\ ~c.saving /\ reading = "none"

\* A cleanup that had no failure never waits for an answer nobody will give.
CleanupAnswered == Idle /\ c.cleaning => c.failures

\* A run that is not held waits for an answer that comes, or for the sweep.
RunAnswered ==
    Idle /\ Running /\ ~c.hold.on /\ ~c.thermalHold => c.phase = "sweeping"

\* The operator can continue every run that is held within a condition once its
\* readings are good again.  (Between two conditions this fails: a monitoring
\* hold that takes the endpoint's acknowledgement leaves the transition waiting
\* for a persistent request that was never made.)
Continuable ==
    Idle /\ Running /\ c.thermalHold /\ ~c.hold.on /\ ~c.rowTransition /\ thermal = "ok" => ~Unsettled(c)

\* stop() (bfield_transport_controller.py:530): a STOP "must strengthen cleanup,
\* not be ignored because cleanup has already started": a stopped run that had
\* no failure ends with the heater off.
StopStrengthens ==
    c.phase = "over" /\ forced /\ ~cut /\ ~c.failures => heater = "off"

\* A cleanup that has begun asks for no further motion.
CleanupStill ==
    [][c.cleaning => ~Moves(SubSeq(aps', Len(aps) + 1, Len(aps')))]_vars


\* Whoever holds the instruments, on well-formed states: the lane and the release
\* of the magnet wait for the last of them.
OwnershipQuiet == TypeOK /\ LaneQuiet /\ ReleasedQuiet

\* Every wait has something under way, or a button, that ends it.
Proceeds == CleanupAnswered /\ Continuable

\* A run that reports success measured everything, out of uninterrupted rows.
MeasuredWell == FinishedComplete /\ RowsUninterrupted
=============================================================================
