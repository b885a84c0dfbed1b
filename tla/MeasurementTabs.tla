-------------------------- MODULE MeasurementTabs --------------------------
(***************************************************************************)
(* The measurement tabs of the Widgets window (src/app/ui/tabs), their run *)
(* panels, the lock-in panel and the coordinator that renders the channel  *)
(* PNGs of a finished run (src/app/ui/measurement_png_coordinator.py).     *)
(*                                                                         *)
(* A run has a worker in a QThread of its own.  What the worker emits, and *)
(* the thread's finished(), are queued for the GUI thread: mail[t].  The   *)
(* tab's devices are reserved in the shared DeviceManager from start_run   *)
(* to _cleanup_thread; a B-field series keeps them between its runs.       *)
(***************************************************************************)
EXTENDS Naturals, Sequences, FiniteSets

CONSTANTS
    PlainTabs,   \* Vds sweep, photocurrent, gate scan: one handler per signal
    MapTabs,     \* co-sweep: the outcome waits for the worker's zero return
    SeriesTabs,  \* B-field gate scan: runs started by the field batch
    EarlyTabs,   \* workers that report before they return outputs to zero
    NoTab,
    MaxRuns,     \* workers started, over all tabs
    MaxJobs,     \* runs of one field batch
    MaxOther     \* panel operations, hardware operations and emergencies

Tabs == PlainTabs \union MapTabs \union SeriesTabs

ASSUME TabsAssumption ==
    /\ MapTabs \subseteq EarlyTabs /\ SeriesTabs \cap EarlyTabs = {}
    /\ EarlyTabs \subseteq Tabs /\ NoTab \notin Tabs
    /\ PlainTabs \cap (MapTabs \union SeriesTabs) = {} /\ MapTabs \cap SeriesTabs = {}
    /\ MaxRuns \in Nat /\ MaxJobs \in Nat /\ MaxOther \in Nat

Devices == {"daq", "lockin"}
Results == {"finished", "stopped", "error"}
RunIds  == 1 .. MaxRuns

VARIABLES
    inUse,    \* DeviceManager._in_use
    busy,     \* DeviceManager.is_busy: connecting, ramping, an emergency stop
    panel,    \* the lock-in panel's worker has claimed the lock-in
    tab,      \* each tab: its run, claimed devices, panel state and PNG job
    work,     \* each tab's worker: how far it is and whether it must stop
    mail,     \* what the worker and its thread have queued for the GUI thread
    series,   \* the field batch: where it is, its stop flag, its runs left
    runs,     \* runs started
    log,      \* per run: the statuses end_run_logging has written
    truth,    \* per run: what its worker reported and whether zeroing failed
    late,     \* runs the user stopped when their result was already shown
    exported, \* per run: how often its PNG job was submitted
    other     \* panel operations, hardware operations, emergencies so far

vars == <<inUse, busy, panel, tab, work, mail, series, runs, log, truth, late,
          exported, other>>

-----------------------------------------------------------------------------
(* Run panels and the shared device manager *)

TabState == [run : 0 .. MaxRuns, claimed : SUBSET Devices, running : BOOLEAN,
             phase : {"quiet", "stopping", "cleanup"}, outcome : Results \union {"running"},
             quit : BOOLEAN, terminal : Results \union {"none"}, png : 0 .. MaxRuns]

Live(t) == tab[t].run # 0

\* RunPanel.operation_active.
OperationActive(r) == r.running \/ r.phase \in {"stopping", "cleanup"}

\* Mutant of Exportable: the panel's state alone decides.
ExportableByPanel(r) == r.png # 0 /\ ~OperationActive(r)

\* MeasurementPngCoordinator._flush_ready, for one tab.
Exportable(r) == r.png # 0 /\ ~OperationActive(r) /\ r.run = 0

\* The tabs after a flush, and the jobs it hands to the exporter.
Flushed(tt) == [t \in Tabs |-> IF Exportable(tt[t]) THEN [tt[t] EXCEPT !.png = 0] ELSE tt[t]]

Handed(tt) == [r \in RunIds |->
    exported[r] + Cardinality({t \in Tabs : tt[t].png = r /\ Exportable(tt[t])})]

\* Every set_status and every change of running ends in a flush.
Show(tt) == tab' = Flushed(tt) /\ exported' = Handed(tt)

Free(ds) == ~busy /\ ds \cap inUse = {}

Init ==
    /\ inUse = {} /\ busy = FALSE /\ panel = FALSE
    /\ tab = [t \in Tabs |-> [run |-> 0, claimed |-> {}, running |-> FALSE, phase |-> "quiet",
                              outcome |-> "running", quit |-> FALSE, terminal |-> "none", png |-> 0]]
    /\ work = [t \in Tabs |-> [at |-> "none", stop |-> FALSE]]
    /\ mail = [t \in Tabs |-> << >>]
    /\ series = [at |-> "off", stop |-> FALSE, left |-> 0]
    /\ runs = 0
    /\ log = [r \in RunIds |-> << >>]
    /\ truth = [r \in RunIds |-> [result |-> "none", zeroed |-> TRUE, of |-> NoTab]]
    /\ late = {}
    /\ exported = [r \in RunIds |-> 0]
    /\ other = 0

-----------------------------------------------------------------------------
(* Starting a run *)

\* The worker is built, its thread started and the panel set running; the PNG
\* job of the new run takes the place of whatever the tab still had pending.
Launch(t, claimed) ==
    /\ runs < MaxRuns
    /\ runs' = runs + 1
    /\ Show([tab EXCEPT ![t] = [run |-> runs + 1, claimed |-> claimed, running |-> TRUE,
                                phase |-> "quiet", outcome |-> "running", quit |-> FALSE,
                                terminal |-> "none", png |-> runs + 1]])
    /\ work' = [work EXCEPT ![t] = [at |-> "working", stop |-> FALSE]]

\* start_run of an ordinary tab.  The coordinator's 250 ms timer has fired
\* since the last run ended: nobody presses Start that soon.
StartRun(t) ==
    /\ t \notin SeriesTabs
    /\ ~Live(t) /\ ~Exportable(tab[t])
    /\ Free(Devices)
    /\ inUse' = inUse \union Devices
    /\ Launch(t, Devices)
    /\ UNCHANGED <<busy, panel, mail, series, log, truth, late, other>>

\* GateScanFieldBatch.start reserves the tab (begin_field_batch) and moves.
StartSeries(t) ==
    /\ t \in SeriesTabs /\ series.at = "off"
    /\ ~Live(t) /\ tab[t].claimed = {} /\ ~Exportable(tab[t])
    /\ runs < MaxRuns
    /\ Free(Devices)
    /\ inUse' = inUse \union Devices
    /\ Show([tab EXCEPT ![t].claimed = Devices, ![t].phase = "quiet"])
    /\ series' = [at |-> "moving", stop |-> FALSE, left |-> MaxJobs]
    /\ UNCHANGED <<busy, panel, work, mail, runs, log, truth, late, other>>

\* The field is reached: start_field_batch_measurement on the reserved tab.
StartJob(t) ==
    /\ t \in SeriesTabs /\ series.at = "moving" /\ ~series.stop
    /\ ~Live(t)
    /\ Launch(t, tab[t].claimed)
    /\ series' = [series EXCEPT !.at = "measuring", !.left = @ - 1]
    /\ UNCHANGED <<inUse, busy, panel, mail, log, truth, late, other>>

-----------------------------------------------------------------------------
(* Stopping *)

\* stop_run while the tab has a worker.  The result may be on show already:
\* the worker of an early tab is still returning its outputs to zero.
StopWorker(t) ==
    /\ work' = [work EXCEPT ![t].stop = TRUE]
    /\ late' = late \union (IF tab[t].quit THEN {tab[t].run} ELSE {})
    /\ Show([tab EXCEPT ![t].phase = "stopping",
                        ![t].outcome = IF t \in MapTabs THEN "stopped" ELSE @])

\* The Stop button, which is enabled while the panel shows a run; pressing it
\* again before the worker has reported changes nothing.
Stoppable(t) == Live(t) /\ (~work[t].stop \/ (tab[t].quit /\ tab[t].run \notin late))

StopRun(t) ==
    /\ Stoppable(t) /\ tab[t].running
    /\ t \notin SeriesTabs
    /\ StopWorker(t)
    /\ UNCHANGED <<inUse, busy, panel, mail, series, runs, log, truth, other>>

\* stop_series: GateScanFieldBatch.stop, which also stops the tab's worker.
StopSeries(t) ==
    /\ t \in SeriesTabs /\ series.at # "off" /\ ~series.stop
    /\ series' = [series EXCEPT !.stop = TRUE]
    /\ IF Live(t) THEN StopWorker(t)
       ELSE /\ Show([tab EXCEPT ![t].phase = "stopping"])
            /\ UNCHANGED <<work, late>>
    /\ UNCHANGED <<inUse, busy, panel, mail, runs, log, truth, other>>

\* The lock-in panel's "stop for settings": the tab with a worker is stopped;
\* a series between two runs has none.
SettingsStop(t) ==
    /\ Stoppable(t) /\ "lockin" \in inUse /\ ~panel
    /\ StopWorker(t)
    /\ UNCHANGED <<inUse, busy, panel, mail, series, runs, log, truth, other>>

\* MainWindow.on_emergency_stop: the batch, the workers, every panel set not
\* running, and the manager's emergency ramp, which every tab shows.
Emergency ==
    /\ other < MaxOther /\ other' = other + 1
    /\ ~busy /\ busy' = TRUE
    /\ series' = [series EXCEPT !.stop = series.at # "off"]
    /\ work' = [t \in Tabs |-> [work[t] EXCEPT !.stop = @ \/ Live(t)]]
    /\ Show([t \in Tabs |-> [tab[t] EXCEPT !.running = FALSE, !.phase = "quiet"]])
    /\ UNCHANGED <<inUse, panel, mail, runs, log, truth, late>>

-----------------------------------------------------------------------------
(* The worker *)

\* It ends its sweep: completely, stopped, or with an error.  A worker that
\* reports late has returned its outputs to zero first.
Report(t, result) ==
    /\ work[t].at = "working"
    /\ result = "stopped" => work[t].stop
    /\ work' = [work EXCEPT ![t].at = "reported"]
    /\ truth' = [truth EXCEPT ![tab[t].run] = [result |-> result, zeroed |-> TRUE, of |-> t]]
    /\ mail' = [mail EXCEPT ![t] = Append(@, [kind |-> result, zeroed |-> TRUE])]
    /\ UNCHANGED <<inUse, busy, panel, tab, series, runs, log, late, exported, other>>

\* The rest of run(): an early worker's return to zero, the metadata, and the
\* co-sweep worker's last timing signal.
Return(t, zeroed) ==
    /\ work[t].at = "reported"
    /\ zeroed \/ t \in EarlyTabs
    /\ work' = [work EXCEPT ![t].at = "returned"]
    /\ truth' = [truth EXCEPT ![tab[t].run].zeroed = zeroed]
    /\ mail' = [mail EXCEPT ![t] = IF t \in MapTabs
                                   THEN Append(@, [kind |-> "done", zeroed |-> zeroed]) ELSE @]
    /\ UNCHANGED <<inUse, busy, panel, tab, series, runs, log, late, exported, other>>

\* QThread.quit has run in the GUI thread and run() is over.
ThreadEnds(t) ==
    /\ work[t].at = "returned" /\ tab[t].quit
    /\ work' = [work EXCEPT ![t].at = "ended"]
    /\ mail' = [mail EXCEPT ![t] = Append(@, [kind |-> "thread", zeroed |-> TRUE])]
    /\ UNCHANGED <<inUse, busy, panel, tab, series, runs, truth, log, late, exported, other>>

-----------------------------------------------------------------------------
(* The GUI thread handles what is queued *)

Mail(t, kinds) == mail[t] # << >> /\ Head(mail[t]).kind \in kinds
Take(t) == mail' = [mail EXCEPT ![t] = Tail(@)]

\* end_run_logging
Logged(r, status) == log' = [log EXCEPT ![r] = Append(@, status)]

\* on_finished, on_stopped, on_error of an ordinary tab or of a series' run,
\* then the thread's quit.
OnTerminal(t) ==
    /\ t \notin MapTabs
    /\ Mail(t, Results) /\ Take(t)
    /\ LET result == Head(mail[t]).kind
       IN /\ Logged(tab[t].run, result)
          /\ Show([tab EXCEPT ![t].phase = "quiet", ![t].quit = TRUE,
                              ![t].terminal = IF t \in SeriesTabs THEN result ELSE @])
    /\ UNCHANGED <<inUse, busy, panel, work, series, runs, truth, late, other>>

\* The co-sweep tab's handlers: the outcome is kept, not yet published.
RecordOutcome(t) ==
    /\ t \in MapTabs
    /\ Mail(t, Results) /\ Take(t)
    /\ Show([tab EXCEPT ![t].phase = "cleanup", ![t].outcome = Head(mail[t]).kind,
                        ![t].quit = TRUE])
    /\ UNCHANGED <<inUse, busy, panel, work, series, runs, log, truth, late, other>>

Outcome(kept, zeroed) == IF zeroed THEN kept ELSE "error"

\* _on_live_timing with "done" or "cleanup_failed": _finalize_run_outcome.
FinalizeOutcome(t) ==
    /\ Mail(t, {"done"}) /\ Take(t)
    /\ Logged(tab[t].run, Outcome(tab[t].outcome, Head(mail[t]).zeroed))
    /\ Show([tab EXCEPT ![t].phase = "quiet"])
    /\ UNCHANGED <<inUse, busy, panel, work, series, runs, truth, late, other>>

\* Mutant of Kept: the end of every run gives the devices back.
KeptNever(t) == {}

\* What _cleanup_thread leaves reserved: all of it while a series holds it.
Kept(t) == IF t \in SeriesTabs THEN tab[t].claimed ELSE {}

\* A series after a run of its tab: _on_measurement_terminal.
SeriesAfter(t, result) ==
    IF series.stop \/ result # "finished" \/ series.left = 0
    THEN [at |-> "off", stop |-> FALSE, left |-> 0]
    ELSE [series EXCEPT !.at = "moving"]

\* _cleanup_thread.  The end of a series publishes its state and releases the
\* reservation (finish_field_batch); a series that goes on shows the move to
\* the next field, and nothing when the next run is at the same one.
CleanupThread(t) ==
    /\ Mail(t, {"thread"}) /\ Take(t)
    /\ LET after == IF t \in SeriesTabs THEN SeriesAfter(t, tab[t].terminal) ELSE series
           kept  == IF after.at = "off" THEN {} ELSE Kept(t)
       IN /\ series' = after
          /\ inUse' = inUse \ (tab[t].claimed \ kept)
          /\ \E phase \in {"quiet", tab[t].phase} :
               /\ t \notin SeriesTabs => phase = tab[t].phase
               /\ t \in SeriesTabs /\ after.at = "off" => phase = "quiet"
               /\ Show([tab EXCEPT ![t].run = 0, ![t].claimed = kept, ![t].running = FALSE,
                                   ![t].phase = phase, ![t].terminal = "none",
                                   ![t].quit = FALSE])
    /\ work' = [work EXCEPT ![t] = [at |-> "none", stop |-> FALSE]]
    /\ UNCHANGED <<busy, panel, runs, log, truth, late, other>>

\* A series ends between two runs: stopped, or its magnet failed.
SeriesEnds(t) ==
    /\ t \in SeriesTabs /\ series.at = "moving"
    /\ series' = [at |-> "off", stop |-> FALSE, left |-> 0]
    /\ inUse' = inUse \ tab[t].claimed
    /\ Show([tab EXCEPT ![t].claimed = {}, ![t].phase = "quiet"])
    /\ UNCHANGED <<busy, panel, work, mail, runs, log, truth, late, other>>

-----------------------------------------------------------------------------
(* The lock-in panel and other hardware operations *)

PanelStart ==
    /\ other < MaxOther /\ other' = other + 1
    /\ ~panel /\ Free({"lockin"})
    /\ panel' = TRUE /\ inUse' = inUse \union {"lockin"}
    /\ UNCHANGED <<busy, tab, work, mail, series, runs, log, truth, late, exported>>

PanelEnds ==
    /\ panel
    /\ panel' = FALSE /\ inUse' = inUse \ {"lockin"}
    /\ UNCHANGED <<busy, tab, work, mail, series, runs, log, truth, late, exported, other>>

\* The manager connects, disconnects or reads: only with nothing in use.
BusyBegins ==
    /\ other < MaxOther /\ other' = other + 1
    /\ ~busy /\ inUse = {}
    /\ busy' = TRUE
    /\ Show([t \in Tabs |-> [tab[t] EXCEPT !.phase = "quiet"]])
    /\ UNCHANGED <<inUse, panel, work, mail, series, runs, log, truth, late>>

BusyEnds ==
    /\ busy /\ busy' = FALSE
    /\ UNCHANGED <<inUse, panel, tab, work, mail, series, runs, log, truth, late,
                   exported, other>>

Rest == runs = MaxRuns /\ UNCHANGED vars

TabStep(t) ==
    \/ StartRun(t) \/ StartSeries(t) \/ StartJob(t)
    \/ StopRun(t) \/ StopSeries(t) \/ SettingsStop(t)
    \/ \E result \in Results : Report(t, result)
    \/ \E zeroed \in BOOLEAN : Return(t, zeroed)
    \/ ThreadEnds(t) \/ OnTerminal(t) \/ RecordOutcome(t) \/ FinalizeOutcome(t)
    \/ CleanupThread(t) \/ SeriesEnds(t)

Next ==
    \/ \E t \in Tabs : TabStep(t)
    \/ Emergency \/ PanelStart \/ PanelEnds \/ BusyBegins \/ BusyEnds
    \/ Rest

Spec == Init /\ [][Next]_vars

-----------------------------------------------------------------------------
(* Properties *)

TypeOK ==
    /\ inUse \subseteq Devices /\ busy \in BOOLEAN /\ panel \in BOOLEAN
    /\ tab \in [Tabs -> TabState]
    /\ series.at \in {"off", "moving", "measuring"} /\ series.left \in 0 .. MaxJobs
    /\ late \subseteq RunIds /\ runs \in 0 .. MaxRuns

\* From start_run until its thread has ended, a run's devices are reserved for
\* its tab alone: not released by another tab, by the panel or between the
\* runs of a series (mark_in_use, release, _cleanup_thread).
DevicesHeld ==
    /\ \A t \in Tabs : Live(t) \/ (t \in SeriesTabs /\ series.at # "off")
                       => tab[t].claimed = Devices /\ ~panel
    /\ \A t \in Tabs : tab[t].claimed \subseteq inUse
    /\ \A t, u \in Tabs : t # u => tab[t].claimed \cap tab[u].claimed = {}

\* On well-formed states, every run holds its devices, and alone.
HoldsItsDevices == TypeOK /\ DevicesHeld

\* The log of a co-sweep run waits for the zero return.
OfMap(r) == truth[r].of \in MapTabs

\* A run's log is ended exactly once, with what its worker reported, and with
\* "error" when the co-sweep worker could not return its outputs to zero.  A
\* map stopped while it returned to zero is logged as stopped: stop_run
\* overwrites _eta_outcome.
LogHonest ==
    \A r \in 1 .. runs :
        /\ Len(log[r]) <= 1
        /\ (\A t \in Tabs : tab[t].run # r) => Len(log[r]) = 1
        /\ log[r] # << >> =>
             \/ log[r][1] = truth[r].result /\ (truth[r].zeroed \/ ~OfMap(r))
             \/ log[r][1] = "error" /\ ~truth[r].zeroed
             \/ log[r][1] = "stopped" /\ truth[r].zeroed /\ r \in late

\* The PNG job of a run is submitted once, after its thread has ended, so that
\* its files are complete; the job of a run is lost, or waits for another
\* operation, only when the run was stopped with its result on show
\* (_running_changed, _flush_ready).
ExportSound ==
    /\ \A r \in 1 .. runs :
         /\ exported[r] <= 1
         /\ exported[r] = 1 => \A t \in Tabs : tab[t].run # r
         /\ \/ exported[r] = 1
            \/ \E t \in Tabs : tab[t].png = r
            \/ r \in late
    /\ \A t \in Tabs : tab[t].png # 0 /\ ~Live(t) =>
         Exportable(tab[t]) \/ tab[t].png \in late

\* What a run leaves behind is complete and true: its log and its figures.
RecordHonest == LogHonest /\ ExportSound
=============================================================================
