--------------------------- MODULE MeasurementRun ---------------------------
(***************************************************************************)
(* app/quick/measurements.py: a measurement of the Quick program from the  *)
(* form to the released instruments.  Four threads of control:             *)
(*                                                                         *)
(*   the user       edits the form, presses Start and Stop, answers the    *)
(*                  confirmation of the field stored in the magnet         *)
(*   the preflight  a QThread that reads the signal chain while the        *)
(*                  instruments are already reserved                       *)
(*   the worker     a QThread that runs one of the four worker programs    *)
(*   the GUI        which receives the worker's signals in the order they  *)
(*                  were emitted, the thread's `finished' last             *)
(*                                                                         *)
(* Modes 4 and 5 hand the run to an engine (GateScanBatch and              *)
(* BFieldTransport are their models); here an engine is on or off, and the *)
(* batch launches workers of its own under one reservation.  Worker        *)
(* programs are sequences of steps, each of which may fail; the ramps and  *)
(* points also look at the stop flag.                                      *)
(***************************************************************************)
EXTENDS Integers, Sequences, FiniteSets, SequencesExt

CONSTANTS Modes,       \* the measurements of the mode list that are checked
          Fields,      \* readings of the field stored in the magnet
          Repeats,     \* runs of one batch
          MaxStarts,   \* bound: presses of Start that reach the preflight
          MaxEdits,    \* bound: edits of the form and changes of the mode
          MaxAsks,     \* bound: confirmations asked
          MaxChanges,  \* bound: changes of the reading of the stored field
          MaxTrouble   \* bound: steps that fail

Kinds == {"dual", "line", "map", "photo"}
Engines == {"batch", "transport"}

ASSUME RunAssumption ==
    /\ Modes \subseteq Kinds \union Engines /\ Modes # {}
    /\ "none" \notin Fields
    /\ Repeats > 0
    /\ {Repeats, MaxStarts, MaxEdits, MaxAsks, MaxChanges, MaxTrouble} \subseteq Nat

\* What a run drives: the gates it has sessions of, and Vds.
Outputs == {"gate", "vds"}
DrivenBy == [dual |-> {{"vds"}, Outputs}, line |-> {Outputs},
             map |-> {{"vds"}, Outputs}, photo |-> {{"gate"}, {"vds"}, Outputs}]

VARIABLES
    mode,       \* _mode
    form,       \* version of the values of the form
    invalid,    \* modes whose _field_errors are not empty
    asked,      \* _confirmation: [token, field], or NoRequest
    granted,    \* _confirmation_granted: a field, or NoField (the mode is the
                \* present one: a change of mode forgets it)
    dialogs,    \* tokens of the dialogs that are open
    manager,    \* the device manager: "free", "busy" by hand, "claimed"
    preflight,  \* [pc, cancel, ok, mode, form]
    engine,     \* "none", or the engine that is active
    worker,     \* [pc, kind, stop, driven, result, failed, terminal, unhandled];
                \* driven is kept until the next run
    queue,      \* signals on their way to the GUI thread
    seen,       \* [terminal, warning]: what has been delivered of this run
    hot,        \* outputs a run sent a voltage to since they were last zeroed
    files,      \* [kind, csv, rows, meta, safe]: the output of the present or last run
    stored,     \* [field, off]: the magnet's stored field, switch heater off
    batch,      \* [left, end]: runs left, why it ends
    report,     \* the last completed run's status
    used,       \* the bounded inputs spent
    validated,  \* history: the mode and form Start validated
    shown,      \* history: what the last accepted dialog showed
    stopped     \* history: stop was pressed since the reservation

gui == <<mode, form, invalid, asked, granted, dialogs, shown>>
lanes == <<preflight, engine, manager, validated, stopped>>
work == <<worker, queue, seen, hot, files>>
rest == <<stored, batch, report, used>>
vars == <<gui, lanes, work, rest>>

NoField == "none"
NoRequest == [token |-> 0, field |-> NoField]
NoPreflight == [pc |-> "none", cancel |-> FALSE, ok |-> FALSE, mode |-> "none", form |-> 0]
NoWorker == [pc |-> 0, kind |-> "none", stop |-> FALSE, driven |-> {}, result |-> "error",
             failed |-> FALSE, terminal |-> "none", unhandled |-> FALSE]
NotSeen == [terminal |-> "none", warning |-> FALSE]
NoFiles == [kind |-> "none", csv |-> "none", rows |-> 0, meta |-> "none", safe |-> FALSE]

\* The run methods.  LineSweepWorker reports its end after the outputs are at
\* zero and the metadata is written; the others report it first.  A
\* photocurrent run goes through its conditions, with a file for each.
DualGateTry == <<"meta", "ramp", "csv", "point", "point">>
LineSweepTry == <<"meta", "ramp", "csv", "point", "point">>
CoSweepTry == <<"meta", "csv", "ramp", "point", "point">>
PhotocurrentTry == <<"meta", "ramp", "csv", "point", "ramp", "csv", "point">>
TryPart == [dual |-> DualGateTry, line |-> LineSweepTry, map |-> CoSweepTry, photo |-> PhotocurrentTry]
ReportsLate == {"line"}
LateTail == <<"zero", "warn", "status", "terminal", "end">>
EarlyTail == <<"terminal", "zero", "warn", "status", "end">>
Program(k) == TryPart[k] \o (IF k \in ReportsLate THEN LateTail ELSE EarlyTail)
TailOf(k) == Len(TryPart[k]) + 1
Returned(w) == w.kind # "none" /\ w.pc > Len(Program(w.kind))
Step(w) == IF w.kind = "none" \/ w.pc = 0 \/ Returned(w) THEN "none" ELSE Program(w.kind)[w.pc]

Working == worker.kind # "none"
Preparing == preflight.pc # "none"
Asking == asked # NoRequest
Active == Working \/ Preparing \/ Asking \/ engine # "none"
CanTrouble == used.trouble < MaxTrouble
Trouble == used' = [used EXCEPT !.trouble = @ + 1]

Init ==
    /\ mode \in Modes /\ form = 0 /\ invalid = {}
    /\ asked = NoRequest /\ granted = NoField /\ dialogs = {}
    /\ manager = "free" /\ preflight = NoPreflight /\ engine = "none"
    /\ worker = NoWorker /\ queue = <<>> /\ seen = NotSeen
    /\ hot = {} /\ files = NoFiles
    /\ stored \in [field : Fields, off : BOOLEAN]
    /\ batch = [left |-> 0, end |-> "none"]
    /\ report = "none"
    /\ used = [starts |-> 0, edits |-> 0, asks |-> 0, changes |-> 0, trouble |-> 0]
    /\ validated = [mode |-> "none", form |-> 0]
    /\ shown = [field |-> NoField, mode |-> "none", form |-> 0]
    /\ stopped = FALSE

-----------------------------------------------------------------------------
(* The form *)

\* Mutant of Editable: the form stays open during the preflight.
EditableEarly == ~Working /\ ~Asking /\ engine = "none"

Editable == ~Active

SetMode ==
    /\ Editable
    /\ used.edits < MaxEdits
    /\ used' = [used EXCEPT !.edits = @ + 1]
    /\ \E m \in Modes \ {mode} : mode' = m
    /\ asked' = NoRequest /\ granted' = NoField
    /\ UNCHANGED <<form, invalid, dialogs, shown, lanes, work, stored, batch, report>>

\* A value that is accepted corrects the field it is in, others may still be
\* wrong; one that is refused stays marked in the form.
Accepted == /\ form' = form + 1 /\ granted' = NoField
            /\ invalid' \in {invalid, invalid \ {mode}}
Refused == /\ invalid' = invalid \union {mode}
           /\ UNCHANGED <<form, granted>>

Editing ==
    /\ Editable
    /\ used.edits < MaxEdits
    /\ used' = [used EXCEPT !.edits = @ + 1]
    /\ UNCHANGED <<mode, asked, dialogs, shown, lanes, work, stored, batch, report>>

SetValue == Editing /\ (Accepted \/ Refused)
SetRecipeCell == Editing /\ (Accepted \/ Refused)
RecipeOperation == Editing /\ Accepted

-----------------------------------------------------------------------------
(* Start, up to the reservation *)

Confirmed(g, f) == g = f
NeedsConfirmation(g) == mode \in Engines /\ stored.off /\ ~Confirmed(g, stored.field)

\* _claim: every device the run needs, or none.
Claim == manager = "free" /\ manager' = "claimed"

\* _start_magnetic, the switch heater is off: remember the request, ask.
AskConfirmation(open) ==
    /\ used.asks < MaxAsks
    /\ asked' = [token |-> used.asks + 1, field |-> stored.field]
    /\ dialogs' = open \union {used.asks + 1}
    /\ used' = [used EXCEPT !.asks = @ + 1]
    /\ UNCHANGED lanes

\* _begin_preflight, after a validation that passed.
BeginPreflight(open) ==
    /\ used.starts < MaxStarts
    /\ used' = [used EXCEPT !.starts = @ + 1]
    /\ Claim
    /\ preflight' = [pc |-> "reading", cancel |-> FALSE, ok |-> FALSE, mode |-> mode, form |-> form]
    /\ validated' = [mode |-> mode, form |-> form]
    /\ stopped' = FALSE
    /\ asked' = NoRequest /\ dialogs' = open
    /\ UNCHANGED engine

\* start() with the confirmation g in hand.
StartWith(g, open) ==
    /\ mode \notin invalid /\ manager # "busy"
    /\ IF NeedsConfirmation(g) THEN AskConfirmation(open) ELSE BeginPreflight(open)
    /\ granted' = g

Start ==
    /\ ~Active
    /\ StartWith(granted, dialogs)
    /\ UNCHANGED <<mode, form, invalid, shown, work, stored, batch, report>>

\* answerConfirmation: an answer to an old dialog is ignored; an accepted one
\* starts again from the top within the same call, where start() may refuse.
Current(token) == asked.token = token
Declined == asked' = NoRequest /\ UNCHANGED <<granted, shown, lanes, used>>

AnswerConfirmation(token, accepted) ==
    /\ token \in dialogs
    /\ IF ~Current(token)
       THEN dialogs' = dialogs \ {token} /\ UNCHANGED <<asked, granted, shown, lanes, used>>
       ELSE IF ~accepted THEN dialogs' = dialogs \ {token} /\ Declined
       ELSE /\ shown' = [field |-> asked.field, mode |-> mode, form |-> form]
            /\ \/ StartWith(asked.field, dialogs \ {token})
               \/ /\ asked' = NoRequest /\ granted' = asked.field   \* refused
                  /\ dialogs' = dialogs \ {token}
                  /\ UNCHANGED <<lanes, used>>
    /\ UNCHANGED <<mode, form, invalid, work, stored, batch, report>>

\* Outside the service: somebody uses an output by hand (the instrument panel
\* refuses while a measurement is active), and the reading of the stored field
\* or of the switch heater changes.
ByHand ==
    /\ \/ manager = "free" /\ ~Active /\ manager' = "busy"
       \/ manager = "busy" /\ manager' = "free"
    /\ UNCHANGED <<gui, preflight, engine, validated, stopped, work, rest>>

StoredChanges ==
    /\ used.changes < MaxChanges
    /\ used' = [used EXCEPT !.changes = @ + 1]
    /\ stored' \in [field : Fields, off : BOOLEAN] \ {stored}
    /\ UNCHANGED <<gui, lanes, work, batch, report>>

-----------------------------------------------------------------------------
(* The preflight and what it leads to *)

\* PreflightThread.run: the flag is looked at once, before the read.
PreflightRead ==
    /\ preflight.pc = "reading"
    /\ \E ok \in BOOLEAN :
        /\ preflight' = [preflight EXCEPT !.pc = "done", !.ok = ok]
        /\ \/ (ok \/ preflight.cancel) /\ UNCHANGED used
           \/ ~ok /\ CanTrouble /\ Trouble
    /\ UNCHANGED <<gui, engine, manager, validated, stopped, work, stored, batch, report>>

\* _launch: make the worker, open the log exclusively, start the thread.
Launch(k, driven) ==
    /\ worker' = [NoWorker EXCEPT !.kind = k, !.pc = 1, !.driven = driven]
    /\ seen' = NotSeen /\ files' = [NoFiles EXCEPT !.kind = k]
    /\ UNCHANGED <<queue, hot>>

\* Mutant of Cancelled: a STOP during the preflight is overlooked.
NeverCancelled == FALSE

Cancelled == preflight.cancel

\* The engine's own start asks for the confirmation of the field as it is now.
EngineRefuses == /\ preflight.mode \in Engines
                 /\ stored.off /\ ~Confirmed(granted, stored.field)

\* _preflight_finished, the run goes on: an ordinary run is launched with the
\* parameters the preflight remembered; an engine is started within the same
\* turn, reads the form itself and claims again what was just released.
GoOn ==
    /\ preflight.ok /\ ~Cancelled /\ ~EngineRefuses
    /\ UNCHANGED <<manager, granted, report, used, stopped>>
    /\ IF preflight.mode \in Kinds
       THEN /\ \E driven \in DrivenBy[preflight.mode] : Launch(preflight.mode, driven)
            /\ UNCHANGED <<engine, batch>>
       ELSE /\ engine' = preflight.mode
            /\ batch' = [left |-> IF preflight.mode = "batch" THEN Repeats ELSE 0, end |-> "none"]
            /\ worker' = NoWorker
            /\ UNCHANGED <<queue, seen, hot, files>>

\* ... or not: stopped, a failed read, an engine that refuses, or anything in
\* the launch that fails, an output file that exists already for one.
MustDrop == Cancelled \/ ~preflight.ok \/ EngineRefuses

Drop ==
    /\ \/ MustDrop /\ UNCHANGED used
       \/ ~MustDrop /\ CanTrouble /\ Trouble
    /\ manager' = "free"
    /\ granted' = IF preflight.mode = "batch" /\ preflight.ok /\ ~Cancelled THEN NoField ELSE granted
    /\ report' = IF Cancelled THEN "stopped" ELSE "error"
    /\ stopped' = FALSE
    /\ UNCHANGED <<engine, batch, work>>

PreflightFinished ==
    /\ preflight.pc = "done"
    /\ preflight' = NoPreflight
    /\ GoOn \/ Drop
    /\ UNCHANGED <<mode, form, invalid, asked, dialogs, shown, validated, stored>>

-----------------------------------------------------------------------------
(* The worker's run *)

\* Leave the try part: into the except clause and on to the cleanup.
Leaves(result) == worker' = [worker EXCEPT !.pc = TailOf(worker.kind), !.result = result]

\* To the next step; past the last step of the try part the run is finished.
Advances == worker' = [worker EXCEPT !.pc = @ + 1,
                       !.result = IF worker.pc + 1 = TailOf(worker.kind) THEN "finished" ELSE @]

Raises == CanTrouble /\ Trouble /\ Leaves("error")

\* write_run_metadata, and the checks that come before it.
WorkerMeta ==
    /\ Step(worker) = "meta"
    /\ \/ Advances /\ files' = [files EXCEPT !.meta = "running"] /\ UNCHANGED used
       \/ Raises /\ UNCHANGED files
    /\ UNCHANGED <<gui, lanes, queue, seen, hot, stored, batch, report>>

\* The CSV file is created exclusively.
WorkerCsv ==
    /\ Step(worker) = "csv"
    /\ \/ Advances /\ files' = [files EXCEPT !.csv = "open"] /\ UNCHANGED used
       \/ Raises /\ UNCHANGED files
    /\ UNCHANGED <<gui, lanes, queue, seen, hot, stored, batch, report>>

\* A ramp or a point that is left between its own steps: what was sent to an
\* output until then stays there.
BreaksOff ==
    /\ hot' \in {hot, hot \union worker.driven}
    /\ \/ worker.stop /\ Leaves("stopped") /\ UNCHANGED used
       \/ Raises
    /\ UNCHANGED files

\* The biases before the first point (safe_ramp, _safe_ramp_vds, _ramp_gate).
WorkerRamp ==
    /\ Step(worker) = "ramp"
    /\ \/ Advances /\ hot' = hot \union worker.driven /\ UNCHANGED <<files, used>>
       \/ BreaksOff
    /\ UNCHANGED <<gui, lanes, queue, seen, stored, batch, report>>

\* A point: the outputs are set, the currents acquired, the row written.
WorkerPoint ==
    /\ Step(worker) = "point"
    /\ \/ /\ Advances /\ UNCHANGED used
          /\ hot' = hot \union worker.driven
          /\ files' = [files EXCEPT !.rows = @ + 1]
       \/ BreaksOff
    /\ UNCHANGED <<gui, lanes, queue, seen, stored, batch, report>>

\* The first part of the finally clause: each output is tried on its own,
\* whatever became of the others, and the stop flag is not looked at.
\* PhotocurrentWorker leaves the gates alone when it failed before it had
\* decided which of them it uses: then it does not drive them.
Zeroable == IF worker.kind = "photo" /\ files.meta = "none"
            THEN {worker.driven, worker.driven \ {"gate"}} ELSE {worker.driven}

WorkerZero ==
    /\ Step(worker) = "zero"
    /\ \E outs \in Zeroable : \E bad \in SUBSET outs :
        /\ \/ bad = {} /\ UNCHANGED used
           \/ bad # {} /\ CanTrouble /\ Trouble
        /\ hot' = hot \ (outs \ bad)
        /\ worker' = [worker EXCEPT !.pc = @ + 1, !.driven = outs, !.failed = bad # {}]
    /\ UNCHANGED <<gui, lanes, queue, seen, files, stored, batch, report>>

\* emit_safe_state_report; LineSweepWorker makes the run an error.
WorkerWarn ==
    /\ Step(worker) = "warn"
    /\ queue' = IF worker.failed THEN Append(queue, "warning") ELSE queue
    /\ worker' = [worker EXCEPT !.pc = @ + 1,
                  !.result = IF worker.failed /\ worker.kind \in ReportsLate THEN "error" ELSE @]
    /\ UNCHANGED <<gui, lanes, seen, hot, files, rest>>

\* update_run_metadata_status; if it fails, LineSweepWorker still reports, the
\* others leave run() with an exception the thread records.
WorkerStatus ==
    /\ Step(worker) = "status"
    /\ \/ /\ files' = [files EXCEPT !.meta = worker.result, !.safe = ~worker.failed]
          /\ worker' = [worker EXCEPT !.pc = @ + 1]
          /\ UNCHANGED used
       \/ /\ CanTrouble /\ Trouble
          /\ worker' = IF worker.kind \in ReportsLate
                       THEN [worker EXCEPT !.pc = @ + 1, !.result = "error"]
                       ELSE [worker EXCEPT !.pc = @ + 1, !.unhandled = TRUE]
          /\ UNCHANGED files
    /\ UNCHANGED <<gui, lanes, queue, seen, hot, stored, batch, report>>

\* finished, stopped or error: kept by the thread object at once (a direct
\* connection), queued for the service.
WorkerTerminal ==
    /\ Step(worker) = "terminal"
    /\ queue' = Append(queue, worker.result)
    /\ worker' = [worker EXCEPT !.pc = @ + 1, !.terminal = worker.result]
    /\ UNCHANGED <<gui, lanes, seen, hot, files, rest>>

\* QThread: run() has returned.
WorkerEnd ==
    /\ Step(worker) = "end"
    /\ queue' = Append(queue, "ended")
    /\ worker' = [worker EXCEPT !.pc = @ + 1]
    /\ UNCHANGED <<gui, lanes, seen, hot, files, rest>>

WorkerStep == WorkerMeta \/ WorkerCsv \/ WorkerRamp \/ WorkerPoint \/ WorkerZero \/ WorkerWarn
              \/ WorkerStatus \/ WorkerTerminal \/ WorkerEnd

-----------------------------------------------------------------------------
(* The GUI thread receives *)

\* _worker_event
Deliver ==
    /\ queue # <<>> /\ Head(queue) # "ended"
    /\ queue' = Tail(queue)
    /\ seen' = IF Head(queue) = "warning" THEN [seen EXCEPT !.warning = TRUE]
               ELSE [seen EXCEPT !.terminal = Head(queue)]
    /\ UNCHANGED <<gui, lanes, worker, hot, files, rest>>

\* Mutant of FinalStatus: the warning of a failed zeroing is not kept.
ForgetfulStatus == IF worker.unhandled THEN "error"
                   ELSE IF worker.terminal # "none" THEN worker.terminal ELSE "error"

\* _thread_finished: what the run is reported as.
FinalStatus ==
    IF worker.unhandled \/ seen.warning THEN "error"
    ELSE IF worker.terminal # "none" THEN worker.terminal
    ELSE IF seen.terminal # "none" THEN seen.terminal ELSE "error"

\* ... within a batch the reservation stays and the batch is told.
ThreadFinished ==
    /\ queue # <<>> /\ Head(queue) = "ended"
    /\ queue' = Tail(queue)
    /\ worker' = [NoWorker EXCEPT !.driven = worker.driven]
    /\ IF engine = "batch"
       THEN /\ batch' = [left |-> batch.left,
                         end |-> IF batch.end = "none" /\ FinalStatus # "finished"
                                 THEN FinalStatus
                                 ELSE IF FinalStatus = "error" THEN "error" ELSE batch.end]
            /\ UNCHANGED <<manager, report, stopped>>
       ELSE /\ manager' = "free" /\ report' = FinalStatus /\ stopped' = FALSE
            /\ UNCHANGED batch
    /\ UNCHANGED <<gui, preflight, engine, validated, seen, hot, files, stored, used>>

-----------------------------------------------------------------------------
(* The engines, as the service sees them *)

\* start_field_batch_measurement: one more run of the batch, or a validation
\* that no longer passes.
BatchMeasure ==
    /\ engine = "batch" /\ ~Working
    /\ batch.left > 0 /\ batch.end = "none"
    /\ \/ /\ Launch("line", Outputs)
          /\ batch' = [batch EXCEPT !.left = @ - 1]
          /\ UNCHANGED used
       \/ /\ CanTrouble /\ Trouble
          /\ batch' = [batch EXCEPT !.end = "error"]
          /\ UNCHANGED work
    /\ UNCHANGED <<gui, lanes, stored, report>>

\* finish_field_batch and _batch_finished
BatchOver == batch.left = 0 \/ batch.end # "none"

BatchFinish ==
    /\ engine = "batch" /\ ~Working /\ BatchOver
    /\ engine' = "none" /\ manager' = "free" /\ stopped' = FALSE
    /\ granted' = NoField
    /\ report' = IF batch.end = "none" THEN "finished" ELSE batch.end
    /\ UNCHANGED <<mode, form, invalid, asked, dialogs, shown, preflight, validated, work, stored, batch, used>>

\* _engine_finished, _engine_stopped, or a failed sweep.
TransportEnds ==
    /\ engine = "transport"
    /\ engine' = "none" /\ manager' = "free" /\ stopped' = FALSE
    /\ granted' = NoField
    /\ report' \in {"finished", "stopped", "error"}
    /\ UNCHANGED <<mode, form, invalid, asked, dialogs, shown, preflight, validated, work, stored, batch, used>>

-----------------------------------------------------------------------------
(* Stop *)

StopPreflight == /\ Preparing
                 /\ preflight' = [preflight EXCEPT !.cancel = TRUE]
                 /\ stopped' = TRUE
                 /\ UNCHANGED <<asked, granted, worker, batch>>

StopAsking == /\ ~Preparing /\ Asking
              /\ asked' = NoRequest /\ granted' = NoField
              /\ UNCHANGED <<preflight, stopped, worker, batch>>

\* A batch that measures stops its worker, one that does not ends at once.
StopRun == /\ ~Preparing /\ ~Asking
           /\ Working \/ engine # "none"
           /\ stopped' = TRUE
           /\ worker' = [worker EXCEPT !.stop = Working]
           /\ batch' = IF engine = "batch" /\ batch.end = "none"
                       THEN [batch EXCEPT !.end = "stopped"] ELSE batch
           /\ UNCHANGED <<preflight, asked, granted>>

Stop ==
    /\ StopPreflight \/ StopAsking \/ StopRun
    /\ UNCHANGED <<mode, form, invalid, dialogs, shown, engine, manager, validated,
                   queue, seen, hot, files, stored, report, used>>

\* _thermal_fault and _thermal_error: the preflight is cancelled and the batch
\* aborted; an ordinary gate measurement goes on.
ThermalFault ==
    /\ Preparing \/ engine = "batch"
    /\ preflight' = [preflight EXCEPT !.cancel = Preparing]
    /\ worker' = [worker EXCEPT !.stop = @ \/ (engine = "batch" /\ Working)]
    /\ batch' = IF engine = "batch" THEN [batch EXCEPT !.end = "error"] ELSE batch
    /\ UNCHANGED <<gui, engine, manager, validated, stopped, queue, seen, hot, files,
                   stored, report, used>>

-----------------------------------------------------------------------------
Idle == ~Active /\ UNCHANGED vars

Next ==
    \/ SetMode \/ SetValue \/ SetRecipeCell \/ RecipeOperation \/ Start \/ Stop \/ ThermalFault
    \/ \E token \in 1 .. MaxAsks, accepted \in BOOLEAN : AnswerConfirmation(token, accepted)
    \/ ByHand \/ StoredChanges
    \/ PreflightRead \/ PreflightFinished
    \/ WorkerStep \/ Deliver \/ ThreadFinished
    \/ BatchMeasure \/ BatchFinish \/ TransportEnds
    \/ Idle

Spec == Init /\ [][Next]_vars

-----------------------------------------------------------------------------
TypeOK ==
    /\ mode \in Modes /\ form \in 0 .. MaxEdits /\ invalid \subseteq Modes
    /\ asked \in [token : 0 .. MaxAsks, field : Fields \union {NoField}]
    /\ granted \in Fields \union {NoField}
    /\ dialogs \subseteq 1 .. MaxAsks
    /\ manager \in {"free", "busy", "claimed"}
    /\ preflight.pc \in {"none", "reading", "done"}
    /\ engine \in Engines \union {"none"}
    /\ hot \subseteq Outputs
    /\ queue \in Seq({"finished", "stopped", "error", "warning", "ended"})
    /\ report \in {"none", "finished", "stopped", "error"}

Wanted(k) == Cardinality({i \in 1 .. Len(TryPart[k]) : TryPart[k][i] = "point"})

\* What is left behind tells the truth.  Metadata that says "finished" stands
\* beside a CSV file with every point; metadata that says the safe state was
\* reached is right about every output the run drove; and a run the user is
\* told has finished has both, although three of the four workers report
\* before they zero anything.
ResultHonest ==
    /\ files.meta = "finished" =>
          files.csv = "open" /\ files.rows = Wanted(files.kind)
    /\ files.safe => hot \intersect worker.driven = {}
    /\ report = "finished" /\ ~Active /\ validated.mode # "transport" =>
          files.meta = "finished" /\ files.safe

\* ResultHonest, with the types of the state.
RunSound == TypeOK /\ ResultHonest

\* A run starts as it was validated: between the validation and the launch,
\* which a whole preflight read separates, the form was not edited, the user
\* did not press Stop, nobody else took the instruments; and an engine starts
\* over a switch heater that is off only if the user accepted a dialog that
\* showed the field stored now, in this mode and with this form.
LaunchSound ==
    [][~Working /\ engine = "none" /\ (worker'.kind # "none" \/ engine' # "none") =>
        /\ validated = [mode |-> mode, form |-> form]
        /\ ~stopped
        /\ manager = "claimed" /\ manager' = "claimed"
        /\ engine' # "none" /\ stored.off =>
              shown = [field |-> stored.field, mode |-> mode, form |-> form]]_vars

\* The instruments are reserved, driven and given back as RunContract promises.
Contract == INSTANCE RunContract WITH
    held <- IF engine # "none" \/ Working
            THEN IF hot \intersect worker.driven # {} THEN "biased" ELSE "running"
            ELSE IF Preparing THEN "reserved" ELSE "no",
    outcome <- report,
    asked <- stopped

ImplementsContract == Contract!ContractSpec

=============================================================================
