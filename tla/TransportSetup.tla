--------------------------- MODULE TransportSetup ---------------------------
(***************************************************************************)
(* How a field sweep programs the APS100 and puts its settings back:       *)
(* configure_transport, start_transport_sweep and restore_transport of the *)
(* worker (src/controllers/magnet_controller.py), the same steps within    *)
(* the synchronous runner BFieldTransportSweep                             *)
(* (src/app/engine/bfield_transport_sweep.py), and the adapter's writes    *)
(* below both (src/app/devices/aps100_attodry1000_adapter.py).             *)
(*                                                                         *)
(* Fields and currents are levels; readings that agree within the          *)
(* tolerances are one level.  A call may fail before or after its effect   *)
(* on the supply; the supply refuses limits that cross.                    *)
(***************************************************************************)
EXTENDS Integers, Sequences, SequencesExt

CONSTANTS
    Boundary,    \* the upper end of every current range
    MaxField,    \* maximum_field_t
    Envelope,    \* MAX_DRIVEN_FIELD_T: what a transport sweep is limited to
    MaxRate,     \* maximum_rate_a_per_s
    Scenes,      \* [op, rates, asked, plan, heater, trouble]: see Init
    MaxTargets   \* bound: sweeps started by the controller

Ranges == DOMAIN Boundary
Fields == -MaxField .. MaxField

VARIABLES
    scene,
    \* the supply
    rate, low, high, sweep, field, heater,
    \* the operation
    op, pc, k,
    todo,        \* the limits still to write
    captured,    \* [rates, limits], each <<>> until it has been read
    failures,    \* what could not be put back
    answer,      \* "none", "done" or "failed"
    targets,
    \* the runner
    started, status, at, records, persistent, raised,
    unpaused,    \* the pause in the runner's finally failed, which ends it there
    trouble

supply == <<rate, low, high, sweep, field, heater>>
limits == <<low, high>>
kept == <<captured, failures>>
runner == <<started, status, at, records, persistent, raised, unpaused>>
vars == <<scene, supply, op, pc, k, todo, kept, answer, targets, runner, trouble>>

\* A scene says who works: the controller's commands or the runner; the programmed
\* and the asked rate, the runner's conditions and legs, and how much goes wrong.
Init ==
    /\ scene \in Scenes
    /\ rate = scene.rates /\ field = 0 /\ heater = scene.heater
    /\ low \in Fields /\ high \in Fields /\ low <= high
    /\ sweep \in (IF scene.op = "run" THEN {"none"} ELSE {"none", "up", "down"})
    /\ op = scene.op /\ pc = "start" /\ k = 1 /\ todo = <<>>
    /\ captured = [rates |-> <<>>, limits |-> <<>>] /\ failures = {} /\ answer = "none"
    /\ targets = 0 /\ trouble = 0
    /\ started = FALSE /\ status = "stopped" /\ at = <<1, 1>> /\ records = <<>>
    /\ persistent = FALSE /\ raised = FALSE /\ unpaused = FALSE

-----------------------------------------------------------------------------
(* Going on, and going wrong.                                              *)

Fine == UNCHANGED trouble
Trouble == trouble < scene.trouble /\ trouble' = trouble + 1
Goto(p) == pc' = p /\ k' = 1 /\ UNCHANGED answer
Over(result) == pc' = "over" /\ answer' = result /\ UNCHANGED k

\* restore_rates and set_limits_t write what was captured: without a captured value
\* there is nothing to put back.
BackTo == IF captured.rates # <<>> THEN "backRates" ELSE IF captured.limits # <<>> THEN "backLimits" ELSE "close"

\* An exception: the worker rolls back what it has begun to change, the runner goes
\* through its finally.
Raise ==
    /\ todo' = <<>>
    /\ \/ op = "configure" /\ pc \in {"start", "limitsRead", "remote"} /\ Over("failed") /\ UNCHANGED <<failures, runner>>
       \/ op = "configure" /\ pc \in {"pause", "rates", "limits"} /\ Goto("backRates") /\ UNCHANGED <<failures, runner>>
       \/ op = "run" /\ Goto("tail") /\ status' = "failed" /\ raised' = TRUE
          /\ UNCHANGED <<failures, started, at, records, persistent, unpaused>>

\* Putting settings back goes on with the next one after a failure.
Missed(what, next) ==
    failures' = failures \cup {what} /\ todo' = <<>> /\ Goto(next) /\ UNCHANGED runner

-----------------------------------------------------------------------------
(* The adapter's writes.                                                   *)

\* set_rate_t_per_min programs the ranges that the field can reach.
Programmed(top) == {i \in Ranges : i = 1 \/ Boundary[i - 1] <= top}

Told(i, v) == rate' = [rate EXCEPT ![i] = v]

\* One RATE command and its readback.
WriteRate(v, more, next) ==
    /\ Told(k, v) /\ Fine
    /\ IF more THEN k' = k + 1 /\ UNCHANGED <<pc, answer>> ELSE Goto(next)
    /\ UNCHANGED <<scene, low, high, sweep, field, heater, op, todo, captured, failures, targets, runner>>

RateFails(v) == Trouble /\ (Told(k, v) \/ UNCHANGED rate)

\* Always the lower one first.
LimitOrderFixed(l, h) == <<<<"low", l>>, <<"high", h>>>>

\* LLIM and ULIM are written in the order in which they never cross.
LimitOrder(l, h) == IF l <= high THEN <<<<"low", l>>, <<"high", h>>>> ELSE <<<<"high", h>>, <<"low", l>>>>

Crosses(c) == IF c[1] = "low" THEN c[2] > high ELSE low > c[2]
Limit(c) == low' = (IF c[1] = "low" THEN c[2] ELSE low) /\ high' = (IF c[1] = "high" THEN c[2] ELSE high)

\* The first limit of todo is written, or refused, or the link fails.
WriteLimit == todo # <<>> /\ ~Crosses(Head(todo)) /\ Limit(Head(todo)) /\ Fine /\ todo' = Tail(todo)
LimitFails ==
    \/ todo # <<>> /\ Crosses(Head(todo)) /\ UNCHANGED limits /\ Fine
    \/ todo # <<>> /\ ~Crosses(Head(todo)) /\ Trouble /\ (Limit(Head(todo)) \/ UNCHANGED limits)
    \/ todo = <<>> /\ Trouble /\ UNCHANGED limits

\* set_limits_t accepts limits in order and within the magnet's field only.
Settable(l, h) == l \in Fields /\ h \in Fields /\ l < h

\* _set_directional_target: the way to the target and the limits written for it.
Upward(t, current) == t >= current /\ ~(t = current /\ t <= low)
Directed(t, current) ==
    CASE Upward(t, current) /\ t < low -> LimitOrder(current, t)
      [] Upward(t, current) /\ t >= low -> <<<<"high", t>>>>
      [] ~Upward(t, current) /\ t > high -> LimitOrder(t, current)
      [] OTHER -> <<<<"low", t>>>>

-----------------------------------------------------------------------------
(* Capture and programming, by the worker and by the runner.               *)

Steady == UNCHANGED <<scene, supply, op, targets>>

\* The runner looks for a stop first (a stop counts as trouble here).
Capture ==
    /\ pc = "start" /\ op \in {"configure", "run"} /\ Steady
    /\ \/ captured' = [captured EXCEPT !.rates = rate] /\ Fine /\ Goto("limitsRead")
          /\ UNCHANGED <<todo, failures, runner>>
       \/ Trouble /\ Raise /\ UNCHANGED captured

CaptureLimits ==
    /\ pc = "limitsRead" /\ Steady
    /\ \/ captured' = [captured EXCEPT !.limits = limits] /\ Fine
          /\ Goto(IF op = "run" THEN "rates" ELSE "remote") /\ UNCHANGED <<todo, failures, runner>>
       \/ Trouble /\ Raise /\ UNCHANGED captured

\* Only the worker asks for remote control, and only it may find a sweep under way.
TakeRemote ==
    /\ pc = "remote" /\ Steady /\ UNCHANGED captured
    /\ \/ Fine /\ Goto("pause") /\ UNCHANGED <<todo, failures, runner>>
       \/ Trouble /\ Raise

PauseSweep ==
    /\ pc = "pause" /\ UNCHANGED <<scene, rate, low, high, field, heater, op, targets, captured>>
    /\ \/ sweep' = "none" /\ Fine /\ Goto("rates") /\ UNCHANGED <<todo, failures, runner>>
       \/ sweep # "none" /\ Trouble /\ sweep' \in {"none", sweep} /\ Raise

Asked == scene.asked
Rates ==
    /\ pc = "rates" /\ Asked <= MaxRate
    /\ WriteRate(Asked, k + 1 \in Programmed(Envelope), "limits")
RatesFail ==
    /\ pc = "rates" /\ UNCHANGED <<scene, low, high, sweep, field, heater, op, targets, captured>>
    /\ IF Asked > MaxRate THEN Fine /\ UNCHANGED rate ELSE RateFails(Asked)
    /\ Raise

\* The limits are read, put in order, and written; k = 1 until they have been read.
SetLimits(l, h) ==
    /\ k = 1 /\ Settable(l, h) /\ todo' = LimitOrder(l, h) /\ k' = 2
    /\ UNCHANGED <<scene, supply, op, pc, kept, answer, targets, runner, trouble>>
Limits ==
    /\ pc = "limits"
    /\ \/ SetLimits(-Envelope, Envelope)
       \/ k = 2 /\ WriteLimit
          /\ UNCHANGED <<scene, rate, sweep, field, heater, op, pc, k, kept, answer, targets, runner>>
       \/ k = 2 /\ todo = <<>> /\ Fine /\ Steady /\ UNCHANGED <<todo, kept, runner>>
          /\ IF op = "run" THEN Goto("files") ELSE Over("done")
       \/ k = 2 /\ LimitFails /\ Raise
          /\ UNCHANGED <<scene, rate, sweep, field, heater, op, captured, targets>>

-----------------------------------------------------------------------------
(* Sweeps of the controller, and putting back.                             *)

\* start_transport_sweep, when the controller has paused the last one; the supply then
\* moves by itself.
StartSweep(t) ==
    /\ op = "configure" /\ answer = "done" /\ pc = "over" /\ targets < MaxTargets /\ targets' = targets + 1
    /\ heater /\ todo' = Directed(t, field) /\ pc' = "direct" /\ k' = t /\ sweep' = "none"
    /\ UNCHANGED <<scene, rate, low, high, field, heater, op, kept, answer, runner, trouble>>
Direct ==
    /\ pc = "direct" /\ UNCHANGED <<scene, rate, field, heater, op, kept, answer, targets, runner>>
    /\ \/ WriteLimit /\ UNCHANGED <<pc, k, sweep>>
       \/ todo = <<>> /\ Fine /\ sweep' = (IF k = high THEN "up" ELSE "down") /\ pc' = "over"
          /\ UNCHANGED <<k, todo, limits>>
       \/ LimitFails /\ todo' = <<>> /\ sweep' = sweep /\ pc' = "over" /\ UNCHANGED k

\* The supply moves the field to the limit of its direction.
Ramp ==
    /\ \/ sweep = "up" /\ field < high /\ field' = field + 1
       \/ sweep = "down" /\ field > low /\ field' = field - 1
    /\ pc = "over" /\ answer = "done"
    /\ UNCHANGED <<scene, rate, low, high, sweep, heater, op, pc, k, todo, kept, answer, targets, runner, trouble>>

\* restore_transport, after the cleanup has paused the supply; the run ended anyhow.
BeginRestore ==
    /\ op = "configure" /\ answer = "done" /\ pc = "over"
    /\ op' = "restore" /\ sweep' = "none" /\ pc' = "backRates" /\ k' = 1 /\ answer' = "none"
    /\ UNCHANGED <<scene, rate, low, high, field, heater, todo, kept, targets, runner, trouble>>

BackRates ==
    /\ pc = "backRates"
    /\ \/ WriteRate(captured.rates[k], k + 1 \in Ranges, IF captured.limits # <<>> THEN "backLimits" ELSE "close")
       \/ RateFails(captured.rates[k]) /\ Missed("rates", IF captured.limits # <<>> THEN "backLimits" ELSE "close")
          /\ UNCHANGED <<scene, low, high, sweep, field, heater, op, captured, targets>>
BackLimits ==
    /\ pc = "backLimits"
    /\ \/ SetLimits(captured.limits[1], captured.limits[2])
       \/ k = 2 /\ WriteLimit
          /\ UNCHANGED <<scene, rate, sweep, field, heater, op, pc, k, kept, answer, targets, runner>>
       \/ k = 2 /\ todo = <<>> /\ Fine /\ Goto("close") /\ Steady /\ UNCHANGED <<todo, kept, runner>>
       \/ /\ IF k = 2 THEN LimitFails ELSE ~Settable(captured.limits[1], captured.limits[2]) /\ Fine /\ UNCHANGED limits
          /\ Missed("limits", "close")
          /\ UNCHANGED <<scene, rate, sweep, field, heater, op, captured, targets>>

\* The worker's answer; restore_transport first reads the rates again.
Close ==
    /\ pc = "close" /\ op # "run" /\ Steady /\ UNCHANGED <<todo, captured, runner>>
    /\ \/ Fine /\ UNCHANGED failures
          /\ Over(IF op = "restore" /\ failures = {} THEN "done" ELSE "failed")
       \/ op = "restore" /\ Trouble /\ failures' = failures \cup {"readback"} /\ Over("failed")

-----------------------------------------------------------------------------
(* The runner: conditions, each a list of legs <<target, direction>>.      *)

Plan == scene.plan
Legs == Plan.legs

Working == UNCHANGED <<scene, rate, op, captured, targets>>
Fails(p) == pc = p /\ op = "run" /\ Trouble /\ Raise /\ Working /\ UNCHANGED <<low, high, sweep, field, heater>>

OpenFiles ==
    /\ pc = "files" /\ Goto("move") /\ Fine /\ Working
    /\ UNCHANGED <<low, high, sweep, field, heater, todo, failures, runner>>

\* safe_move_to_field to the first target counts as started even if it fails.
MoveToStart ==
    /\ pc = "move" /\ started' = TRUE /\ Working /\ UNCHANGED <<low, high, sweep>>
    /\ \/ field' = Legs[1][1] /\ heater' = TRUE /\ Goto("apply") /\ Fine
          /\ UNCHANGED <<todo, failures, status, at, records, persistent, raised, unpaused>>
       \/ heater' \in BOOLEAN /\ Trouble /\ Goto("tail") /\ status' = "failed" /\ raised' = TRUE
          /\ todo' = <<>> /\ UNCHANGED <<field, failures, at, records, persistent, unpaused>>

\* _record: the last record tells whether an endpoint is there already; a reading of 0 T
\* never does.
Reading(f) == [condition |-> at[1], leg |-> at[2], field |-> f]
Recorded(f) == records # <<>> /\ Last(records) = Reading(f) /\ f # 0
Record(f) == records' = Append(records, Reading(f))
Endpoint(f) == IF Recorded(f) THEN UNCHANGED records ELSE Record(f)

Apply ==
    /\ pc = "apply" /\ Goto("first") /\ Fine /\ Working
    /\ UNCHANGED <<low, high, sweep, field, heater, todo, failures, runner>>

\* The first leg is a reading at the start, taken twice when it reads 0 T.
FirstLeg ==
    /\ pc = "first" /\ Fine /\ Working /\ UNCHANGED <<low, high, sweep, field, heater, todo, failures>>
    /\ records' = records \o (IF field = 0 THEN <<Reading(field), Reading(field)>> ELSE <<Reading(field)>>)
    /\ at' = [at EXCEPT ![2] = 2] /\ Goto("leg") /\ UNCHANGED <<started, status, persistent, raised, unpaused>>

BeginLeg ==
    /\ pc = "leg" /\ todo = <<>> /\ heater /\ todo' = Directed(Legs[at[2]][1], field) /\ pc' = "aim"
    /\ Fine /\ Working /\ UNCHANGED <<low, high, sweep, field, heater, k, answer, failures, runner>>
Aim ==
    /\ pc = "aim" /\ Working /\ UNCHANGED <<field, heater>>
    /\ \/ WriteLimit /\ UNCHANGED <<pc, k, answer, sweep, failures, runner>>
       \/ todo = <<>> /\ Fine /\ sweep' = (IF Legs[at[2]][1] = high THEN "up" ELSE "down") /\ Goto("sweeping")
          /\ UNCHANGED <<limits, todo, failures, runner>>
       \/ LimitFails /\ Raise /\ UNCHANGED sweep

\* One turn of wait_for_field: the field has moved on, is looked at and recorded; at the
\* target the supply is paused and what it reads is checked once more.
Nearer(t) == IF field < t THEN field + 1 ELSE IF field > t THEN field - 1 ELSE field
Sweeping ==
    /\ pc = "sweeping" /\ field' = Nearer(Legs[at[2]][1]) /\ Record(field') /\ Fine /\ Working
    /\ IF field' = Legs[at[2]][1] THEN sweep' = "none" /\ Goto("arrived") ELSE UNCHANGED <<sweep, pc, k, answer>>
    /\ UNCHANGED <<low, high, heater, todo, failures, started, status, at, persistent, raised, unpaused>>

Arrived ==
    /\ pc = "arrived" /\ Endpoint(field) /\ Fine /\ Working
    /\ UNCHANGED <<low, high, sweep, field, heater, todo, failures, started, persistent, raised, unpaused>>
    /\ IF at[2] < Len(Legs) THEN at' = [at EXCEPT ![2] = @ + 1] /\ Goto("leg") /\ UNCHANGED status
       ELSE IF at[1] < Plan.conditions THEN at' = <<at[1] + 1, 1>> /\ Goto("apply") /\ UNCHANGED status
       ELSE Goto("tail") /\ status' = "finished" /\ UNCHANGED at

RunnerFails == \E p \in {"files", "apply", "first", "leg", "aim", "sweeping", "arrived"} : Fails(p)

\* The finally of run(): the pause is not protected, what follows it is.
Ended ==
    /\ pc = "tail"
    /\ UNCHANGED <<scene, rate, low, high, field, op, captured, targets, todo, at, records, started, status, raised>>
    /\ \/ (started => status = "finished") /\ Goto(BackTo) /\ Fine
          /\ sweep' = (IF started THEN "none" ELSE sweep) /\ UNCHANGED <<heater, failures, persistent, unpaused>>
       \/ started /\ status # "finished" /\ sweep' = "none" /\ persistent' = TRUE /\ Goto(BackTo) /\ UNCHANGED unpaused
          /\ \/ heater' = FALSE /\ Fine /\ UNCHANGED failures
             \/ Trouble /\ failures' = failures \cup {"persistent"} /\ UNCHANGED heater
       \/ started /\ Trouble /\ sweep' \in {"none", sweep} /\ unpaused' = TRUE /\ Over("failed")
          /\ UNCHANGED <<heater, failures, persistent>>

\* The files are closed and the manifest written; run() returns the records only if
\* nothing failed.
CloseRun ==
    /\ pc = "close" /\ op = "run" /\ Steady /\ UNCHANGED <<todo, captured, started, at, records, persistent, raised, unpaused>>
    /\ \E trip \in BOOLEAN :
          /\ IF trip THEN Trouble /\ failures' = failures \cup {"files"} ELSE Fine /\ UNCHANGED failures
          /\ status' = (IF ~raised /\ failures' # {} THEN "cleanup_failed" ELSE status)
          /\ Over(IF status' = "finished" THEN "done" ELSE "failed")

-----------------------------------------------------------------------------
Worker ==
    \/ Capture \/ CaptureLimits \/ TakeRemote \/ PauseSweep \/ Rates \/ RatesFail \/ Limits
    \/ Direct \/ BeginRestore \/ BackRates \/ BackLimits \/ Close
    \/ \E t \in -Envelope .. Envelope : StartSweep(t)
Runner ==
    \/ OpenFiles \/ MoveToStart \/ Apply \/ FirstLeg \/ BeginLeg \/ Aim \/ Sweeping \/ Arrived
    \/ RunnerFails \/ Ended \/ CloseRun

Rest == pc = "over" /\ (op # "configure" \/ answer # "done") /\ UNCHANGED vars

Next == Worker \/ Runner \/ Ramp \/ Rest

Spec == Init /\ [][Next]_vars

-----------------------------------------------------------------------------
(* Properties.                                                             *)

RateTables == [Ranges -> 0 .. MaxRate + 1]
TypeOK ==
    /\ rate \in RateTables /\ limits \in Fields \X Fields /\ field \in Fields
    /\ sweep \in {"none", "up", "down"} /\ heater \in BOOLEAN /\ trouble \in 0 .. scene.trouble

\* What was captured could not be put back if the limits had met before.
Restorable == captured.limits = <<>> \/ Settable(captured.limits[1], captured.limits[2])
AsCaptured ==
    /\ captured.rates # <<>> => rate = captured.rates
    /\ captured.limits # <<>> => limits = captured.limits

\* A configuration that succeeded limits every range the sweep can reach to the asked
\* rate and the field to the envelope, and has left no sweep running.
ConfiguredAsAsked ==
    op = "configure" /\ answer = "done" /\ pc = "over" /\ targets = 0 =>
        /\ limits = <<-Envelope, Envelope>>
        /\ \A i \in Ranges : (i = 1 \/ Boundary[i - 1] <= Envelope) => rate[i] = Asked

\* An operation that ends has put back what it found, or says what it could not.
PutBack ==
    pc = "over" /\ (op = "restore" \/ answer = "failed") /\ ~unpaused =>
        failures \cap {"rates", "limits"} # {} \/ AsCaptured

\* No write is refused for its order, and nothing fails unless something went wrong.
NoOwnFault ==
    /\ todo # <<>> => ~Crosses(Head(todo))
    /\ pc = "over" /\ answer = "failed" => trouble > 0 \/ Asked > MaxRate \/ ~Restorable

\* A run that returns has recorded every leg of every condition in order, up to its
\* target; one that fails after it has begun to move asks for persistent mode.
\* A later condition begins where the one before it has ended.
Goal(c, l) == IF c > 1 /\ l = 1 THEN Legs[Len(Legs)][1] ELSE Legs[l][1]
Order(r, q) == r.condition < q.condition \/ (r.condition = q.condition /\ r.leg <= q.leg)
RunComplete ==
    op = "run" /\ pc = "over" =>
        /\ \A i \in 1 .. Len(records) - 1 : Order(records[i], records[i + 1])
        /\ answer = "done" => \A c \in 1 .. Plan.conditions, l \in 1 .. Len(Legs) :
              \E i \in DOMAIN records : records[i] = [condition |-> c, leg |-> l, field |-> Goal(c, l)]
        /\ started /\ raised /\ ~unpaused => persistent

\* The supply's settings are what was asked for or what they were, and a run is complete
\* or handed back.
SetupSound == TypeOK /\ ConfiguredAsAsked /\ PutBack /\ NoOwnFault /\ RunComplete
=============================================================================
