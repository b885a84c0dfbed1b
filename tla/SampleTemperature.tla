------------------------- MODULE SampleTemperature -------------------------
(***************************************************************************)
(* What rests on the Lake Shore 335: permission to move the magnet, to     *)
(* measure, and to start at a stable sample temperature.                   *)
(*                                                                         *)
(* The Lake Shore thread (src/controllers/lakeshore335_controller.py over  *)
(* its adapter) polls the two temperatures and the control settings and    *)
(* executes the user's commands, one at a time; what it finds is queued to *)
(* the GUI thread.  There the magnet panel (src/app/quick/magnet.py) keeps *)
(* the confirmed target and how long the sample has been at it, one shared *)
(* evaluator (src/app/thermal_safety.py) keeps how long everything has     *)
(* been recovered, and the Gate Scan batch asks that evaluator before each *)
(* move and each measurement.  The APS100 thread asks an evaluator of its  *)
(* own at each step of the field.  How the batch moves and stops is the    *)
(* subject of GateScanBatch; here it is a client that asks.                *)
(*                                                                         *)
(* Temperatures and fields are levels, time is counted in ticks; a sample  *)
(* is within the tolerance of a target when it has the target's level.     *)
(***************************************************************************)
EXTENDS Integers, Sequences

CONSTANTS
    Scenes,         \* [readings, jobs, waiting, faults, commands, series]: see Init
    Ceiling,        \* the magnet's temperature limit at each field
    Margin,         \* field_stop_margin_k
    SampleRecovery, SampleWarning, SampleTrip, MagnetRecovery,
    Precharge,      \* the 4.2 K of a new charging cycle
    MaxAge,         \* maximum_reading_age_s
    Dwell,          \* required_stable_recovery_dwell_s
    SampleDwell,    \* sample_stability_dwell_s
    Interval        \* minimum_interval_between_heater_activations_s

Fields == DOMAIN Ceiling

ASSUME ConstantsAssumption ==
    /\ Fields \subseteq Nat /\ Ceiling \in [Fields -> Nat]
    /\ \A f, g \in Fields : f <= g => Ceiling[g] <= Ceiling[f]
    /\ {Margin, SampleRecovery, SampleWarning, SampleTrip, MagnetRecovery, Precharge,
        MaxAge, Dwell, SampleDwell, Interval} \subseteq Nat
    /\ SampleRecovery <= SampleWarning /\ SampleWarning < SampleTrip /\ Margin > 0

\* What a sensor can be read as; the way from a field to another leads over
\* the levels between them.
Readings == [ok : BOOLEAN, s : Nat, m : Nat, up : BOOLEAN]

ASSUME ScenesAssumption ==
    /\ 0 \in Fields /\ \A f, g \in Fields : f .. g \subseteq Fields
    /\ \A s \in Scenes :
          /\ s.readings \subseteq Readings /\ s.jobs \in Seq(Fields) /\ s.jobs # <<>>
          /\ s.waiting \in BOOLEAN /\ {s.faults, s.commands, s.series} \subseteq Nat

None == -1

VARIABLES
    \* the Lake Shore thread and its instrument
    open, inst, todo,
    told,       \* signals queued to the GUI thread
    \* the panel
    up, pending, snap, age, ctl, target, stable, failed,
    \* the shared evaluator
    ev,
    batch,      \* phase, context, job, last persistent field, manual continuation
    \* the magnet: where it is, whether its switch heater is on, where its move began
    field, driven, from,
    seen,       \* latest_magnet_snapshot
    \* time and the world
    due, scene, faults, commands, series,
    \* history
    calm,       \* ticks for which everything the GUI thread checked was recovered
    steady,     \* ticks for which every reading met the requirement on the sample
    aim,        \* that requirement
    near,       \* ticks for which every reading was at the panel's target
    touched,    \* somebody changed the setpoint at the instrument, not yet read
    heated      \* this series has put a switch-heater cycle behind it

lakeVars  == <<open, inst, todo>>
panelVars == <<up, pending, snap, age, ctl, target, stable, failed>>
magnetVars == <<field, driven, from>>
bounds    == <<scene, faults, commands, series>>
ghosts    == <<calm, steady, aim, near, heated>>
vars == <<lakeVars, told, panelVars, ev, batch, magnetVars, seen, due, bounds, ghosts, touched>>

Targets == {r.s : r \in scene.readings} \cap 0 .. SampleWarning
Idle == [phase |-> "idle", context |-> "none", job |-> 1, last |-> None, manual |-> FALSE]
Bad == [ok |-> FALSE, s |-> 0, m |-> 0, up |-> FALSE]
Commands == {"sample_control", "heater_off"}

LongDwell == IF Dwell < SampleDwell THEN SampleDwell ELSE Dwell

TypeOK ==
    /\ open \in BOOLEAN /\ inst \in [set : Nat, heat : BOOLEAN] /\ up \in BOOLEAN
    /\ pending \subseteq Commands \cup {"connect"}
    /\ snap \in scene.readings \cup {Bad} /\ age \in 0 .. MaxAge + 1
    /\ {ctl, target} \subseteq Nat \cup {None} /\ failed \in BOOLEAN
    /\ {stable, near} \subseteq None .. SampleDwell
    /\ ev \in [since : None .. Dwell, msince : None .. LongDwell, mset : Nat \cup {None},
               ran : 0 .. Interval]
    /\ batch \in [phase : {"idle", "wait", "moving", "measuring"},
                  context : {"none", "preflight", "pre_move", "post_move"},
                  job : Nat, last : Fields \cup {None}, manual : BOOLEAN]
    /\ field \in Fields /\ driven \in BOOLEAN /\ {from, seen} \subseteq Fields \cup {None}
    /\ due \subseteq {"panel", "batch"}
    /\ calm \in None .. Dwell + 1 /\ steady \in None .. LongDwell /\ aim \in Nat \cup {None}
    /\ {touched, heated} \subseteq BOOLEAN

\* A scene: the readings that occur, the fields of the series' jobs, whether
\* "Wait until stable" is selected, and how many faults, commands of the user
\* and series there are.
Init ==
    /\ scene \in Scenes
    /\ open = TRUE /\ up = TRUE /\ inst = [set |-> SampleRecovery, heat |-> FALSE]
    /\ todo = <<>> /\ told = <<>> /\ pending = {}
    /\ snap = Bad /\ age = 0 /\ ctl = None /\ target = None /\ stable = None /\ failed = FALSE
    /\ ev = [since |-> None, msince |-> None, mset |-> None, ran |-> Interval]
    /\ batch = Idle /\ field = 0 /\ driven = FALSE /\ seen = 0 /\ from = None
    /\ due = {} /\ faults = 0 /\ commands = 0 /\ series = 0
    /\ calm = None /\ steady = None /\ aim = None /\ near = None
    /\ touched = FALSE /\ heated = FALSE

(***************************************************************************)
(* The evaluator.  x is what it sees: the newest reading, its age and the  *)
(* newest field.                                                           *)
(***************************************************************************)
Fresh(x) == x.r.ok /\ x.age <= MaxAge

\* The envelope of Table 3 for a field, or for the way to a goal.
Boundary(x, goal) == Ceiling[IF goal > x.field THEN goal ELSE x.field]

Level(x, goal) ==
    CASE ~Fresh(x) \/ x.field = None -> "fault"
      [] Fresh(x) /\ x.field # None /\ (x.r.s >= SampleTrip \/ x.r.m >= Boundary(x, goal)) -> "tripped"
      [] Fresh(x) /\ x.field # None /\ x.r.s < SampleTrip /\ x.r.m < Boundary(x, goal)
           /\ (x.r.s >= SampleWarning \/ x.r.m >= Boundary(x, goal) - Margin) -> "warning"
      [] OTHER -> "clear"

Recovered(x) == x.r.s <= SampleRecovery /\ x.r.m <= MagnetRecovery /\ ~x.r.up

\* A refusal that forgets the measurement's dwell.
RefuseMove(e) == [e EXCEPT !.since = None]

\* The early returns of evaluate() start both dwells anew.
Refuse(e) == [e EXCEPT !.since = None, !.msince = None]

\* A decision that only lets an operation go on leaves the evaluator alone.
Continue(e, x) == IF Level(x, None) = "clear" THEN e ELSE Refuse(e)

Since(since) == IF since = None THEN 0 ELSE since

\* A hold that lets the dwell run on.
HoldAside(e) == e

\* Below the warning but not recovered, or rising.
HoldFor(e) == [e EXCEPT !.since = None]

Evaluate(e, x) ==
    IF Level(x, None) # "clear" THEN Refuse(e)
    ELSE IF Recovered(x) THEN [e EXCEPT !.since = Since(@)] ELSE HoldFor(e)

\* "dwell" and "interval" are the holds that only need time.
Verdict(e, x) ==
    IF Level(x, None) # "clear" THEN Level(x, None)
    ELSE IF ~Recovered(x) THEN "hold"
    ELSE IF Since(e.since) < Dwell THEN "dwell"
    ELSE IF e.ran < Interval THEN "interval" ELSE "safe"

\* evaluate_measurement(): goal is the sample target, or None for the recovery
\* temperature.
Meets(x, goal) == IF goal = None THEN x.r.s <= SampleRecovery ELSE x.r.s = goal
MeasurementDwell(goal) == IF goal = None THEN Dwell ELSE SampleDwell
Chosen(e, goal) == IF e.mset = goal THEN e ELSE [e EXCEPT !.msince = None, !.mset = goal]

Measure(e, x, goal) ==
    IF Level(x, None) # "clear" THEN Refuse(e)
    ELSE IF goal # None /\ goal >= SampleWarning THEN [e EXCEPT !.msince = None]
    ELSE IF Meets(x, goal) /\ ~x.r.up
         THEN LET c == Chosen(e, goal) IN [c EXCEPT !.msince = Since(@)]
         ELSE [Chosen(e, goal) EXCEPT !.msince = None]

MeasureVerdict(e, x, goal) ==
    IF Level(x, None) # "clear" THEN Level(x, None)
    ELSE IF goal # None /\ goal >= SampleWarning THEN "disarmed"
    ELSE IF Measure(e, x, goal).msince >= MeasurementDwell(goal) THEN "safe" ELSE "hold"

NoteHeater(e) == [e EXCEPT !.msince = None, !.ran = 0]

(***************************************************************************)
(* The Lake Shore thread.  An outcome says what a piece of its work leaves *)
(* in the instrument, which signals it queues and how many faults it took. *)
(***************************************************************************)
Signal(kind) == [kind |-> kind, ok |-> TRUE, r |-> Bad, set |-> None]
Result(kind, ok, set) == [kind |-> kind, ok |-> ok, r |-> Bad, set |-> set]
Heat(i, on) == [i EXCEPT !.heat = on]

\* A reading replaces one that is still queued.
Publish(q, r) ==
    IF \E n \in 1 .. Len(q) : q[n].kind = "reading"
    THEN [n \in 1 .. Len(q) |-> IF q[n].kind = "reading" THEN [q[n] EXCEPT !.r = r, !.ok = TRUE] ELSE q[n]]
    ELSE Append(q, [Signal("reading") EXCEPT !.r = r])

\* A closed session takes the readings back that are still queued.
Forget(q) == [n \in 1 .. Len(q) |-> IF q[n].kind = "reading" THEN [q[n] EXCEPT !.ok = FALSE] ELSE q[n]]

Outcome(i, q, cost) == [inst |-> i, told |-> q, cost |-> cost, read |-> FALSE]

\* The adapter's shutdown of an output, after cost faults.
ShutOutputs(i, cost) ==
    {[inst |-> Heat(i, FALSE), cost |-> cost, ok |-> TRUE],
     [inst |-> Heat(i, FALSE), cost |-> cost + 1, ok |-> FALSE],
     [inst |-> i, cost |-> cost + 1, ok |-> FALSE]}

HeaterOff(o) ==
    {Outcome(s.inst, IF s.ok THEN Append(o.told, Result("heater_off", TRUE, None))
                     ELSE o.told \o <<Result("heater_off", FALSE, None), Signal("alarm")>>, s.cost) :
        s \in ShutOutputs(o.inst, o.cost)}

Told(o, signal) == [o EXCEPT !.told = Append(@, signal)]
Heard(o, r) == [o EXCEPT !.told = Publish(@, r)]
Faulty(o) == [o EXCEPT !.cost = @ + 1]
Current(o) == [o EXCEPT !.read = TRUE]

\* The interlock may want the sample's heater off after a reading; that is a
\* fault of this model's world.
Enforce(o) == {o} \cup {Told(e, Signal("alarm")) : e \in HeaterOff(Faulty(o))}

ControlPoll(o) ==
    {o} \cup Enforce(Current(Told(o, Result("read_control", TRUE, o.inst.set))))
        \cup Enforce(Told(Faulty(o), Result("read_control", FALSE, None)))

Refresh(o) ==
    (UNION {ControlPoll(Heard(o, r)) : r \in scene.readings})
    \cup {Told(e, Signal("alarm")) : e \in Enforce(Heard(Faulty(o), Bad))}

\* set_sample_control: what is left of setting t with the heater range kept,
\* switched off or switched on.  off says whether the adapter's own shutdown
\* after a failure was confirmed.
Left(i, cost, ok, off) == [inst |-> i, cost |-> cost, ok |-> ok, off |-> off]
ShutDown(i) == {Left(s.inst, s.cost, FALSE, IF s.ok THEN "confirmed" ELSE "unconfirmed") :
                  s \in ShutOutputs(i, 1)}
Unless(attempted, i) == IF attempted THEN ShutDown(i) ELSE {Left(i, 1, FALSE, "none")}

\* activation_attempted: the output was heating already, or is being switched on.
Heating(i, range) == i.heat /\ range # "off"
Attempted(i, range) == Heating(i, range)

ApplyOutcomes(i, t, range) ==
    LET base == IF range = "off" THEN Heat(i, FALSE) ELSE i
        done == [base EXCEPT !.set = t]
        full == Heat(done, Heating(i, range) \/ range = "on")
    IN  {Left(full, 0, TRUE, "none"), Left(i, 1, FALSE, "none")}
        \cup (IF range = "off" THEN {Left(base, 1, FALSE, "none")} ELSE {})
        \cup Unless(Attempted(i, range), base) \cup Unless(Attempted(i, range), done)
        \cup (IF range = "on" THEN ShutDown(done) \cup ShutDown(full) ELSE {})
        \cup Unless(full.heat, full)

\* The slot around it: the interlock may still object after the success.
ApplyFailed(q) == q \o <<Result("sample_control", FALSE, None), Signal("alarm")>>

Apply(t, range) ==
    UNION {IF a.ok
           THEN {Current(Told(Outcome(a.inst, told, a.cost), Result("sample_control", TRUE, a.inst.set)))}
                \cup {Told(Told(h, Result("sample_control", FALSE, None)), Signal("alarm")) :
                          h \in HeaterOff(Outcome(a.inst, told, a.cost + 1))}
           ELSE {Outcome(a.inst, ApplyFailed(told), a.cost)} : a \in ApplyOutcomes(inst, t, range)}

Becomes(o) ==
    /\ faults + o.cost <= scene.faults /\ faults' = faults + o.cost
    /\ inst' = o.inst /\ told' = o.told /\ touched' = (touched /\ ~o.read)

GuiAside == UNCHANGED <<panelVars, ev, batch, due, magnetVars, seen, scene, series, ghosts>>
Room == Len(told) <= 1

\* The polling timer of the thread; it finds at most a reading still queued.
Poll ==
    /\ open /\ \A n \in DOMAIN told : told[n].kind = "reading"
    /\ \E o \in Refresh(Outcome(inst, told, 0)) : Becomes(o)
    /\ UNCHANGED <<open, todo, commands>> /\ GuiAside

Connects ==
    LET closed == Append(Forget(told), Signal("disconnected")) IN
    \/ /\ \E o \in Refresh(Outcome(inst, Append(closed, Signal("connected")), 0)) : Becomes(o)
       /\ open' = TRUE
    \/ /\ Becomes(Outcome(inst, Append(closed, Signal("alarm")), 1))
       /\ open' = FALSE

Executes(c) ==
    CASE c.kind = "connect" -> Connects
      [] c.kind = "disconnect" ->
           /\ Becomes(Outcome(inst, Append(Forget(told), Signal("disconnected")), 0)) /\ open' = FALSE
      [] c.kind = "sample_control" ->
           /\ IF open THEN \E o \in Apply(c.set, c.range) : Becomes(o)
                      ELSE Becomes(Outcome(inst, ApplyFailed(told), 0))
           /\ UNCHANGED open
      [] c.kind = "heater_off" ->
           /\ IF open THEN \E o \in HeaterOff(Outcome(inst, told, 0)) : Becomes(o)
                      ELSE Becomes(Outcome(inst, told \o <<Result("heater_off", FALSE, None), Signal("alarm")>>, 0))
           /\ UNCHANGED open

\* The thread takes the next command the GUI thread has queued to it.
Execute ==
    /\ todo # <<>> /\ Room /\ todo' = Tail(todo)
    /\ Executes(Head(todo)) /\ UNCHANGED commands /\ GuiAside

\* Somebody changes the setpoint at the instrument.
FrontPanel ==
    /\ scene.commands > commands /\ commands' = commands + 1
    /\ \E t \in Targets \ {inst.set} : inst' = [inst EXCEPT !.set = t]
    /\ touched' = TRUE
    /\ UNCHANGED <<open, todo, told, faults>> /\ GuiAside

(***************************************************************************)
(* The batch, a client.  An answer is the batch and the evaluator after    *)
(* it; a question leaves the evaluator changed too.                        *)
(***************************************************************************)
Sight == [r |-> snap, age |-> age, field |-> seen]

\* measurement_settings(): the confirmed target of the panel.
PanelTarget == IF failed \/ pending \cap Commands # {} \/ ctl = None THEN None ELSE target
Unknown == scene.waiting /\ PanelTarget = None
Goal == IF scene.waiting THEN PanelTarget ELSE None

Says(e, verdict) == [e |-> e, verdict |-> verdict]

AskMeasurement(e, x) ==
    IF Unknown THEN Says(e, "hold") ELSE Says(Measure(e, x, Goal), MeasureVerdict(e, x, Goal))

AskMove(e, x) == Says(Evaluate(e, x), Verdict(e, x))

Ask(b, e, x) ==
    IF b.context = "post_move" \/ b.phase = "measuring" THEN AskMeasurement(e, x) ELSE AskMove(e, x)

Answer(b, e) == [b |-> b, e |-> e]
Enter(b, phase, context) == [b EXCEPT !.phase = phase, !.context = context]

\* The verified field is the job's; the measurement starts, or waits.
Verify(b, e, x, ran) ==
    LET a == AskMeasurement(IF ran THEN NoteHeater(e) ELSE e, x)
        v == [b EXCEPT !.last = scene.jobs[b.job]]
    IN  Answer(IF a.verdict = "safe" THEN Enter(v, "measuring", "none")
                                     ELSE Enter(v, "wait", "post_move"), a.e)

\* _request_next_move(): the same field again, a move, or a wait; the end is
\* MeasurementEnds's.
RequestNextMove(b, e, x) ==
    LET a == AskMove(e, x)
    IN  IF scene.jobs[b.job] = b.last THEN Verify(b, e, x, FALSE)
        ELSE IF a.verdict = "safe" THEN Answer(Enter(b, "moving", "none"), a.e)
        ELSE Answer(Enter(b, "wait", "pre_move"), a.e)

NeedsOperator == {"warning", "tripped", "fault", "disarmed"}

PollCooldown(b, e, x, pressed) ==
    LET a == Ask(b, e, x)
        m == [b EXCEPT !.manual = @ \/ a.verdict \in NeedsOperator]
    IN  IF a.verdict = "safe" /\ (pressed \/ ~m.manual)
        THEN RequestNextMove([m EXCEPT !.manual = FALSE, !.context = "none"], a.e, x)
        ELSE IF b.context = "preflight" /\ a.verdict \notin {"safe", "dwell", "interval"}
        THEN Answer(Idle, a.e) ELSE Answer(m, a.e)

\* _check_live_thermal(): under way, limits only.
Stopped(b, x) ==
    \/ b.phase # "idle" /\ Level(x, None) = "tripped"
    \/ b.phase \in {"moving", "measuring"} /\ Level(x, None) # "clear"
Live(b, e, x) == IF b.phase \in {"moving", "measuring"} THEN Continue(e, x) ELSE Evaluate(e, x)

\* on_lakeshore_snapshot(); the record of the temperatures asks once more.
BatchSees(b, e, x) ==
    IF Stopped(b, x) THEN Answer(Idle, Live(b, e, x))
    ELSE IF b.phase = "wait" THEN PollCooldown(b, Live(b, e, x), x, FALSE)
    ELSE IF b.phase = "measuring" THEN Answer(b, AskMeasurement(Live(b, e, x), x).e)
    ELSE Answer(b, Live(b, e, x))

Becoming(a) ==
    /\ batch' = a.b /\ ev' = a.e
    /\ from' = IF a.b.phase = "moving" /\ batch.phase # "moving"
               THEN (IF driven \/ scene.jobs[a.b.job] = field THEN None ELSE field)
               ELSE IF a.b.phase = "moving" THEN from ELSE None

(***************************************************************************)
(* What the evaluations saw, kept apart from the evaluator.                *)
(***************************************************************************)
Quiet(x) ==
    /\ Fresh(x) /\ x.field # None /\ ~x.r.up
    /\ x.r.s <= SampleRecovery /\ x.r.s < SampleWarning
    /\ x.r.m <= MagnetRecovery /\ x.r.m < Ceiling[x.field] - Margin
Proper(x) == Fresh(x) /\ x.field # None /\ x.r.s < SampleWarning /\ x.r.m < Ceiling[x.field] - Margin
Requirement(x, goal) ==
    /\ ~x.r.up /\ (goal = None => x.r.s <= SampleRecovery) /\ (goal # None => x.r.s = goal)

Noted(count, good) == IF ~good THEN None ELSE IF count = None THEN 0 ELSE count

\* A sight is put down; while the panel has no target to hold it against,
\* only a limit matters to the measurement.
Witnessed(x) ==
    /\ calm' = Noted(calm, Quiet(x))
    /\ aim' = IF Unknown THEN aim ELSE Goal
    /\ steady' = IF Unknown THEN Noted(steady, steady # None /\ Proper(x))
                 ELSE Noted(IF Goal = aim THEN steady ELSE None, Proper(x) /\ Requirement(x, Goal))

(***************************************************************************)
(* The GUI thread takes what the Lake Shore thread queued.                 *)
(***************************************************************************)
LakeAside == UNCHANGED <<open, inst, todo, touched>>
Taken(kind) == /\ told # <<>> /\ Head(told).kind = kind /\ told' = Tail(told)
Settle == UNCHANGED <<field, driven, bounds>>

AtTarget(r) == r.ok /\ target # None /\ ~failed /\ pending \cap Commands = {} /\ r.s = target

Reading ==
    /\ Taken("reading")
    /\ LET r == Head(told).r
           x == [r |-> r, age |-> 0, field |-> seen]
       IN  IF ~Head(told).ok THEN UNCHANGED <<panelVars, ev, batch, from, ghosts>>
           ELSE /\ snap' = r /\ age' = 0
                /\ stable' = IF AtTarget(r) THEN Since(stable) ELSE None
                /\ Becoming(BatchSees(batch, Evaluate(ev, x), x))
                /\ Witnessed(x) /\ near' = Noted(near, r.ok /\ r.s = target)
                /\ UNCHANGED <<up, pending, ctl, target, failed, heated>>
    /\ UNCHANGED <<seen, due>> /\ Settle /\ LakeAside

Connected ==
    /\ Taken("connected") /\ up' = TRUE /\ pending' = pending \ {"connect"}
    /\ UNCHANGED <<snap, age, ctl, target, stable, failed, ev, batch, from, seen, due, ghosts>>
    /\ Settle /\ LakeAside

\* Both a closed connection and an error leave no reading to go by, and end
\* a batch.
Blinded ==
    /\ snap' = Bad /\ age' = 0 /\ stable' = None /\ ctl' = None
    /\ ev' = Refuse(ev) /\ batch' = Idle /\ from' = None
    /\ calm' = None /\ steady' = None /\ near' = None
    /\ UNCHANGED <<seen, due, aim, heated>> /\ Settle /\ LakeAside

Disconnected ==
    /\ Taken("disconnected") /\ up' = FALSE
    /\ target' = None /\ failed' = FALSE /\ pending' = pending \ Commands /\ Blinded

Alarm ==
    /\ Taken("alarm") /\ failed' = TRUE /\ pending' = pending \ {"connect"}
    /\ UNCHANGED <<up, target>> /\ Blinded

\* A verified setpoint becomes the target unless a newer command is out or
\* the last one failed.
Adopts(m) == (pending \ {m.kind}) \cap Commands = {} /\ (m.kind # "read_control" \/ ~failed)
\* A target changed at the instrument keeps its dwell.
RestartsOnCommand(m) == m.kind # "read_control"

\* What starts the panel's dwell anew.
Restarts(m) == m.kind # "read_control" \/ (Adopts(m) /\ m.set # target)

ControlResult ==
    /\ told # <<>> /\ told' = Tail(told)
    /\ LET m == Head(told) IN
         /\ m.kind \in {"sample_control", "heater_off", "read_control"}
         /\ pending' = pending \ {m.kind}
         /\ IF ~m.ok THEN /\ ctl' = None /\ stable' = None /\ UNCHANGED target
                          /\ failed' = (failed \/ m.kind # "read_control")
            ELSE IF m.kind = "heater_off"
            THEN ctl' = None /\ stable' = None /\ failed' = FALSE /\ UNCHANGED target
            ELSE /\ ctl' = m.set /\ target' = IF Adopts(m) THEN m.set ELSE target
                 /\ stable' = IF Restarts(m) THEN None ELSE stable
                 /\ failed' = (failed /\ m.kind = "read_control")
    /\ near' = IF target' = target THEN near ELSE None
    /\ UNCHANGED <<up, snap, age, ev, batch, from, seen, due, calm, steady, aim, heated>>
    /\ Settle /\ LakeAside

(***************************************************************************)
(* The panel's buttons and its half-second timer.                          *)
(***************************************************************************)
Valid == snap.ok /\ age <= MaxAge

IsReady ==
    ~scene.waiting \/ (/\ PanelTarget # None /\ Valid /\ stable # None
                       /\ snap.s = PanelTarget /\ stable >= SampleDwell)

Presses ==
    /\ scene.commands > commands /\ commands' = commands + 1
    /\ UNCHANGED <<open, inst, told, touched, scene, faults, series, batch, magnetVars, seen,
                   up, snap, age, ctl, target, due, aim, heated>>
Free == pending = {} /\ batch = Idle
Queue(c) == todo' = Append(todo, c)
Aside == UNCHANGED <<ev, calm, steady, near>>

PressApply ==
    /\ up /\ Free
    /\ \E t \in Targets, range \in {"keep", "off", "on"} :
         Queue([kind |-> "sample_control", set |-> t, range |-> range])
    /\ stable' = None /\ failed' = FALSE /\ pending' = pending \cup {"sample_control"}
    /\ Aside /\ Presses

\* _tick() evaluates.
Ticked ==
    /\ ev' = Evaluate(ev, Sight)
    /\ stable' = IF Valid THEN stable ELSE None
    /\ calm' = Noted(calm, Quiet(Sight)) /\ near' = IF Valid THEN near ELSE None
    /\ steady' = Noted(steady, steady # None /\ Proper(Sight))

PressOff ==
    /\ up /\ "heater_off" \notin pending
    /\ Queue([kind |-> "heater_off"])
    /\ pending' = pending \cup {"heater_off"} /\ UNCHANGED failed
    /\ Ticked /\ Presses

PressConnect ==
    /\ Free /\ Queue([kind |-> "connect"])
    /\ pending' = pending \cup {"connect"} /\ UNCHANGED <<failed, stable>>
    /\ Aside /\ Presses

PressDisconnect ==
    /\ Free /\ Queue([kind |-> "disconnect"])
    /\ UNCHANGED <<pending, failed, stable>> /\ Aside /\ Presses

PanelTimer ==
    /\ "panel" \in due /\ due' = due \ {"panel"} /\ Ticked
    /\ UNCHANGED <<lakeVars, told, up, pending, snap, age, ctl, target, failed, batch, magnetVars,
                   seen, bounds, aim, touched, heated>>

(***************************************************************************)
(* The batch's own steps and the magnet's.                                 *)
(***************************************************************************)
Batch(a) ==
    /\ Becoming(a)
    /\ UNCHANGED <<lakeVars, told, panelVars, touched, scene, faults, commands, near>>
Unseen == UNCHANGED <<calm, steady, aim>>

\* A question about a measurement puts nothing to the evaluator while the
\* panel has no target.
AboutMeasurement ==
    \/ batch.phase = "moving" \/ batch.context = "post_move"
    \/ batch.phase = "measuring" /\ scene.jobs[batch.job + 1] = batch.last
Asking(a) == Batch(a) /\ IF Unknown /\ AboutMeasurement THEN Unseen ELSE Witnessed(Sight)
Ending == Batch(Answer(Idle, ev)) /\ Unseen

StartSeries ==
    /\ batch = Idle /\ pending = {} /\ IsReady /\ seen # None
    /\ series < scene.series /\ series' = series + 1
    /\ LET a == AskMove(ev, Sight) IN
         Asking(CASE a.verdict = "safe" -> RequestNextMove(Idle, a.e, Sight)
                  [] a.verdict \in {"dwell", "interval"} -> Answer(Enter(Idle, "wait", "preflight"), a.e)
                  [] OTHER -> Answer(Idle, a.e))
    /\ heated' = FALSE /\ UNCHANGED <<field, driven, seen, due>>

\* The stop itself is GateScanBatch's subject.
StopSeries ==
    /\ batch # Idle /\ Ending
    /\ UNCHANGED <<field, driven, seen, due, series, heated>>

ContinueButton ==
    /\ batch.phase = "wait" /\ batch.manual /\ Asking(PollCooldown(batch, ev, Sight, TRUE))
    /\ UNCHANGED <<field, driven, seen, due, series, heated>>

BatchTimer ==
    /\ "batch" \in due /\ due' = due \ {"batch"}
    /\ \/ batch.phase = "wait" /\ Asking(PollCooldown(batch, ev, Sight, FALSE))
       \/ /\ batch.phase = "measuring"
          /\ Batch(Answer(IF Stopped(batch, Sight) THEN Idle ELSE batch, Live(batch, ev, Sight)))
          /\ calm' = Noted(calm, calm # None /\ Proper(Sight))
          /\ steady' = Noted(steady, steady # None /\ Proper(Sight)) /\ UNCHANGED aim
       \/ /\ batch.phase \in {"idle", "moving"}
          /\ Batch(Answer(batch, ev)) /\ Unseen
    /\ UNCHANGED <<field, driven, seen, series, heated>>

MeasurementEnds ==
    /\ batch.phase = "measuring"
    /\ \/ batch.job = Len(scene.jobs) /\ Ending
       \/ /\ batch.job < Len(scene.jobs)
          /\ Asking(RequestNextMove([batch EXCEPT !.job = @ + 1, !.phase = "idle"], ev, Sight))
    /\ UNCHANGED <<field, driven, seen, due, series, heated>>

\* The APS100 thread checks each step of the field with an evaluator of its
\* own: the newest reading, the field it has just read, the next one.
Goes == scene.jobs[batch.job]
Next1 == IF Goes > field THEN field + 1 ELSE IF Goes < field THEN field - 1 ELSE field
MayStep ==
    /\ Level([r |-> snap, age |-> age, field |-> field], Next1) = "clear"
    /\ (~driven => snap.m <= Precharge)

FieldStep ==
    /\ batch.phase = "moving" /\ Goes # field /\ MayStep
    /\ field' = Next1 /\ driven' = TRUE
    /\ UNCHANGED <<lakeVars, told, panelVars, touched, ev, batch, from, seen, due, bounds, ghosts>>

FieldRefused ==
    /\ batch.phase = "moving" /\ ~MayStep /\ Ending
    /\ UNCHANGED <<field, driven, seen, due, series, heated>>

\* The audit of a move that began persistent at the same field may or may not
\* show a heater cycle.
Arrive ==
    /\ batch.phase = "moving" /\ Goes = field /\ MayStep
    /\ \E ran \in BOOLEAN :
         /\ from # None => ran
         /\ Asking(Verify(batch, ev, Sight, ran)) /\ heated' = (heated \/ ran)
    /\ driven' = FALSE /\ seen' = field /\ UNCHANGED <<field, due, series>>

Magnet ==
    UNCHANGED <<lakeVars, told, touched, panelVars, batch, magnetVars, due, scene, commands, series,
                aim, near, heated>>
MagnetReport == seen # field /\ seen' = field /\ UNCHANGED <<faults, ev, calm, steady>> /\ Magnet
MagnetLost ==
    /\ seen # None /\ seen' = None /\ faults < scene.faults /\ faults' = faults + 1
    /\ ev' = Refuse(ev) /\ calm' = None /\ steady' = None /\ Magnet

(***************************************************************************)
(* Time.  A tick is longer than the GUI thread takes to empty its queue    *)
(* and to serve its timers.                                                *)
(***************************************************************************)
Later(n, most) == IF n = None \/ n = most THEN n ELSE n + 1

Tick ==
    /\ told = <<>> /\ due = {} /\ due' = {"panel", "batch"}
    /\ age' = Later(age, MaxAge + 1) /\ stable' = Later(stable, SampleDwell)
    /\ ev' = [ev EXCEPT !.since = Later(@, Dwell), !.msince = Later(@, LongDwell),
                        !.ran = Later(@, Interval)]
    /\ calm' = Later(calm, Dwell + 1) /\ steady' = Later(steady, LongDwell)
    /\ near' = Later(near, SampleDwell)
    /\ UNCHANGED <<lakeVars, told, touched, up, pending, snap, ctl, target, failed, batch, magnetVars,
                   seen, bounds, aim, heated>>

Lake == Poll \/ Execute \/ FrontPanel
Gui == Reading \/ Connected \/ Disconnected \/ Alarm \/ ControlResult
         \/ PressApply \/ PressOff \/ PressConnect \/ PressDisconnect \/ PanelTimer
Series == StartSeries \/ StopSeries \/ ContinueButton \/ BatchTimer \/ MeasurementEnds
Field == FieldStep \/ FieldRefused \/ Arrive \/ MagnetReport \/ MagnetLost
Next == Lake \/ Gui \/ Series \/ Field \/ Tick

Spec == Init /\ [][Next]_vars

(***************************************************************************)
(* Properties                                                              *)
(***************************************************************************)

\* Permission for a move is there only when every sight put to the evaluator
\* for the whole dwell was recovered and the last heater cycle is an interval
\* ago, and at the latest a tick after that, whoever else asked whatever
\* (thermal_safety.evaluate, the shared _stable_since).
PermissionEarned ==
    /\ Verdict(ev, Sight) = "safe" => Quiet(Sight) /\ Since(calm) >= Dwell /\ ev.ran = Interval
    /\ Quiet(Sight) /\ calm > Dwell /\ ev.ran = Interval => Verdict(ev, Sight) = "safe"

\* The batch starts a move only on a full recovery dwell; it starts a
\* measurement only when every sight since the requirement was set has met it
\* for the dwell (evaluate_measurement).  A series without a heater cycle of
\* its own may use a dwell an earlier series left.
Starting(p) == batch'.phase = p /\ (batch.phase # p \/ batch'.job # batch.job)

StartsEarned ==
    [][/\ Starting("moving") => (calm' >= Dwell /\ ev.ran = Interval)
       /\ Starting("measuring") =>
            (steady' # None /\ steady' >= MeasurementDwell(Goal)) \/ (series > 1 /\ ~heated')]_vars

\* The panel says "ready" only when the sample has been at the target the
\* instrument really has for the whole dwell and no command is out, once what
\* the thread has queued is taken (is_ready, _control_result).
ReadyHonest ==
    IsReady /\ scene.waiting /\ told = <<>> /\ todo = <<>> =>
        /\ near = SampleDwell /\ Valid
        /\ touched \/ target = inst.set

\* A setting that fails part of the way leaves the heater off, or says that
\* it could not confirm that; or it has changed nothing
\* (LakeShore335Adapter.set_sample_control).
FailedApplySafe ==
    \A n \in DOMAIN todo : todo[n].kind = "sample_control" =>
        \A a \in ApplyOutcomes(inst, todo[n].set, todo[n].range) :
            ~a.ok /\ a.inst.heat => a.inst = inst \/ a.off = "unconfirmed"

\* On well-formed states, no permission is given that was not earned, and no failed
\* setting leaves the heater on.
Sound == TypeOK /\ PermissionEarned /\ FailedApplySafe
=============================================================================
